SPECIFICATION Spec
CONSTANTS
    c1 = c1
    c2 = c2
    c3 = c3
    i1 = i1
    i2 = i2
    p1 = p1
    p2 = p2
    NoCall = NoCall
    Calls = {c1, c2}
    Creators = {c1, c2}
    Editors = {}
    Readers = {}
    Ids = {i1}
    Paths = {p1}
    PathOf <- OneFile
    Faults = {}
CHECK_DEADLOCK FALSE
INVARIANT CreatedOnce
