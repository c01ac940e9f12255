SPECIFICATION Spec
CONSTANTS
    c1 = c1
    c2 = c2
    c3 = c3
    i1 = i1
    i2 = i2
    p1 = p1
    p2 = p2
    NoCall = NoCall
    Calls = {c1, c2, c3}
    Creators = {}
    Editors = {c3}
    Readers = {}
    Ids = {i1, i2}
    Paths = {p1, p2}
    PathOf <- FilePerId
    Faults = {"crash", "cancel", "remote"}
CHECK_DEADLOCK FALSE
INVARIANT TypeOK
INVARIANT OneRuntime
INVARIANT NoLostReply
INVARIANT Isolation
