SPECIFICATION Spec
CONSTANTS
    a = a
    b = b
    c = c
    k1 = k1
    k2 = k2
    Turns = {a, b, c}
    Tickets = {k1, k2}
    TicketOf <- TicketsOf
    LabelOf <- LabelsOf
    BoughtFor <- Bought
    ClassOf <- ClassesOf
    Verifiers = {"actum", "dummy", "halo2"}
    Handlers = {h1, h2, h3}
    RequestLens = {700, 8192, 8193}
    ResponseLens = {90, 8192, 8193}
    Faults = {"mix"}
SYMMETRY Symmetry
CHECK_DEADLOCK FALSE
INVARIANT TypeOK
INVARIANT OwnAnswer
INVARIANT OpenedAsSealed
INVARIANT BoughtAnswers
INVARIANT SizesHideContent
PROPERTY PaidAnswers
