\* An orderly caller: what RunStream promises, for any context use.
SPECIFICATION Spec
CONSTANTS
    c1 = c1
    c2 = c2
    c3 = c3
    batch = batch
    single = single
    Config = {c1, c2, c3}
    Call = {batch, single}
    CallOf <- MCCallOf
    Single = {single}
    QueueCap = 1
    Concurrent = 1
    AddConc = 2
    SharedCtx = FALSE
    Orderly = TRUE
SYMMETRY Symmetry
INVARIANTS
    TypeOK
    NoPanic
    EndAccounted
    ResultsDelivered
PROPERTIES
    ClosedIsFinal
    TotalFixedAfterClose
    ImplementsResultStream
