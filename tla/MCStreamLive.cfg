\* Fair goroutines and any caller: the stream and every add call end, and
\* the progress line makes sense.
SPECIFICATION FairSpec
CONSTANTS
    c1 = c1
    c2 = c2
    c3 = c3
    batch = batch
    single = single
    Config = {c1, c2}
    Call = {batch}
    CallOf <- MCOneBatch
    Single = {}
    QueueCap = 1
    Concurrent = 1
    AddConc = 2
    SharedCtx = TRUE
    Orderly = FALSE
PROPERTIES
    ProgressLineSound
    StreamEnds
    CallsReturn
