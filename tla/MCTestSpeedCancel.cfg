\* ConfigPath and a cancel: the callback outlives the loader.
SPECIFICATION TSSpec
CONSTANTS
    c1 = c1
    c2 = c2
    k1 = k1
    k2 = k2
    s1 = s1
    Config = {c1, c2}
    Call = {k1, k2}
    CallOf <- TwoCalls
    Single = {}
    QueueCap = 1
    Concurrent = 1
    AddConc = 2
    SharedCtx = TRUE
    Orderly = FALSE
    Source = {s1}
    BatchesOf <- OneSource
    Remote = {}
    RetryTimes = 0
    Loader = {w1}
    Inline = {k2}
    Meddling = {"Cancel"}
INVARIANTS
    NoPanic
