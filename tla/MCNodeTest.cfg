\* Two workers test nodes that share a cache key, with metrics.
SPECIFICATION Spec
CONSTANTS
    w1 = w1
    w2 = w2
    node = node
    Worker = {w1, w2}
    Key = {node}
    KeyOf <- MCKeyOf
    Value <- MCValue
    NoValue = NoValue
    Tries = 2
    Samples = 1
    Elapsed = {0, 1}
    Url = {}
    Check = {}
    Country = {}
    GPTCountry = {}
SYMMETRY Symmetry
INVARIANTS
    TypeOK
    AliveWasReached
    DeadWasTried
    QuietAtResult
    SamplesAccounted
