\* Sources are loaded in parallel, fn may fail, the caller may cancel.
SPECIFICATION FairSpec
CONSTANTS
    s1 = s1
    s2 = s2
    s3 = s3
    b1 = b1
    b2 = b2
    b3 = b3
    Source = {s1, s2, s3}
    Batch = {b1, b2, b3}
    BatchesOf <- MCBatchesOf
    Remote = {s2}
    RetryTimes = 1
    Loader = {w1, w2}
INVARIANTS
    TypeOK
    FnSerial
    NilMeansComplete
    ErrorReported
    FnOverAtReturn
PROPERTIES
    LoaderEnds
