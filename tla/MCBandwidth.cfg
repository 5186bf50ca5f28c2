\* Two nodes share the limiter; a size below, and one above the buffer.
SPECIFICATION Spec
CONSTANTS
    n1 = n1
    n2 = n2
    d1 = d1
    d2 = d2
    d3 = d3
    Test = {n1, n2}
    Downloader = {d1, d2, d3}
    TestOf <- MCTestOf
    Size = {1, 3}
    Burst = 2
    MaxTime = 5
SYMMETRY Symmetry
INVARIANTS
    TypeOK
    RateKept
    ResultTrue
