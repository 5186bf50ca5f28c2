\* Two runs, the second started while the first may still drain, or one run
\* with progress output.
SPECIFICATION FairSpec
CONSTANTS
    MaxRuns = 2
    MaxPrintRuns = 1
    Waits = {"calls", "setup"}
INVARIANTS
    TypeOK
    OwnInput
    InputClosedOnce
PROPERTIES
    StopIsFinal
    ProgressEnds
    RunsEnd
