\* stopProgress beside the progress goroutine and a second stopProgress.
SPECIFICATION Spec
CONSTANTS
    MaxRuns = 1
    MaxPrintRuns = 1
    Waits = {"results", "calls", "setup"}
INVARIANTS
    ProgressStopsSafely
