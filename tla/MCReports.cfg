\* Two nodes, two TestSpeed calls, reports and a Stop in any order between.
SPECIFICATION Spec
CONSTANTS
    Node = {n1, n2}
    Delays = {0, 1, 4}
    Checks = {"", "us"}
    MaxRuns = 2
INVARIANTS
    ReportsAgree
    KeptUnlessListed
