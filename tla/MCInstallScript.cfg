SPECIFICATION Spec
CONSTANTS
    Versions = {v1, v2, v3}
    None = None
    MaxRuns = 4
    MaxKills = 2
    MaxFailures = 2
INVARIANTS InstalledAsAsked NeverRefuses TrueLabels MarkerBacked
PROPERTY NothingLost
SYMMETRY Symmetry
CHECK_DEADLOCK FALSE
