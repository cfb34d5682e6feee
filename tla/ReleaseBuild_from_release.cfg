CONSTANTS
    Variants = {"from_release", "auto", "package"}
    MaxRuns = 3
    MaxEdits = 1
    MaxForeign = 1
    MaxFailures = 1
SPECIFICATION Spec
INVARIANT
    CommitNeverRefused
CHECK_DEADLOCK FALSE
