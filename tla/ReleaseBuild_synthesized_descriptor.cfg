CONSTANTS
    Variants = {"from_release"}
    MaxRuns = 3
    MaxEdits = 1
    MaxForeign = 1
    MaxFailures = 1
SPECIFICATION Spec
PROPERTY
    MaintainedDescriptorKept
CHECK_DEADLOCK FALSE
