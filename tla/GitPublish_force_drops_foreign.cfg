CONSTANTS
    MaxCommits <- MCSafetyCommits
    MaxForeign = 1
    MaxFailures = 1
    MaxEdits = 1
    MaxInterrupts = 0
SPECIFICATION Spec
PROPERTY
    ExtendingPushKeepsOrigin
