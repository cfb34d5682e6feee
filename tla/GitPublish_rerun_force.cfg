CONSTANTS
    MaxCommits <- MCInterruptCommits
    MaxForeign = 2
    MaxFailures = 2
    MaxEdits = 1
    MaxInterrupts = 1
SPECIFICATION RerunForcePusher
CHECK_DEADLOCK FALSE
PROPERTY
    RetryConverges
