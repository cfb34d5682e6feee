CONSTANTS
    MaxRelease <- MCMaxRelease
    MaxCommits <- MCMaxCommits
    EditDuringRun = FALSE
SPECIFICATION Spec
INVARIANTS
    NoSyncedStepWhileRebasing
    PushedDescriptorsComplete
PROPERTIES
    RemoteNeverRewritten
    WorkflowImplemented
