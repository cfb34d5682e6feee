CONSTANTS
    MaxRelease <- MCMaxRelease
    MaxCommits <- MCMaxCommits
    EditDuringRun = FALSE
SPECIFICATION Spec
INVARIANT UpToDateMeansBuilt
