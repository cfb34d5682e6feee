CONSTANTS
    Keys <- MCKeys
    NameKeys <- MCNameKeys
    DevName = "dev"
    MaxLines = 3
    MaxRuns = 2
SPECIFICATION Spec
\* The script is run a bounded number of times.
CHECK_DEADLOCK FALSE
INVARIANT ZipKeysUnique
