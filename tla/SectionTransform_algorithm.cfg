CONSTANTS
    Keys <- MCKeys
    NameKeys <- MCNameKeys
    DevName = "dev"
    MaxLines = 5
SPECIFICATION Spec
\* One call of the function: the behaviour ends after it.
CHECK_DEADLOCK FALSE
INVARIANTS
    TypeOK
    SectionEndAgrees
    OriginalPreserved
    KeysUniqueAfterOnce
