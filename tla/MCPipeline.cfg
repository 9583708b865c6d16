\* One example; each of its inputs is edited once.
SPECIFICATION Spec
CONSTANT MaxEdits = 1
INVARIANTS
    PassedIsFaithful
    UpToDateIsTested
    FuzzedIsTested
