\* Two source files; flawed items; failures and death at every step.
SPECIFICATION Spec
CONSTANTS
    AbsoluteNames <- MCAbsoluteNames
    RelativeNames <- MCRelativeNames
    Joined <- MCJoined
    NoName = "/w"
    Sources <- MCSources
    Programs <- MCPrograms
    Flaws = {"entry_type", "type", "line", "value", "format"}
    MaxItems = 2
INVARIANTS
    TypeOK
    WholeOrUntouched
    ZeroMeansWritten
    InjectedAsStated
PROPERTY InjectsAtomically
