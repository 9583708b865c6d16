\* A flawed item drops the ones after it, and the tool reports success.
SPECIFICATION Spec
CONSTANTS
    AbsoluteNames <- MCAbsoluteNames
    RelativeNames <- MCRelativeNames
    Joined <- MCJoined
    NoName = "/w"
    Sources <- MCSources
    Programs <- MCPrograms
    Flaws = {"entry_type", "type", "line", "value", "format"}
    MaxItems = 2
INVARIANT AllInjected
