\* One source file, its text one of the small functions; no flawed items.
SPECIFICATION UndisturbedSpec
CONSTANTS
    AbsoluteNames <- MCAbsoluteNames
    RelativeNames <- MCRelativeNames
    Joined <- MCJoined
    NoName = "/w"
    Sources <- MCSources
    Programs <- MCPrograms
    Flaws = {}
    MaxItems = 2
INVARIANTS
    SyntaxPreserved
    SkeletonPreserved
    LocationChecked
    LoopChecked
    SearchFindsOutermost
