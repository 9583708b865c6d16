\* A loop invariant of while (x) x; is not asserted in the loop.
SPECIFICATION UndisturbedSpec
CONSTANTS
    AbsoluteNames <- MCAbsoluteNames
    RelativeNames <- MCRelativeNames
    Joined <- MCJoined
    NoName = "/w"
    Sources <- MCSources
    Programs <- LoopWithoutBraces
    Flaws = {}
    MaxItems = 2
INVARIANT LoopChecked
