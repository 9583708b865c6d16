\* All of the hand-written examples, with three threads.
SPECIFICATION Spec
CONSTANTS
    N = 3
    Programs <- Names
    MaxFailures = 1
    MaxSpurious = 1
INVARIANTS
    NoRace
    NeverFails
    MemorySafe
PROPERTY MainReturns
