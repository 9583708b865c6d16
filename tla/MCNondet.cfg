\* Two threads draw bytes, a short, memory and whole integers, from inputs that
\* end everywhere in a unit.
SPECIFICATION Spec
CONSTANTS
    Threads = {t1, t2}
    Types <- MCTypes
    MaxInput = 10
    MaxCalls = 2
INVARIANTS
    UnitsUsedOnce
    InOrder
