\* Any client of the controller, three processes.
SPECIFICATION ClientSpec
CONSTANTS
    Procs = {p1, p2, p3}
    NoProc = NoProc
    MaxCrashes = 1
INVARIANT NoOrphan
PROPERTY StopReturns
