\* Three threads, every environment, fairness of the system.
SPECIFICATION FairSpec
CONSTANTS
    main = main
    t1 = t1
    t2 = t2
    Threads <- MCThreads
    Main = main
    Unset = Unset
    Codes = {259}
    Timeouts = {0, 1}
    Returns = {1}
    SanitizerCode = 66
INVARIANTS
    TypeOK
    AtomicExclusion
    StatusHasCause
PROPERTIES
    TimerEndsProcess
    FailureEndsProcess
