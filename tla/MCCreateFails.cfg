\* The creation of a thread fails.
SPECIFICATION Spec
CONSTANTS
    N = 2
    Programs = {"thread_join_counter_outer"}
    MaxFailures = 1
    MaxSpurious = 0
PROPERTY FailureDoesNotMatter
CHECK_DEADLOCK FALSE
