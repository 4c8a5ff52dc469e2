SPECIFICATION Spec
CONSTANTS
    NumJobs = 2
    Reviewable <- MCReviewable
    p1 = p1
    p2 = p2
    s1 = s1
    None = None
    Pollers <- MCPollers
    Sweepers <- MCSweepers
    MaxAttempts = 3
    BatchSize = 2
    MaxFaults = 1
INVARIANTS
    TypeOK
    LearnedTwiceNeedsACause
PROPERTIES
    EveryJobSettles
CHECK_DEADLOCK FALSE
