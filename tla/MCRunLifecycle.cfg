SPECIFICATION Spec
CONSTANTS
    w1 = w1
    w2 = w2
    runner = runner
    approval = approval1
    cancel1 = cancel1
    cancel2 = cancel2
    Workers <- MCWorkers
    Runner = runner
    Resumers <- MCResumers
    Requests <- MCRequests
    MaxCrashes = 1
INVARIANTS
    TypeOK
    OutcomeAnnounced
    LearnedOnce
    ReviewingCanResume
PROPERTIES
    OutcomeKept
    LateCancelIsARace
    RunSettles
    CancellationLands
CHECK_DEADLOCK FALSE
