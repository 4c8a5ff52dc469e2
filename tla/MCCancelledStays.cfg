SPECIFICATION Spec
CONSTANTS
    w1 = w1
    w2 = w2
    runner = runner
    approval = approval1
    cancel1 = cancel1
    cancel2 = cancel2
    Workers <- MCWorkers
    Runner = runner
    Resumers <- MCResumers
    Requests <- MCRequests
    MaxCrashes = 1
PROPERTY CancelledStaysCancelled
CHECK_DEADLOCK FALSE
