SPECIFICATION Spec
CONSTANTS
    orchestrator = orchestrator
    writer = writer
    editor = editor
    Specialists <- MCSpecialists
    Orchestrator = orchestrator
    Reviewers <- MCReviewers
    MaxSteps = 3
    MaxMilestones = 2
    MaxReviews = 2
    StallLimit = 2
INVARIANTS
    TypeOK
    NothingLeftBehind
    RecordedWasAnnounced
PROPERTIES
    ImplementsBoundedRun
CHECK_DEADLOCK FALSE
