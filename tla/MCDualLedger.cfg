SPECIFICATION Spec
CONSTANTS
    orchestrator = orchestrator
    writer = writer
    editor = editor
    critic = critic
    m1 = m1
    m2 = m2
    m3 = m3
    None = None
    Specialists <- MCSpecialists
    Orchestrator = orchestrator
    Reviewers <- MCReviewers
    MilestoneIds <- MCMilestoneIds
    MaxSteps = 7
    MaxMilestones = 2
    MaxReviews = 2
    StallLimit = 3
    RecursionLimits <- MCRecursionLimits
INVARIANTS
    TypeOK
    StepBudget
    SynthesisIsEarned
    OnlyVerifiedArtifacts
    VerifiedWasEndorsed
    RotationIsFair
    CritiqueMatchesAttempt
    LimitSuffices
PROPERTIES
    VerifiedStays
    ImplementsBoundedRun
CHECK_DEADLOCK FALSE
