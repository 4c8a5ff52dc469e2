SPECIFICATION Spec
CONSTANTS
    a1 = a1
    c1 = c1
    k1 = k1
    k2 = k2
    Skills <- MCSkills
    Agents <- MCAgents
    Gated <- MCAgents
    Callers <- MCCallers
    Sessions <- MCSessions
    PromoteAfter = 2
    QuarantineAfter = 2
    MaxExecutions = 2
    MaxRounds = 2
    MaxRetries = 1
    MaxVerdicts = 2
SYMMETRY SkillsAreAlike
INVARIANTS
    TypeOK
    CountersTrailAudit
    EachRunHasAnApproval
PROPERTIES
    RetiredStaysRetired
CHECK_DEADLOCK FALSE
