SPECIFICATION Spec
CONSTANTS
    lead = lead
    writer = writer
    coder = coder
    q1 = q1
    q2 = q2
    q3 = q3
    l1 = l1
    l2 = l2
    None = None
    Canvases <- MCCanvases
    Keys <- MCKeys
    Requests <- MCRequests
    Loads <- MCLoads
SYMMETRY Interchangeable
INVARIANTS
    TypeOK
    ReadyIsMaterialised
    OnlyTeamsExecute
    OnlyOnceReady
    CopyIsCurrent
PROPERTY HistoryIsKept
CHECK_DEADLOCK FALSE
