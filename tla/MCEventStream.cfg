SPECIFICATION Spec
CONSTANTS
    ann = ann
    Clients <- MCClients
    LogCap = 3
    MaxFrames = 5
INVARIANTS
    TypeOK
    InOrderOnce
    OnlyTheGapIsMissed
    LiveStopsAtTerminal
PROPERTY OutcomeReleases
CHECK_DEADLOCK FALSE
