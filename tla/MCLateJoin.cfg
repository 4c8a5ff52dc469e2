SPECIFICATION Spec
CONSTANTS
    ann = ann
    Clients <- MCClients
    LogCap = 3
    MaxFrames = 5
INVARIANT LateJoinSafe
CHECK_DEADLOCK FALSE
