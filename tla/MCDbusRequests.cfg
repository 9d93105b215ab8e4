SPECIFICATION FairSpec
CONSTANTS
    Req = {r1, r2, r3}
    None = None
    MaxTimers = 2
    MaxTargets = 2
    ReqMax = 1
INVARIANTS
    RepliesReachLive
    TimerPerCall
PROPERTIES
    ImplementsRpc
    RequestsEnd
CHECK_DEADLOCK FALSE
