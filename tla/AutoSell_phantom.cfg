\* Two groups, one token account: one buy lands, the other is confirmed.
SPECIFICATION Spec
CONSTANTS
    Groups = {g1, g2}
    FollowGroups = {}
    Loop = Loop
    Bot = Bot
    MAX_AUTO_SELL_SIGNAL_ATTEMPTS = 1
    MAX_ZERO_BALANCE_SKIPS = 1
    MAX_SELL_RETRIES = 1
    MaxTokens = 2
    Estimates = {1}
    Fills = {1}
    Percents = {}
    MaxBuys = 1
    MaxQueue = 1
    MaxInFlight = 1
    RpcFails = FALSE
    ConfirmFallback = FALSE
    Absent = Absent
CHECK_DEADLOCK FALSE
INVARIANT
    ActiveMeansLanded
