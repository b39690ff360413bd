\* Estimates that differ from the fills, stale balances, late transactions,
\* retries, and a seller that comes back from all of them.
SPECIFICATION FairSpec
CONSTANTS
    Groups = {g1}
    FollowGroups = {}
    Loop = Loop
    Bot = Bot
    MAX_AUTO_SELL_SIGNAL_ATTEMPTS = 1
    MAX_ZERO_BALANCE_SKIPS = 2
    MAX_SELL_RETRIES = 2
    MaxTokens = 2
    Estimates = {1, 2}
    Fills = {1, 2}
    Percents = {}
    MaxBuys = 1
    MaxQueue = 1
    MaxInFlight = 2
    RpcFails = FALSE
    ConfirmFallback = FALSE
    Absent = Absent
CHECK_DEADLOCK FALSE
INVARIANTS
    ActiveMeansLanded
    ClosedMeansSold
PROPERTIES
    IsSellRights
    WorkersReturn
