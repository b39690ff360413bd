\* The monitor counts the open positions while it holds one of them.
SPECIFICATION FairSpec
CONSTANTS
    Groups = {g1}
    FollowGroups = {}
    Loop = Loop
    Bot = Bot
    MAX_AUTO_SELL_SIGNAL_ATTEMPTS = 1
    MAX_ZERO_BALANCE_SKIPS = 1
    MAX_SELL_RETRIES = 1
    MaxTokens = 1
    Estimates = {1}
    Fills = {1}
    Percents = {}
    MaxBuys = 1
    MaxQueue = 1
    MaxInFlight = 1
    RpcFails = FALSE
    ConfirmFallback = TRUE
    Absent = Absent
CHECK_DEADLOCK FALSE
PROPERTY
    FallbackSettles
