\* One group in follow mode: signals, bot commands, retries, failures, put-back
\* states and the fallback check.
SPECIFICATION Spec
CONSTANTS
    Groups = {g1}
    FollowGroups = {g1}
    Loop = Loop
    Bot = Bot
    MAX_AUTO_SELL_SIGNAL_ATTEMPTS = 1
    MAX_ZERO_BALANCE_SKIPS = 1
    MAX_SELL_RETRIES = 1
    MaxTokens = 1
    Estimates = {1}
    Fills = {1}
    Percents = {50, 100}
    MaxBuys = 1
    MaxQueue = 1
    MaxInFlight = 1
    RpcFails = FALSE
    ConfirmFallback = TRUE
    Absent = Absent
CHECK_DEADLOCK FALSE
INVARIANTS
    TypeOK
    ClaimsBounded
PROPERTY
    ClosedStaysClosed
