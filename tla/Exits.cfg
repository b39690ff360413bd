\* One position, two changes of the price, a cache that is overwritten with
\* an older one, and sales that fail until they are suspended.
SPECIFICATION FairSpec
CONSTANTS
    Prices = {8, 10, 14}
    Settings <- AllSettings
    Estimated = 10
    Known = {0, 8}
    MaxMoves = 2
    MaxSignals = 1
    MAX_AUTO_SELL_SIGNAL_ATTEMPTS = 1
    MAX_ZERO_BALANCE_SKIPS = 1
    MaxTokens = 1
CHECK_DEADLOCK FALSE
INVARIANTS
    TypeOK
    PeakIsOwn
PROPERTIES
    LossIsActedOn
    LifetimeIsActedOn
