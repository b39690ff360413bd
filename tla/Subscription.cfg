\* Tracking, cleanup and pruning of one mint overlap, and the stream comes and goes.
SPECIFICATION FairSpec
CONSTANTS
    Mints = {m1}
    Trackers = {t1}
    Cleaners = {c1}
    Pruner = Pruner
    Absent = Absent
INVARIANTS
    TypeOK
    BalanceIsFed
PROPERTIES
    SubscriberWakes
    GrowthIsNoticed
