\* Two slots for buys of one key, in two pools of one permit each; a buy may
\* reach the age at which the sweeper drops its claim.
SPECIFICATION FairSpec
CONSTANTS
    Keys = {k1}
    Tasks = {t1, t2}
    Pools = {buys, wrapper_buys}
    Permits <- OnePermit
    Cooldown = 2
    Stale = 2
    MaxBuy = 2
    Absent = Absent
INVARIANTS
    TypeOK
    OneBuyPerKey
PROPERTIES
    DedupIsLock
    BuysReturn
    KeyReleased
