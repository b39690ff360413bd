\* Edits, saves and crashes while one transaction comes and comes again.
SPECIFICATION FairSpec
CONSTANTS
    w1 = w1
    w2 = w2
    t1 = t1
    Wallets = {w1, w2}
    Quorums = {1, 2}
    ConfigWallets = {w1}
    ConfigQuorum = 2
    MaxGroups = 2
    Unreadable = Unreadable
    MaxEdits = 2
    Txs = {t1}
    Sender <- OneSender
    MaxQueue = 1
    Absent = Absent
INVARIANTS
    TypeOK
    Restartable
    NoVoteForRefuted
PROPERTY
    HotEditsReachStream
