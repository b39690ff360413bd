\* Every interleaving of votes, upgrades, failures, expiry and cleanup on one
\* key: three wallets, so that a quorum of two can form twice.
SPECIFICATION FairSpec
CONSTANTS
    Keys = {k1}
    Wallets = {w1, w2, w3}
    Signatures = {s1, s2}
    Shapes <- SafetyShapes
    Quorums = {2}
    Timeouts = {2}
    MaxAge = 2
    MaxLag = 2
    MaxQueued = 1
    Absent = Absent
INVARIANTS
    TypeOK
    OneVotePerWallet
    NoMissedQuorum
PROPERTIES
    TriggerBackedByQuorum
    TriggeredIsReleased
