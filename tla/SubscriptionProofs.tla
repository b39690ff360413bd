------------------------- MODULE SubscriptionProofs -------------------------
(***************************************************************************)
(* No cached balance outlives the tracking of its account, for any number  *)
(* of mints and of tasks that track and untrack them.  The property is     *)
(* inductive because of the order inside untrack_mint: whoever drops the   *)
(* mapping of an ATA drops the cached balance afterwards, and an update    *)
(* fills the cache only while the mapping is there.                        *)
(***************************************************************************)
EXTENDS Subscription, FiniteSetTheorems, TLAPS

\* What one task does replaces its own entry, and only that.
LEMMA BecomeType ==
    ASSUME TypeOK, NEW c \in Trackers \cup Untrackers, NEW b \in Caller, Become(c, b)
    PROVE  /\ callers' \in [Trackers \cup Untrackers -> Caller]
           /\ callers'[c] = b
           /\ \A d \in (Trackers \cup Untrackers) \ {c} : callers'[d] = callers[d]
BY DEF TypeOK, Become

\* Whoever is not idle is at work on a mint.
LEMMA AtWork ==
    ASSUME TypeOK, NEW c \in Trackers \cup Untrackers, ~At(c, "idle")
    PROVE  /\ callers[c].pc \in TrackPoints \cup UntrackPoints
           /\ callers[c].mint \in Mints
           /\ callers[c].kind \in Kinds
           /\ Account(c) \in Accounts
BY DEF TypeOK, Caller, Idle, At, Account, Accounts

\* A task that moves on keeps its mint and its kind of account.
LEMMA GotoType ==
    ASSUME TypeOK, NEW c \in Trackers \cup Untrackers, ~At(c, "idle"),
           NEW point \in TrackPoints \cup UntrackPoints, Goto(c, point)
    PROVE  /\ callers' \in [Trackers \cup Untrackers -> Caller]
           /\ callers'[c] = [callers[c] EXCEPT !.pc = point]
           /\ \A d \in (Trackers \cup Untrackers) \ {c} : callers'[d] = callers[d]
<1>1. callers[c] \in [pc : TrackPoints \cup UntrackPoints, mint : Mints, kind : Kinds]
    BY DEF TypeOK, Caller, Idle, At
<1>2. [callers[c] EXCEPT !.pc = point] \in Caller
    BY <1>1 DEF Caller
<1>3. QED
    BY <1>2 DEF TypeOK, Goto

\* The points are told apart.
LEMMA PointNames ==
    /\ TrackPoints = {"map", "touch", "subscribe", "notify"}
    /\ UntrackPoints = {"forget", "collect", "unmap", "unsubscribe", "uncache", "untouch"}
BY DEF TrackPoints, UntrackPoints

\* The values a task takes on.
LEMMA CallerTypes ==
    /\ Idle \in Caller
    /\ \A m \in Mints, p \in TrackPoints \cup UntrackPoints :
            [pc |-> p, mint |-> m, kind |-> "curve"] \in Caller
    /\ \A b \in Caller \ {Idle} :
            /\ NextKind(b) \in Caller
            /\ [b EXCEPT !.pc = "unmap"] \in Caller
            /\ [b EXCEPT !.pc = "map", !.kind = "ata"] \in Caller
<1>1. Kinds = {"curve", "ata"}
    BY DEF Kinds
<1>2. ASSUME NEW b \in Caller \ {Idle}
      PROVE  /\ NextKind(b) \in Caller
             /\ [b EXCEPT !.pc = "unmap"] \in Caller
             /\ [b EXCEPT !.pc = "map", !.kind = "ata"] \in Caller
  <2>1. b \in [pc : TrackPoints \cup UntrackPoints, mint : Mints, kind : Kinds]
    BY DEF Caller
  <2>2. /\ [b EXCEPT !.pc = "collect", !.kind = "ata"] \in Caller
        /\ [b EXCEPT !.pc = "uncache"] \in Caller
        /\ [b EXCEPT !.pc = "unmap"] \in Caller
        /\ [b EXCEPT !.pc = "map", !.kind = "ata"] \in Caller
    BY <1>1, <2>1, PointNames DEF Caller
  <2>3. QED
    BY <2>2 DEF NextKind
<1>3. QED
    BY <1>1, <1>2 DEF Caller

\* The filter of a stream is finite: its size is a number.
LEMMA Sizes ==
    ASSUME NEW S \in SUBSET Accounts
    PROVE  Cardinality(S) \in Nat
<1>1. IsFiniteSet({} \cup {"curve"})
    BY FS_AddElement, FS_EmptySet
<1>2. IsFiniteSet(({} \cup {"curve"}) \cup {"ata"})
    BY <1>1, FS_AddElement
<1>3. Kinds = ({} \cup {"curve"}) \cup {"ata"}
    BY DEF Kinds
<1>4. IsFiniteSet(Accounts)
    BY <1>2, <1>3, SubscriptionAssumption, FS_Product DEF Accounts
<1>5. IsFiniteSet(S)
    BY <1>4, FS_Subset
<1>6. QED
    BY <1>5, FS_CardinalityType

-----------------------------------------------------------------------------
(* Types.                                                                  *)

\* The steps of a task that tracks.
LEMMA TrackTypes ==
    ASSUME TypeOK, NEW c \in Trackers, BeginTrack(c) \/ Track(c)
    PROVE  TypeOK'
<1>1. CASE BeginTrack(c)
    BY <1>1, CallerTypes, BecomeType, PointNames DEF BeginTrack, TypeOK
<1>2. CASE Map(c)
    BY <1>2, AtWork, GotoType, PointNames DEF Map, At, TypeOK
<1>3. CASE Touch(c)
    BY <1>3, AtWork, GotoType, PointNames DEF Touch, At, TypeOK
<1>4. CASE Subscribe(c)
    BY <1>4, AtWork, GotoType, PointNames DEF Subscribe, At, TypeOK
<1>5. CASE Notify(c)
  <2>1. callers[c] \in Caller \ {Idle}
    BY <1>5 DEF Notify, At, Idle, TypeOK
  <2>2. (IF callers[c].kind = "curve"
           THEN [callers[c] EXCEPT !.pc = "map", !.kind = "ata"]
           ELSE Idle) \in Caller
    BY <2>1, CallerTypes
  <2>3. QED
    BY <1>5, <2>2, BecomeType DEF Notify, Permitted, TypeOK
<1>6. QED
    BY <1>1, <1>2, <1>3, <1>4, <1>5 DEF Track

\* The steps of a task that untracks.
LEMMA UntrackTypes ==
    ASSUME TypeOK, NEW c \in Untrackers, BeginCleanup(c) \/ Untrack(c)
    PROVE  TypeOK'
<1>1. CASE BeginCleanup(c)
    BY <1>1, CallerTypes, BecomeType, PointNames DEF BeginCleanup, TypeOK
<1>2. CASE Forget(c)
    BY <1>2, GotoType, PointNames DEF Forget, At, TypeOK
<1>3. CASE Collect(c)
  <2>1. callers[c] \in Caller \ {Idle}
    BY <1>3 DEF Collect, At, Idle, TypeOK
  <2>2. (IF Account(c) \in mapped THEN [callers[c] EXCEPT !.pc = "unmap"]
                                  ELSE NextKind(callers[c])) \in Caller
    BY <2>1, CallerTypes
  <2>3. QED
    BY <1>3, <2>2, BecomeType DEF Collect, TypeOK
<1>4. CASE Unmap(c)
    BY <1>4, GotoType, PointNames DEF Unmap, At, TypeOK
<1>5. CASE Unsubscribe(c)
  <2>1. callers[c] \in Caller \ {Idle}
    BY <1>5 DEF Unsubscribe, At, Idle, TypeOK
  <2>2. NextKind(callers[c]) \in Caller
    BY <2>1, CallerTypes
  <2>3. QED
    BY <1>5, <2>2, BecomeType DEF Unsubscribe, TypeOK
<1>6. CASE Uncache(c)
    BY <1>6, GotoType, PointNames DEF Uncache, At, TypeOK
<1>7. CASE Untouch(c)
    BY <1>7, CallerTypes, BecomeType DEF Untouch, TypeOK
<1>8. QED
    BY <1>1, <1>2, <1>3, <1>4, <1>5, <1>6, <1>7 DEF Untrack

\* The steps of the prune task between two mints.
LEMMA PruneTypes ==
    ASSUME TypeOK, PruneScan \/ BeginPrune
    PROVE  TypeOK'
<1>1. CASE PruneScan
    BY <1>1 DEF PruneScan, TypeOK
<1>2. CASE BeginPrune
  <2>1. PICK m \in doomed : Become(Pruner, [pc |-> "collect", mint |-> m, kind |-> "curve"])
    BY <1>2 DEF BeginPrune
  <2>2. m \in Mints /\ Pruner \in Trackers \cup Untrackers
    BY DEF TypeOK, Untrackers
  <2>3. callers' \in [Trackers \cup Untrackers -> Caller]
    BY <2>1, <2>2, CallerTypes, PointNames, BecomeType
  <2>4. QED
    BY <1>2, <2>3 DEF BeginPrune, TypeOK
<1>3. QED
    BY <1>1, <1>2

\* The steps of the stream.
LEMMA StreamTypes ==
    ASSUME TypeOK, Run \/ Connect \/ Disconnect \/ \E m \in Mints : Update(m)
    PROVE  TypeOK'
<1>1. CASE Check \/ Await \/ Wake \/ Gather
    BY <1>1 DEF Check, Await, Wake, Gather, Points, TypeOK
<1>2. CASE Connect
  <2>1. Cardinality(filter) \in Nat
    BY Sizes DEF TypeOK
  <2>2. QED
    BY <1>2, <2>1 DEF Connect, Counted, Points, TypeOK
<1>3. CASE Resubscribe
  <2>1. Cardinality(subscribed) \in Nat
    BY Sizes DEF TypeOK
  <2>2. QED
    BY <1>3, <2>1 DEF Resubscribe, TypeOK
<1>4. CASE Disconnect
    BY <1>4 DEF Disconnect, Points, TypeOK
<1>5. CASE \E m \in Mints : Update(m)
    BY <1>5 DEF Update, TypeOK
<1>6. QED
    BY <1>1, <1>2, <1>3, <1>4, <1>5 DEF Run

\* Every variable keeps its type, and whoever is not idle is at work on a
\* mint of the program.
THEOREM SubscriptionTypeOK == Spec => []TypeOK
<1>1. Init => TypeOK
  <2>1. [c \in Trackers \cup Untrackers |-> Idle] \in [Trackers \cup Untrackers -> Caller]
    BY CallerTypes
  <2>2. "check" \in Points /\ 0 \in Nat
    BY DEF Points
  <2>3. QED
    BY <2>1, <2>2 DEF Init, TypeOK
<1>2. TypeOK /\ [Next]_vars => TypeOK'
  <2> SUFFICES ASSUME TypeOK, [Next]_vars PROVE TypeOK'
    OBVIOUS
  <2>1. CASE Next
    BY <2>1, TrackTypes, UntrackTypes, PruneTypes, StreamTypes DEF Next, Untrackers
  <2>2. CASE UNCHANGED vars
    BY <2>2 DEF vars, TypeOK
  <2>3. QED
    BY <2>1, <2>2
<1>3. QED
    BY <1>1, <1>2, PTL DEF Spec

-----------------------------------------------------------------------------
(* No balance outlives tracking.                                           *)

\* A task that does not move goes on dropping what it was dropping.
LEMMA DroppingStays ==
    ASSUME NEW d \in Untrackers, NEW m \in Mints, callers'[d] = callers[d],
           Dropping(d, m)
    PROVE  Dropping(d, m)'
BY DEF Dropping, At

\* Who tracks does not untrack.
LEMMA TrackersApart ==
    ASSUME NEW c \in Trackers
    PROVE  c \notin Untrackers
BY SubscriptionAssumption DEF Untrackers

\* Tracking only adds mappings.
LEMMA TrackKeepsFed ==
    ASSUME TypeOK, BalanceIsFed, NEW c \in Trackers, BeginTrack(c) \/ Track(c)
    PROVE  BalanceIsFed'
<1>1. /\ balances' = balances
      /\ mapped \subseteq mapped'
      /\ \A d \in Untrackers : callers'[d] = callers[d]
    BY TrackersApart DEF BeginTrack, Track, Map, Touch, Subscribe, Notify,
                         Become, Goto, TypeOK
<1>2. QED
    BY <1>1, DroppingStays DEF BalanceIsFed

\* An untracker that moves on keeps the balances it is about to drop in
\* sight: while it holds a mint, it stays on its way to uncache it.
LEMMA UntrackKeepsFed ==
    ASSUME TypeOK, BalanceIsFed, NEW c \in Untrackers, BeginCleanup(c) \/ Untrack(c)
    PROVE  BalanceIsFed'
<1> SUFFICES ASSUME NEW m \in Mints, m \in balances'
             PROVE  <<m, "ata">> \in mapped' \/ \E d \in Untrackers : Dropping(d, m)'
    BY DEF BalanceIsFed
<1>1. /\ m \in balances
      /\ \A d \in Untrackers \ {c} : callers'[d] = callers[d]
    BY DEF BeginCleanup, Untrack, Forget, Collect, Unmap, Unsubscribe, Uncache,
           Untouch, Become, Goto, TypeOK
<1>2. <<m, "ata">> \in mapped \/ \E d \in Untrackers : Dropping(d, m)
    BY <1>1 DEF BalanceIsFed
<1>3. ASSUME NEW d \in Untrackers \ {c}, Dropping(d, m)
      PROVE  Dropping(d, m)'
    BY <1>1, <1>3, DroppingStays
<1>4. CASE BeginCleanup(c) \/ Forget(c)
    BY <1>2, <1>3, <1>4 DEF BeginCleanup, Forget, Dropping, At
<1>5. CASE Collect(c)
    BY <1>2, <1>3, <1>5 DEF Collect, Dropping, At
<1>6. CASE Unmap(c)
  <2>1. CASE <<m, "ata">> \in mapped'
    BY <2>1
  <2>2. CASE <<m, "ata">> \in mapped /\ <<m, "ata">> \notin mapped'
    <3>1. callers[c].mint = m /\ callers[c].kind = "ata"
      BY <1>6, <2>2 DEF Unmap, Account
    <3>2. Dropping(c, m)'
      BY <1>6, <3>1 DEF Unmap, Goto, Dropping, At, TypeOK, Untrackers
    <3>3. QED
      BY <3>2
  <2>3. CASE <<m, "ata">> \notin mapped
    BY <1>2, <1>3, <1>6, <2>3 DEF Unmap, Dropping, At
  <2>4. QED
    BY <2>1, <2>2, <2>3
<1>7. CASE Unsubscribe(c)
  <2>1. CASE Dropping(c, m)
    <3>1. callers[c].mint = m /\ callers[c].kind = "ata"
      BY <1>7, <2>1 DEF Unsubscribe, Dropping, At
    <3>2. callers'[c].pc = "uncache" /\ callers'[c].mint = m
      BY <1>7, <3>1 DEF Unsubscribe, Become, NextKind, TypeOK, Caller, Idle
    <3>3. QED
      BY <3>2 DEF Dropping, At
  <2>2. QED
    BY <1>2, <1>3, <1>7, <2>1 DEF Unsubscribe
<1>8. CASE Uncache(c)
  <2>1. ~Dropping(c, m)
    BY <1>8 DEF Uncache, Dropping
  <2>2. QED
    BY <1>2, <1>3, <1>8, <2>1 DEF Uncache
<1>9. CASE Untouch(c)
    BY <1>2, <1>3, <1>9 DEF Untouch, Dropping, At
<1>10. QED
    BY <1>4, <1>5, <1>6, <1>7, <1>8, <1>9 DEF Untrack

\* Between two mints the prune task is dropping nothing.
LEMMA PruneKeepsFed ==
    ASSUME TypeOK, BalanceIsFed, PruneScan \/ BeginPrune
    PROVE  BalanceIsFed'
<1>1. /\ UNCHANGED <<balances, mapped>>
      /\ \A d \in Untrackers \ {Pruner} : callers'[d] = callers[d]
      /\ At(Pruner, "idle")
    BY DEF PruneScan, BeginPrune, Become, TypeOK
<1>2. \A m \in Mints : ~Dropping(Pruner, m)
    BY <1>1 DEF Dropping, At
<1>3. QED
    BY <1>1, <1>2, DroppingStays DEF BalanceIsFed

\* The stream fills the cache only of what is mapped.
LEMMA StreamKeepsFed ==
    ASSUME TypeOK, BalanceIsFed,
           Run \/ Connect \/ Disconnect \/ \E m \in Mints : Update(m)
    PROVE  BalanceIsFed'
<1>1. UNCHANGED <<callers, mapped>>
    BY DEF Run, Check, Await, Wake, Gather, Connect, Resubscribe, Disconnect, Update
<1>2. \A m \in balances' \ balances : <<m, "ata">> \in mapped
    BY DEF Run, Check, Await, Wake, Gather, Connect, Resubscribe, Disconnect, Update
<1>3. QED
    BY <1>1, <1>2, DroppingStays DEF BalanceIsFed

\* No cached balance outlives the tracking of its account, however the tasks
\* that track and untrack mints overlap.
THEOREM SubscriptionBalanceIsFed == Spec => []BalanceIsFed
<1>1. Init => BalanceIsFed
    BY DEF Init, BalanceIsFed
<1>2. TypeOK /\ BalanceIsFed /\ [Next]_vars => BalanceIsFed'
  <2> SUFFICES ASSUME TypeOK, BalanceIsFed, [Next]_vars PROVE BalanceIsFed'
    OBVIOUS
  <2>1. CASE Next
    BY <2>1, TrackKeepsFed, UntrackKeepsFed, PruneKeepsFed, StreamKeepsFed
       DEF Next, Untrackers
  <2>2. CASE UNCHANGED vars
    BY <2>2, DroppingStays DEF vars, BalanceIsFed
  <2>3. QED
    BY <2>1, <2>2
<1>3. QED
    BY <1>1, <1>2, SubscriptionTypeOK, PTL DEF Spec

=============================================================================
