--------------------------- MODULE BuyGateProofs ---------------------------
(***************************************************************************)
(* The dedup map is a lock with a cooldown, for any number of keys, tasks  *)
(* and permits and however long a buy may last: only a key one of whose    *)
(* buys under way outlasted its claim is bought twice at a time, and it is *)
(* a lock again when those buys have returned.                             *)
(*                                                                         *)
(* The lock is not visible in any one variable: the holder of a key is a   *)
(* program counter, its claim an entry that refused requests and the       *)
(* sweeper touch.  The invariant ties the two: unless the key has been     *)
(* outlasted, the claim of a task that executes is in the map, in flight   *)
(* and no older than the execution, which is younger than Stale.           *)
(***************************************************************************)
EXTENDS BuyGate, TLAPS

\* The claim of an executing task is there, and younger than the task.
Claimed ==
    \A t \in Tasks : \A k \in Keys \ outlasted :
        Holds(t, k) => /\ dedup[k] # Absent
                       /\ dedup[k].in_flight
                       /\ dedup[k].touched <= tasks[t].age
                       /\ tasks[t].age < Stale

\* A task that waits for its permit or its claim has no age yet.
WaitingIsYoung ==
    \A t \in Tasks : tasks[t] # Absent /\ ~In(t, Executing) => tasks[t].age = 0

\* A claim in flight has no cooldown to wait for.
FlightIsWarm ==
    \A k \in Keys : dedup[k] # Absent /\ dedup[k].in_flight => dedup[k].cooldown = 0

Safe == OneBuyPerKey /\ Claimed /\ FlightIsWarm /\ WaitingIsYoung

-----------------------------------------------------------------------------
(* Types.                                                                  *)

\* Updating one task keeps the types when the new value has its type.
LEMMA BecomeType ==
    ASSUME TypeOK, NEW t \in Tasks, NEW b \in BuyTask \cup {Absent}, Become(t, b)
    PROVE  /\ tasks' \in [Tasks -> BuyTask \cup {Absent}]
           /\ tasks'[t] = b
           /\ \A u \in Tasks \ {t} : tasks'[u] = tasks[u]
BY DEF TypeOK, Become

\* A task that only moves on stays a task.
LEMMA GotoType ==
    ASSUME TypeOK, NEW t \in Tasks, tasks[t] # Absent,
           NEW pc \in Executing \cup {"queued", "claim"}, Goto(t, pc)
    PROVE  /\ tasks' \in [Tasks -> BuyTask \cup {Absent}]
           /\ tasks'[t] = [tasks[t] EXCEPT !.pc = pc]
           /\ \A u \in Tasks \ {t} : tasks'[u] = tasks[u]
<1>1. tasks[t] \in BuyTask
    BY DEF TypeOK
<1>2. [tasks[t] EXCEPT !.pc = pc] \in BuyTask
    BY <1>1 DEF BuyTask
<1>3. QED
    BY <1>2 DEF TypeOK, Goto

\* The two ways to the build step give tasks.
LEMMA ReadyType ==
    ASSUME NEW b \in BuyTask, NEW good \in BOOLEAN
    PROVE  /\ Ready(b) \in BuyTask /\ Ready(b).key = b.key
           /\ Ready(b).age = b.age /\ Ready(b).pc = "build"
           /\ Unready(b, good) \in BuyTask /\ Unready(b, good).key = b.key
           /\ Unready(b, good).age = b.age /\ Unready(b, good).pc = "build"
BY DEF BuyTask, Ready, Unready, Executing

\* The claims the dedup operations write.
LEMMA ClaimTypes ==
    /\ Vacant \in GroupMintClaim
    /\ [in_flight |-> FALSE, cooldown |-> Cooldown, touched |-> 0] \in GroupMintClaim
    /\ \A c \in GroupMintClaim : Refused(c) \in GroupMintClaim
    /\ \A c \in GroupMintClaim \cup {Absent} :
            Later(c) \in GroupMintClaim \cup {Absent}
<1>1. Cooldown \in Nat /\ Stale \in Nat
    BY BuyGateAssumption
<1>2. ASSUME NEW c \in GroupMintClaim
      PROVE  Later(c) \in GroupMintClaim
  <2>1. /\ c.touched \in 0 .. Stale /\ c.cooldown \in 0 .. Cooldown
        /\ c.in_flight \in BOOLEAN /\ c # Absent
    BY <1>2, AbsentAssumption DEF GroupMintClaim
  <2>2. /\ (IF c.touched < Stale THEN c.touched + 1 ELSE Stale) \in 0 .. Stale
        /\ (IF c.cooldown > 0 THEN c.cooldown - 1 ELSE 0) \in 0 .. Cooldown
    BY <1>1, <2>1
  <2>3. QED
    BY <2>1, <2>2 DEF Later, GroupMintClaim
<1>3. Vacant \in GroupMintClaim
    BY <1>1 DEF Vacant, GroupMintClaim
<1>4. [in_flight |-> FALSE, cooldown |-> Cooldown, touched |-> 0] \in GroupMintClaim
    BY <1>1 DEF GroupMintClaim
<1>5. \A c \in GroupMintClaim : Refused(c) \in GroupMintClaim
    BY <1>1 DEF Refused, GroupMintClaim
<1>6. Later(Absent) = Absent
    BY DEF Later
<1>7. QED
    BY <1>2, <1>3, <1>4, <1>5, <1>6

\* The program counters apart from each other.
LEMMA Counters ==
    /\ {"prefetch", "curve", "extra", "sync", "build", "finish"} \subseteq Executing
    /\ "queued" \notin Executing /\ "claim" \notin Executing
BY DEF Executing

\* Each step of a task gives values of the right type.
LEMMA RunTypes ==
    ASSUME TypeOK, NEW t \in Tasks, Run(t)
    PROVE  TypeOK'
<1>1. /\ dedup \in [Keys -> GroupMintClaim \cup {Absent}]
      /\ known \in BOOLEAN /\ curve \in BOOLEAN /\ fetching \in BOOLEAN
      /\ tasks[t] # Absent => tasks[t] \in BuyTask
      /\ outlasted \subseteq Keys
    BY DEF TypeOK
<1>2. ASSUME NEW pc \in Executing \cup {"queued", "claim"}, tasks[t] # Absent,
             Goto(t, pc), UNCHANGED <<dedup, known, curve, fetching, outlasted>>
      PROVE  TypeOK'
    BY <1>1, <1>2, GotoType DEF TypeOK
<1>3. ASSUME NEW b \in BuyTask \cup {Absent}, Become(t, b),
             UNCHANGED <<dedup, known, outlasted>>, curve' \in BOOLEAN, fetching' \in BOOLEAN
      PROVE  TypeOK'
    BY <1>1, <1>3, BecomeType DEF TypeOK
<1>4. CASE Acquire(t)
    BY <1>2, <1>4 DEF Acquire, In
<1>5. CASE QueueTimeout(t)
    BY <1>1, <1>3, <1>5 DEF QueueTimeout
<1>6. CASE Claim(t)
  <2> DEFINE k == tasks[t].key
  <2>1. /\ tasks[t] # Absent /\ k \in Keys
        /\ UNCHANGED <<known, curve, fetching, outlasted>>
    BY <1>1, <1>6 DEF Claim, In, BuyTask
  <2>2. CASE CanStart(k)
    <3>1. Goto(t, "prefetch") /\ dedup' = [dedup EXCEPT ![k] = Vacant]
      BY <1>6, <2>2 DEF Claim
    <3>2. tasks' \in [Tasks -> BuyTask \cup {Absent}]
      BY <2>1, <3>1, Counters, GotoType
    <3>3. dedup' \in [Keys -> GroupMintClaim \cup {Absent}]
      BY <1>1, <3>1, ClaimTypes
    <3>4. QED
      BY <1>1, <2>1, <3>2, <3>3 DEF TypeOK
  <2>3. CASE ~CanStart(k)
    <3>1. Become(t, Absent) /\ dedup' = [dedup EXCEPT ![k] = Refused(@)]
      BY <1>6, <2>3 DEF Claim
    <3>2. tasks' \in [Tasks -> BuyTask \cup {Absent}]
      BY <3>1, BecomeType
    <3>3. dedup[k] \in GroupMintClaim
      BY <1>1, <2>1, <2>3 DEF CanStart
    <3>4. dedup' \in [Keys -> GroupMintClaim \cup {Absent}]
      BY <1>1, <3>1, <3>3, ClaimTypes
    <3>5. QED
      BY <1>1, <2>1, <3>2, <3>4 DEF TypeOK
  <2>4. QED
    BY <2>2, <2>3
<1>7. CASE AwaitPrefetch(t)
  <2> DEFINE b == [tasks[t] EXCEPT !.prefetched = known]
  <2>1. b \in BuyTask /\ [b EXCEPT !.pc = "curve"] \in BuyTask
    BY <1>1, <1>7 DEF AwaitPrefetch, In, BuyTask, Executing
  <2>2. Ready(b) \in BuyTask
    BY <2>1, ReadyType
  <2> HIDE DEF b
  <2>3. Become(t, IF curve THEN Ready(b) ELSE [b EXCEPT !.pc = "curve"])
    BY <1>7 DEF AwaitPrefetch, b
  <2>4. QED
    BY <1>1, <1>3, <1>7, <2>1, <2>2, <2>3 DEF AwaitPrefetch
<1>8. CASE SeesCurve(t)
  <2>1. Ready(tasks[t]) \in BuyTask
    BY <1>1, <1>8, ReadyType DEF SeesCurve, In
  <2>2. QED
    BY <1>1, <1>3, <1>8, <2>1 DEF SeesCurve
<1>9. CASE CurveTimeout(t)
  <2>1. CASE tasks[t].patient /\ fetching
    BY <1>2, <1>9, <2>1, Counters DEF CurveTimeout, CurveIsLate, In
  <2>2. CASE ~(tasks[t].patient /\ fetching)
    BY <1>2, <1>9, <2>2, Counters DEF CurveTimeout, CurveIsLate, In
  <2>3. QED
    BY <2>1, <2>2
<1>10. CASE ExtraTimeout(t)
    BY <1>2, <1>10, Counters DEF ExtraTimeout, In
<1>11. CASE SyncFetch(t)
  <2>1. tasks[t] \in BuyTask /\ tasks[t].patient \in BOOLEAN
    BY <1>1, <1>11 DEF SyncFetch, In, BuyTask
  <2>2. PICK b \in BuyTask : Become(t, b)
    BY <1>11, <2>1, ReadyType DEF SyncFetch
  <2>3. UNCHANGED <<dedup, known, fetching, outlasted>> /\ curve' \in BOOLEAN
    BY <1>1, <1>11 DEF SyncFetch
  <2>4. QED
    BY <1>1, <1>3, <2>2, <2>3
<1>12. CASE BuildAndSend(t)
  <2>1. PICK submitted \in {FALSE, tasks[t].good} :
            Become(t, [tasks[t] EXCEPT !.pc = "finish", !.good = submitted])
    BY <1>12 DEF BuildAndSend
  <2>2. [tasks[t] EXCEPT !.pc = "finish", !.good = submitted] \in BuyTask
    BY <1>1, <1>12, <2>1, Counters DEF BuildAndSend, In, BuyTask
  <2>3. QED
    BY <1>1, <1>3, <1>12, <2>1, <2>2 DEF BuildAndSend
<1>13. CASE Finish(t)
  <2>1. tasks' \in [Tasks -> BuyTask \cup {Absent}]
    BY <1>13, BecomeType DEF Finish
  <2>2. tasks[t].key \in Keys
    BY <1>1, <1>13 DEF Finish, In, BuyTask
  <2>3. dedup' \in [Keys -> GroupMintClaim \cup {Absent}]
    BY <1>1, <1>13, <2>2, ClaimTypes DEF Finish, finish_group_mint
  <2>4. QED
    BY <1>1, <1>13, <2>1, <2>3 DEF Finish, TypeOK
<1>14. QED
    BY <1>4, <1>5, <1>6, <1>7, <1>8, <1>9, <1>10, <1>11, <1>12, <1>13 DEF Run

\* The clock stops a task at MaxBuy.
LEMMA TickTypes ==
    ASSUME TypeOK, Tick
    PROVE  TypeOK'
<1>1. dedup' \in [Keys -> GroupMintClaim \cup {Absent}]
    BY ClaimTypes DEF Tick, TypeOK
<1>2. ASSUME NEW t \in Tasks, In(t, Executing)
      PROVE  [tasks[t] EXCEPT !.age = @ + 1] \in BuyTask
  <2>1. tasks[t] \in BuyTask /\ tasks[t].age < MaxBuy
    BY <1>2 DEF Tick, TypeOK, In
  <2>2. tasks[t].age + 1 \in 0 .. MaxBuy
    BY <2>1, BuyGateAssumption DEF BuyTask
  <2>3. QED
    BY <2>1, <2>2 DEF BuyTask
<1>3. tasks' \in [Tasks -> BuyTask \cup {Absent}]
    BY <1>2 DEF Tick, TypeOK
<1>4. QED
    BY <1>1, <1>3 DEF Tick, TypeOK

\* So does every step, and the initial state.
LEMMA StepTypes ==
    ASSUME TypeOK, [Next]_vars
    PROVE  TypeOK'
<1>1. CASE \E t \in Tasks : Spawn(t)
  <2>1. PICK t \in Tasks : Spawn(t)
    BY <1>1
  <2>2. PICK k \in Keys, pool \in Pools, decodable \in BOOLEAN, patient \in BOOLEAN :
            Become(t, [key |-> k, pool |-> pool, pc |-> "queued",
                       decodable |-> decodable, patient |-> patient,
                       prefetched |-> FALSE, good |-> FALSE, age |-> 0])
    BY <2>1 DEF Spawn
  <2>3. 0 \in 0 .. MaxBuy
    BY BuyGateAssumption
  <2>4. [key |-> k, pool |-> pool, pc |-> "queued",
         decodable |-> decodable, patient |-> patient,
         prefetched |-> FALSE, good |-> FALSE, age |-> 0] \in BuyTask
    BY <2>3 DEF BuyTask
  <2>5. tasks' \in [Tasks -> BuyTask \cup {Absent}]
    BY <2>2, <2>4, BecomeType
  <2>6. QED
    BY <2>1, <2>5 DEF Spawn, TypeOK
<1>2. CASE \E t \in Tasks : Run(t)
    BY <1>2, RunTypes
<1>3. CASE FetchReturns \/ CurveUpdate \/ Forget
    BY <1>3 DEF FetchReturns, CurveUpdate, Forget, TypeOK
<1>4. CASE Sweep
    BY <1>4 DEF Sweep, Swept, TypeOK
<1>5. CASE UNCHANGED vars
    BY <1>5 DEF vars, TypeOK
<1>6. QED
    BY <1>1, <1>2, <1>3, <1>4, <1>5, TickTypes DEF Next

\* At first nothing is claimed or cached.
LEMMA InitTypes == Init => TypeOK
BY DEF Init, TypeOK

\* The types hold whatever MaxBuy and Stale are: no cooldown runs below
\* zero, no age beyond its bound.
THEOREM BuyGateTypeOK == Spec => []TypeOK
BY InitTypes, StepTypes, PTL DEF Spec

-----------------------------------------------------------------------------
(* The holder of a key.                                                    *)

\* A task goes on without touching what it holds, and a new one is young.
Quiet ==
    /\ \A u \in Tasks, k \in Keys :
          /\ Holds(u, k)' <=> Holds(u, k)
          /\ Holds(u, k) => tasks'[u].age = tasks[u].age
    /\ WaitingIsYoung'
    /\ UNCHANGED outlasted

\* The claims stay as far as a task that executes can tell.
ClaimsKept ==
    \A k \in Keys :
        /\ CoolingOf(k)' = CoolingOf(k)
        /\ ((\E u \in Tasks : Holds(u, k)) /\ dedup[k] # Absent /\ dedup[k].in_flight
              /\ dedup[k].touched < Stale)
             => /\ dedup'[k] # Absent /\ dedup'[k].in_flight
                /\ dedup'[k].touched <= dedup[k].touched
        /\ dedup'[k] # Absent /\ dedup'[k].in_flight
             => dedup[k] # Absent /\ dedup[k].in_flight

\* Ages and claims are numbers that can be compared.
LEMMA Numbers ==
    ASSUME TypeOK
    PROVE  /\ \A t \in Tasks, k \in Keys : Holds(t, k) =>
                /\ tasks[t].age \in Nat /\ tasks[t].age <= MaxBuy
                /\ tasks[t] \in BuyTask
           /\ \A k \in Keys : dedup[k] # Absent =>
                /\ dedup[k].touched \in Nat /\ dedup[k].cooldown \in Nat
                /\ dedup[k].in_flight \in BOOLEAN
<1>1. MaxBuy \in Nat /\ Stale \in Nat /\ Cooldown \in Nat
    BY BuyGateAssumption
<1>2. ASSUME NEW t \in Tasks, NEW k \in Keys, Holds(t, k)
      PROVE  tasks[t].age \in Nat /\ tasks[t].age <= MaxBuy /\ tasks[t] \in BuyTask
  <2>1. tasks[t] \in BuyTask
    BY <1>2 DEF TypeOK, Holds, In
  <2>2. QED
    BY <1>1, <2>1 DEF BuyTask
<1>3. ASSUME NEW k \in Keys, dedup[k] # Absent
      PROVE  /\ dedup[k].touched \in Nat /\ dedup[k].cooldown \in Nat
             /\ dedup[k].in_flight \in BOOLEAN
  <2>1. dedup[k] \in GroupMintClaim
    BY <1>3 DEF TypeOK
  <2>2. QED
    BY <1>1, <2>1 DEF GroupMintClaim
<1>4. QED
    BY <1>2, <1>3

\* Such a step keeps the invariant and is none of the lock's.
LEMMA QuietStep ==
    ASSUME TypeOK, TypeOK', Safe, Quiet, ClaimsKept
    PROVE  Safe' /\ UNCHANGED Lock!vars
<1>1. OneBuyPerKey'
    BY DEF Safe, OneBuyPerKey, Quiet
<1>2. Claimed'
  <2>1. SUFFICES ASSUME NEW t \in Tasks, NEW k \in Keys \ outlasted, Holds(t, k)'
                 PROVE  /\ dedup'[k] # Absent /\ dedup'[k].in_flight
                        /\ dedup'[k].touched <= tasks'[t].age
                        /\ tasks'[t].age < Stale
    BY DEF Claimed, Quiet
  <2>2. Holds(t, k) /\ tasks'[t].age = tasks[t].age
    BY <2>1 DEF Quiet
  <2>3. /\ dedup[k] # Absent /\ dedup[k].in_flight
        /\ dedup[k].touched <= tasks[t].age /\ tasks[t].age < Stale
    BY <2>2 DEF Safe, Claimed
  <2>4. tasks[t].age \in Nat /\ dedup[k].touched \in Nat
    BY <2>2, <2>3, Numbers
  <2>5. dedup[k].touched < Stale
    BY <2>3, <2>4, BuyGateAssumption
  <2>6. /\ dedup'[k] # Absent /\ dedup'[k].in_flight
        /\ dedup'[k].touched <= dedup[k].touched
    BY <2>2, <2>3, <2>5 DEF ClaimsKept
  <2>7. dedup'[k].touched \in Nat
    BY <2>6, BuyGateAssumption DEF TypeOK, GroupMintClaim
  <2>8. QED
    BY <2>2, <2>3, <2>4, <2>6, <2>7
<1>3. FlightIsWarm'
    BY DEF Safe, FlightIsWarm, ClaimsKept, CoolingOf
<1>4. \A k \in Keys : Holders(k)' = Holders(k)
    BY DEF Quiet, Holders
<1>5. [k \in Keys |-> Holders(k)]' = [k \in Keys |-> Holders(k)]
    BY <1>4
<1>6. [k \in Keys |-> CoolingOf(k)]' = [k \in Keys |-> CoolingOf(k)]
    BY DEF ClaimsKept
<1>7. QED
    BY <1>1, <1>2, <1>3, <1>5, <1>6 DEF Safe, Quiet, Lock!vars

\* One task moves, within its execution or outside of it.
LEMMA MovesOn ==
    ASSUME WaitingIsYoung, UNCHANGED outlasted,
           NEW t \in Tasks, \A u \in Tasks \ {t} : tasks'[u] = tasks[u],
           \/ /\ In(t, Executing) /\ In(t, Executing)'
              /\ tasks'[t].key = tasks[t].key /\ tasks'[t].age = tasks[t].age
           \/ /\ ~In(t, Executing) /\ ~In(t, Executing)'
              /\ tasks'[t] = Absent \/ tasks'[t].age = 0
    PROVE  Quiet
<1>1. ASSUME NEW u \in Tasks, NEW k \in Keys
      PROVE  /\ Holds(u, k)' <=> Holds(u, k)
             /\ Holds(u, k) => tasks'[u].age = tasks[u].age
  <2>1. CASE u = t
    BY <2>1 DEF Holds
  <2>2. CASE u # t
    BY <2>2 DEF Holds, In
  <2>3. QED
    BY <2>1, <2>2
<1>2. WaitingIsYoung'
  <2>1. ASSUME NEW u \in Tasks, tasks'[u] # Absent, ~In(u, Executing)'
        PROVE  tasks'[u].age = 0
    <3>1. CASE u = t
      BY <2>1, <3>1
    <3>2. CASE u # t
      BY <2>1, <3>2 DEF WaitingIsYoung, In
    <3>3. QED
      BY <3>1, <3>2
  <2>2. QED
    BY <2>1 DEF WaitingIsYoung
<1>3. QED
    BY <1>1, <1>2 DEF Quiet

\* Nothing happens to the dedup map.
LEMMA SameClaims ==
    ASSUME TypeOK, UNCHANGED dedup
    PROVE  ClaimsKept
BY Numbers DEF ClaimsKept, CoolingOf

\* Between its claim and its return a task is quiet, and before its claim.
LEMMA RunQuiet ==
    ASSUME TypeOK, WaitingIsYoung, NEW t \in Tasks, Run(t), ~Claim(t), ~Finish(t)
    PROVE  Quiet /\ ClaimsKept
<1>0. UNCHANGED dedup /\ UNCHANGED outlasted
    BY DEF Run, Acquire, QueueTimeout, AwaitPrefetch, SeesCurve, CurveTimeout,
           ExtraTimeout, SyncFetch, BuildAndSend
<1>1. tasks[t] # Absent => tasks[t] \in BuyTask
    BY DEF TypeOK
<1>2. ASSUME NEW b \in BuyTask, Become(t, b), In(t, Executing),
             b.pc \in Executing, b.key = tasks[t].key, b.age = tasks[t].age
      PROVE  Quiet
    BY <1>0, <1>2, BecomeType, MovesOn, AbsentAssumption DEF In
<1>3. ASSUME NEW pc \in Executing, Goto(t, pc), In(t, Executing)
      PROVE  Quiet
  <2>1. tasks[t] \in BuyTask
    BY <1>1, <1>3 DEF In
  <2>2. /\ [tasks[t] EXCEPT !.pc = pc] \in BuyTask
        /\ [tasks[t] EXCEPT !.pc = pc].pc = pc
        /\ [tasks[t] EXCEPT !.pc = pc].key = tasks[t].key
        /\ [tasks[t] EXCEPT !.pc = pc].age = tasks[t].age
    BY <1>3, <2>1 DEF BuyTask
  <2>3. Become(t, [tasks[t] EXCEPT !.pc = pc])
    BY <1>3, <2>1 DEF Goto, Become, TypeOK
  <2>4. QED
    BY <1>2, <1>3, <2>2, <2>3
<1>5. CASE Acquire(t)
  <2>1. ~In(t, Executing) /\ tasks[t] # Absent
    BY <1>5, Counters DEF Acquire, In
  <2>2. /\ tasks'[t] = [tasks[t] EXCEPT !.pc = "claim"]
        /\ \A u \in Tasks \ {t} : tasks'[u] = tasks[u]
    BY <1>5, <2>1, GotoType DEF Acquire
  <2>3. tasks'[t].pc = "claim" /\ tasks'[t].age = 0
    BY <1>1, <2>1, <2>2 DEF BuyTask, WaitingIsYoung
  <2>4. ~In(t, Executing)'
    BY <2>3, Counters DEF In
  <2>5. QED
    BY <1>0, <2>1, <2>2, <2>3, <2>4, MovesOn, SameClaims
<1>6. CASE QueueTimeout(t)
  <2>1. ~In(t, Executing)
    BY <1>6, Counters DEF QueueTimeout, In
  <2>2. tasks'[t] = Absent /\ \A u \in Tasks \ {t} : tasks'[u] = tasks[u]
    BY <1>6, BecomeType DEF QueueTimeout
  <2>3. QED
    BY <1>0, <2>1, <2>2, MovesOn, SameClaims DEF In
<1>7. CASE AwaitPrefetch(t)
  <2> DEFINE b == [tasks[t] EXCEPT !.prefetched = known]
  <2>1. In(t, Executing)
    BY <1>7, Counters DEF AwaitPrefetch, In
  <2>2. /\ b \in BuyTask /\ b.key = tasks[t].key /\ b.age = tasks[t].age
        /\ [b EXCEPT !.pc = "curve"] \in BuyTask
        /\ [b EXCEPT !.pc = "curve"].key = tasks[t].key
        /\ [b EXCEPT !.pc = "curve"].age = tasks[t].age
        /\ [b EXCEPT !.pc = "curve"].pc = "curve"
    BY <1>1, <2>1, Counters DEF In, BuyTask, TypeOK
  <2>3. Become(t, IF curve THEN Ready(b) ELSE [b EXCEPT !.pc = "curve"])
    BY <1>7 DEF AwaitPrefetch
  <2> HIDE DEF b
  <2>4. QED
    BY <1>2, <1>0, <2>1, <2>2, <2>3, ReadyType, Counters, SameClaims
<1>8. CASE SeesCurve(t)
  <2>1. In(t, Executing) /\ tasks[t] \in BuyTask
    BY <1>1, <1>8, Counters DEF SeesCurve, In
  <2>2. Become(t, Ready(tasks[t]))
    BY <1>8 DEF SeesCurve
  <2>3. QED
    BY <1>2, <1>0, <2>1, <2>2, ReadyType, Counters, SameClaims
<1>9. CASE CurveTimeout(t)
  <2>1. In(t, Executing)
    BY <1>9, Counters DEF CurveTimeout, CurveIsLate, In
  <2>2. Goto(t, "extra") \/ Goto(t, "sync")
    BY <1>9 DEF CurveTimeout
  <2>3. QED
    BY <1>3, <1>0, <2>1, <2>2, Counters, SameClaims
<1>10. CASE ExtraTimeout(t)
    BY <1>3, <1>0, <1>10, Counters, SameClaims DEF ExtraTimeout, In
<1>11. CASE SyncFetch(t)
  <2>1. In(t, Executing) /\ tasks[t] \in BuyTask
    BY <1>1, <1>11, Counters DEF SyncFetch, In
  <2>2. tasks[t].patient \in BOOLEAN
    BY <2>1 DEF BuyTask
  <2>3. PICK good \in BOOLEAN : Become(t, Unready(tasks[t], good)) \/ Become(t, Ready(tasks[t]))
    BY <1>11, <2>2 DEF SyncFetch
  <2>4. QED
    BY <1>2, <1>0, <2>1, <2>3, ReadyType, Counters, SameClaims
<1>12. CASE BuildAndSend(t)
  <2>1. In(t, Executing) /\ tasks[t] \in BuyTask
    BY <1>1, <1>12, Counters DEF BuildAndSend, In
  <2>2. PICK submitted \in {FALSE, tasks[t].good} :
            Become(t, [tasks[t] EXCEPT !.pc = "finish", !.good = submitted])
    BY <1>12 DEF BuildAndSend
  <2> DEFINE b == [tasks[t] EXCEPT !.pc = "finish", !.good = submitted]
  <2>3. b \in BuyTask /\ b.pc = "finish" /\ b.key = tasks[t].key /\ b.age = tasks[t].age
    BY <2>1, <2>2, Counters DEF BuyTask
  <2>4. Become(t, b)
    BY <2>2
  <2> HIDE DEF b
  <2>5. QED
    BY <1>2, <1>0, <2>1, <2>3, <2>4, Counters, SameClaims
<1>13. QED
    BY <1>5, <1>6, <1>7, <1>8, <1>9, <1>10, <1>11, <1>12 DEF Run

-----------------------------------------------------------------------------
(* The steps of the lock.                                                  *)

\* The holders and their update.
LEMMA HolderFunction ==
    ASSUME NEW k \in Keys, NEW h,
           \A j \in Keys \ {k} : Holders(j)' = Holders(j),
           Holders(k)' = h
    PROVE  [j \in Keys |-> Holders(j)]'
             = [[j \in Keys |-> Holders(j)] EXCEPT ![k] = h]
OBVIOUS

\* A claim that is granted is a Take of the lock.
LEMMA ClaimTakes ==
    ASSUME TypeOK, TypeOK', Safe, NEW t \in Tasks, Claim(t),
           NEW k \in Keys, tasks[t].key = k, CanStart(k)
    PROVE  Safe' /\ Lock!Take(k, t)
<1>1. /\ tasks[t] \in BuyTask /\ ~In(t, Executing)
      /\ tasks[t].age = 0 /\ Stale \in Nat \ {0}
    BY Counters, BuyGateAssumption DEF Claim, In, TypeOK, Safe, WaitingIsYoung
<1>2. /\ dedup' = [dedup EXCEPT ![k] = Vacant] /\ Goto(t, "prefetch")
      /\ UNCHANGED outlasted
    BY DEF Claim
<1>3. /\ tasks'[t] = [tasks[t] EXCEPT !.pc = "prefetch"]
      /\ \A u \in Tasks \ {t} : tasks'[u] = tasks[u]
    BY <1>1, <1>2, Counters, GotoType DEF Claim, In
<1>4. /\ tasks'[t] \in BuyTask /\ tasks'[t] # Absent
      /\ tasks'[t].pc = "prefetch" /\ tasks'[t].key = k
      /\ tasks'[t].age = 0
    BY <1>1, <1>3, Counters, AbsentAssumption DEF BuyTask
<1>5. k \notin outlasted => \A u \in Tasks : ~Holds(u, k)
    BY DEF Safe, Claimed, CanStart, Blocks
<1>6. \A u \in Tasks, j \in Keys :
        Holds(u, j)' <=> Holds(u, j) \/ (u = t /\ j = k)
    BY <1>1, <1>3, <1>4, Counters DEF Holds, In
<1>7. /\ dedup' \in [Keys -> GroupMintClaim \cup {Absent}]
      /\ dedup'[k] = Vacant /\ \A j \in Keys \ {k} : dedup'[j] = dedup[j]
    BY <1>1, <1>2 DEF TypeOK
<1>8. Vacant # Absent /\ Vacant.in_flight /\ Vacant.touched = 0 /\ Vacant.cooldown = 0
    BY ClaimTypes, AbsentAssumption DEF Vacant
<1>9. OneBuyPerKey'
    BY <1>2, <1>5, <1>6 DEF OneBuyPerKey, Safe
<1>10. Claimed'
  <2>1. SUFFICES ASSUME NEW u \in Tasks, NEW j \in Keys \ outlasted, Holds(u, j)'
                 PROVE  /\ dedup'[j] # Absent /\ dedup'[j].in_flight
                        /\ dedup'[j].touched <= tasks'[u].age
                        /\ tasks'[u].age < Stale
    BY <1>2 DEF Claimed
  <2>2. CASE j = k
    <3>1. u = t
      BY <1>5, <1>6, <2>1, <2>2
    <3>2. QED
      BY <1>1, <1>4, <1>7, <1>8, <2>2, <3>1
  <2>3. CASE j # k
    <3>1. Holds(u, j) /\ u # t
      BY <1>1, <1>6, <2>1, <2>3 DEF Holds
    <3>2. QED
      BY <1>3, <1>7, <2>3, <3>1 DEF Safe, Claimed
  <2>4. QED
    BY <2>2, <2>3
<1>11. FlightIsWarm'
    BY <1>7, <1>8 DEF FlightIsWarm, Safe
<1>12. WaitingIsYoung'
    BY <1>3, <1>4 DEF WaitingIsYoung, Safe, In
<1>13. \A j \in Keys : t \notin Holders(j)
    BY <1>1 DEF Holders, Holds
<1>14. /\ k \notin outlasted => Holders(k) = {}
       /\ Holders(k)' = Holders(k) \cup {t}
    BY <1>5, <1>6 DEF Holders
<1>15. \A j \in Keys \ {k} : Holders(j)' = Holders(j)
    BY <1>6 DEF Holders
<1>16. CoolingOf(k) = 0 /\ CoolingOf(k)' = 0
  <2>1. CoolingOf(k) = 0
    <3>1. dedup[k] # Absent => dedup[k].cooldown = 0
      BY <1>1, Numbers DEF CanStart, Blocks, Cooling
    <3>2. QED
      BY <3>1 DEF CoolingOf
  <2>2. QED
    BY <1>7, <1>8, <2>1 DEF CoolingOf
<1>17. [j \in Keys |-> CoolingOf(j)]' = [j \in Keys |-> CoolingOf(j)]
    BY <1>7, <1>16 DEF CoolingOf
<1>18. Lock!Take(k, t)
    BY <1>2, <1>13, <1>14, <1>15, <1>16, <1>17, HolderFunction DEF Lock!Take
<1>19. QED
    BY <1>9, <1>10, <1>11, <1>12, <1>18 DEF Safe

\* A claim that is refused is none of the lock's steps.
LEMMA ClaimRefused ==
    ASSUME TypeOK, WaitingIsYoung, NEW t \in Tasks, Claim(t), ~CanStart(tasks[t].key)
    PROVE  Quiet /\ ClaimsKept
<1> DEFINE k == tasks[t].key
<1>1. k \in Keys /\ ~In(t, Executing)
    BY Counters DEF Claim, In, TypeOK, BuyTask
<1>2. /\ tasks'[t] = Absent
      /\ \A u \in Tasks \ {t} : tasks'[u] = tasks[u]
    BY BecomeType DEF Claim
<1>3. Quiet
    BY <1>1, <1>2, MovesOn DEF Claim, In
<1>4. dedup' = [dedup EXCEPT ![k] = Refused(@)] /\ dedup[k] \in GroupMintClaim
    BY <1>1 DEF Claim, CanStart, TypeOK
<1>5. /\ Refused(dedup[k]) \in GroupMintClaim
      /\ Refused(dedup[k]).in_flight = dedup[k].in_flight
      /\ Refused(dedup[k]).cooldown = dedup[k].cooldown
      /\ Refused(dedup[k]).touched = 0
    BY <1>4, ClaimTypes DEF Refused, GroupMintClaim
<1> HIDE DEF k
<1>6. ASSUME NEW j \in Keys
      PROVE  /\ CoolingOf(j)' = CoolingOf(j)
             /\ dedup[j] # Absent /\ dedup[j].in_flight =>
                  /\ dedup'[j] # Absent /\ dedup'[j].in_flight
                  /\ dedup'[j].touched <= dedup[j].touched
             /\ dedup'[j] # Absent /\ dedup'[j].in_flight =>
                  dedup[j] # Absent /\ dedup[j].in_flight
  <2>1. CASE j = k
    BY <1>4, <1>5, <2>1, AbsentAssumption, Numbers DEF CoolingOf, TypeOK
  <2>2. CASE j # k
    BY <1>4, <2>2, Numbers DEF CoolingOf, TypeOK
  <2>3. QED
    BY <2>1, <2>2
<1>7. QED
    BY <1>3, <1>6 DEF ClaimsKept

\* The return of execute_buy is a Release of the lock.
LEMMA FinishReleases ==
    ASSUME TypeOK, TypeOK', Safe, NEW t \in Tasks, Finish(t),
           NEW k \in Keys, tasks[t].key = k,
           NEW submitted \in BOOLEAN, tasks[t].good = submitted
    PROVE  Safe' /\ Lock!Release(k, t, submitted)
<1>1. Holds(t, k)
    BY Counters DEF Finish, In, Holds
<1>2. k \notin outlasted => dedup[k] # Absent
    BY <1>1 DEF Safe, Claimed
<1>3. /\ tasks'[t] = Absent
      /\ \A u \in Tasks \ {t} : tasks'[u] = tasks[u]
    BY BecomeType DEF Finish
<1>4. \A u \in Tasks, j \in Keys : Holds(u, j)' <=> Holds(u, j) /\ u # t
    BY <1>3 DEF Holds, In
<1>5. \A j \in Keys \ {k} : ~Holds(t, j)
    BY <1>1 DEF Holds
<1>6. outlasted' = IF Holders(k) = {t} THEN outlasted \ {k} ELSE outlasted
  <2>1. outlasted' = {j \in outlasted : Holders(j) # {t}} /\ outlasted \subseteq Keys
    BY DEF Finish, TypeOK
  <2>2. \A j \in Keys \ {k} : Holders(j) # {t}
    BY <1>5 DEF Holders
  <2>3. QED
    BY <2>1, <2>2
<1>7. \A j \in Keys \ outlasted' : j \in outlasted \/ j = k => \A u \in Tasks : ~Holds(u, j)'
  <2>1. SUFFICES ASSUME k \notin outlasted', NEW u \in Tasks, Holds(u, k), u # t
                 PROVE  FALSE
    BY <1>4, <1>6
  <2>2. k \notin outlasted
    BY <1>6, <2>1 DEF Holders
  <2>3. QED
    BY <1>1, <2>1, <2>2 DEF Safe, OneBuyPerKey
<1>8. /\ \A j \in Keys \ {k} : dedup'[j] = dedup[j]
      /\ dedup'[k] = IF ~submitted \/ dedup[k] = Absent THEN Absent
                     ELSE [in_flight |-> FALSE, cooldown |-> Cooldown, touched |-> 0]
    BY DEF Finish, finish_group_mint, TypeOK
<1>9. [in_flight |-> FALSE, cooldown |-> Cooldown, touched |-> 0] # Absent
    BY ClaimTypes, AbsentAssumption
<1>10. OneBuyPerKey'
    BY <1>4, <1>7 DEF OneBuyPerKey, Safe
<1>11. Claimed'
  <2>1. SUFFICES ASSUME NEW u \in Tasks, NEW j \in Keys \ outlasted', Holds(u, j)'
                 PROVE  /\ dedup'[j] # Absent /\ dedup'[j].in_flight
                        /\ dedup'[j].touched <= tasks'[u].age
                        /\ tasks'[u].age < Stale
    BY DEF Claimed
  <2>2. Holds(u, j) /\ u # t /\ j # k /\ j \notin outlasted
    BY <1>4, <1>7, <2>1
  <2>3. QED
    BY <1>3, <1>8, <2>2 DEF Safe, Claimed
<1>12. FlightIsWarm'
    BY <1>8, <1>9 DEF FlightIsWarm, Safe
<1>13. WaitingIsYoung'
    BY <1>3 DEF WaitingIsYoung, Safe, In
<1>14. Holders(k)' = Holders(k) \ {t} /\ t \in Holders(k)
    BY <1>1, <1>4 DEF Holders
<1>15. \A j \in Keys \ {k} : Holders(j)' = Holders(j)
    BY <1>4, <1>5 DEF Holders
<1> DEFINE wait == IF dedup[k] = Absent \/ ~submitted THEN 0 ELSE Cooldown
<1>16. /\ CoolingOf(k)' = wait
       /\ \A j \in Keys \ {k} : CoolingOf(j)' = CoolingOf(j)
    BY <1>8, <1>9 DEF CoolingOf
<1>17. wait \in {IF submitted THEN Cooldown ELSE 0}
                  \cup (IF k \in outlasted THEN {0} ELSE {})
    BY <1>2
<1> HIDE DEF wait
<1>18. [j \in Keys |-> CoolingOf(j)]'
         = [[j \in Keys |-> CoolingOf(j)] EXCEPT ![k] = wait]
    BY <1>16
<1>19. Lock!Release(k, t, submitted)
    BY <1>6, <1>14, <1>15, <1>17, <1>18, HolderFunction DEF Lock!Release
<1>20. QED
    BY <1>10, <1>11, <1>12, <1>13, <1>19 DEF Safe

\* A sweep takes no claim that a task still needs.
LEMMA SweepKeeps ==
    ASSUME TypeOK, Safe, Sweep
    PROVE  Quiet /\ ClaimsKept
<1>1. Quiet
    BY DEF Sweep, Quiet, Holds, In, Safe, WaitingIsYoung
<1>2. ASSUME NEW k \in Keys
      PROVE  /\ CoolingOf(k)' = CoolingOf(k)
             /\ dedup[k] # Absent /\ dedup[k].in_flight /\ dedup[k].touched < Stale =>
                  /\ dedup'[k] # Absent /\ dedup'[k].in_flight
                  /\ dedup'[k].touched <= dedup[k].touched
             /\ dedup'[k] # Absent /\ dedup'[k].in_flight =>
                  dedup[k] # Absent /\ dedup[k].in_flight
  <2>1. dedup'[k] = Swept(dedup[k])
    BY DEF Sweep
  <2>2. CASE dedup[k] = Absent
    BY <2>1, <2>2 DEF Swept, CoolingOf
  <2>3. CASE dedup[k] # Absent /\ dedup[k].in_flight
    BY <2>1, <2>3, Numbers DEF Swept, CoolingOf, keep_group_mint_claim, Safe, FlightIsWarm
  <2>4. CASE dedup[k] # Absent /\ ~dedup[k].in_flight
    BY <2>1, <2>4, Numbers DEF Swept, CoolingOf, keep_group_mint_claim, Cooling
  <2>5. QED
    BY <2>2, <2>3, <2>4
<1>3. QED
    BY <1>1, <1>2 DEF ClaimsKept

\* The clock makes the cooldowns elapse, and the executions no younger than
\* their claims.
LEMMA TickElapses ==
    ASSUME TypeOK, TypeOK', Safe, Tick
    PROVE  Safe' /\ \E late \in SUBSET Keys : Lock!Elapse(late)
<1> DEFINE late == {k \in Keys : \E t \in Holders(k) : tasks[t].age + 1 >= Stale}
<1>0. outlasted' = outlasted \cup late
    BY DEF Tick
<1>1. ASSUME NEW t \in Tasks
      PROVE  /\ \A k \in Keys : Holds(t, k)' <=> Holds(t, k)
             /\ In(t, Executing)' <=> In(t, Executing)
             /\ In(t, Executing) => tasks'[t].age = tasks[t].age + 1
  <2>1. CASE In(t, Executing)
    <3>1. tasks[t] \in BuyTask /\ tasks[t] # Absent
      BY <2>1 DEF In, TypeOK
    <3>2. tasks'[t] = [tasks[t] EXCEPT !.age = @ + 1]
      BY <2>1 DEF Tick
    <3>3. /\ tasks'[t].pc = tasks[t].pc /\ tasks'[t].key = tasks[t].key
          /\ tasks'[t].age = tasks[t].age + 1
      BY <3>1, <3>2 DEF BuyTask
    <3>4. tasks'[t] # Absent
      BY <3>1, <3>3, AbsentAssumption, TickTypes, <3>2, BuyGateAssumption DEF BuyTask, Tick
    <3>5. QED
      BY <3>1, <3>3, <3>4 DEF Holds, In
  <2>2. CASE ~In(t, Executing)
    BY <2>2 DEF Tick, Holds, In
  <2>3. QED
    BY <2>1, <2>2
<1>2. ASSUME NEW k \in Keys
      PROVE  /\ dedup[k] # Absent =>
                  /\ dedup'[k] # Absent
                  /\ dedup'[k].in_flight = dedup[k].in_flight
                  /\ dedup'[k].touched <= dedup[k].touched + 1
                  /\ dedup'[k].cooldown =
                       IF dedup[k].cooldown > 0 THEN dedup[k].cooldown - 1 ELSE 0
             /\ dedup[k] = Absent => dedup'[k] = Absent
  <2>1. dedup'[k] = Later(dedup[k])
    BY DEF Tick
  <2>2. CASE dedup[k] = Absent
    BY <2>1, <2>2 DEF Later
  <2>3. CASE dedup[k] # Absent
    <3>1. dedup[k] \in GroupMintClaim /\ Stale \in Nat
      BY <2>3, BuyGateAssumption DEF TypeOK
    <3>2. /\ dedup'[k].in_flight = dedup[k].in_flight
          /\ dedup'[k].touched = IF dedup[k].touched < Stale
                                   THEN dedup[k].touched + 1 ELSE Stale
          /\ dedup'[k].cooldown =
                       IF dedup[k].cooldown > 0 THEN dedup[k].cooldown - 1 ELSE 0
      BY <2>1, <2>3, <3>1 DEF Later, GroupMintClaim
    <3>3. dedup[k].touched \in 0 .. Stale
      BY <3>1 DEF GroupMintClaim
    <3>4. dedup'[k].touched <= dedup[k].touched + 1
      BY <3>1, <3>2, <3>3
    <3>5. dedup'[k] # Absent
      <4>1. dedup'[k] = [dedup[k] EXCEPT !.touched = IF @ < Stale THEN @ + 1 ELSE Stale,
                                         !.cooldown = IF @ > 0 THEN @ - 1 ELSE 0]
        BY <2>1, <2>3 DEF Later
      <4>2. /\ (IF dedup[k].touched < Stale THEN dedup[k].touched + 1 ELSE Stale)
                  \in 0 .. Stale
            /\ (IF dedup[k].cooldown > 0 THEN dedup[k].cooldown - 1 ELSE 0)
                  \in 0 .. Cooldown
        BY <3>1, BuyGateAssumption DEF GroupMintClaim
      <4>3. dedup'[k] \in GroupMintClaim
        BY <3>1, <4>1, <4>2 DEF GroupMintClaim
      <4>4. QED
        BY <4>3, AbsentAssumption
    <3>6. QED
      BY <2>3, <3>2, <3>4, <3>5
  <2>4. QED
    BY <2>2, <2>3
<1>3. OneBuyPerKey'
    BY <1>0, <1>1 DEF OneBuyPerKey, Safe
<1>4. Claimed'
  <2>1. SUFFICES ASSUME NEW t \in Tasks, NEW k \in Keys \ outlasted', Holds(t, k)'
                 PROVE  /\ dedup'[k] # Absent /\ dedup'[k].in_flight
                        /\ dedup'[k].touched <= tasks'[t].age
                        /\ tasks'[t].age < Stale
    BY DEF Claimed
  <2>2. Holds(t, k) /\ tasks'[t].age = tasks[t].age + 1 /\ k \notin outlasted
    BY <1>0, <1>1, <2>1 DEF Holds
  <2>3. ~(tasks[t].age + 1 >= Stale)
    BY <1>0, <2>1, <2>2 DEF Holders
  <2>4. /\ dedup[k] # Absent /\ dedup[k].in_flight
        /\ dedup[k].touched <= tasks[t].age
        /\ tasks[t].age \in Nat /\ dedup[k].touched \in Nat
    BY <2>2, Numbers DEF Safe, Claimed
  <2>5. dedup'[k].touched \in Nat
    BY <1>2, <2>4, BuyGateAssumption DEF TypeOK, GroupMintClaim
  <2>6. QED
    BY <1>2, <2>2, <2>3, <2>4, <2>5, BuyGateAssumption
<1>5. FlightIsWarm'
    BY <1>2, Numbers DEF FlightIsWarm, Safe
<1>6. WaitingIsYoung'
  <2>1. ASSUME NEW t \in Tasks, tasks'[t] # Absent, ~In(t, Executing)'
        PROVE  tasks'[t].age = 0
    <3>1. ~In(t, Executing)
      BY <1>1, <2>1
    <3>2. tasks'[t] = tasks[t]
      BY <3>1 DEF Tick
    <3>3. QED
      BY <2>1, <3>1, <3>2 DEF Safe, WaitingIsYoung
  <2>2. QED
    BY <2>1 DEF WaitingIsYoung
<1>7. \A k \in Keys : Holders(k)' = Holders(k)
    BY <1>1 DEF Holders
<1>8. [k \in Keys |-> Holders(k)]' = [k \in Keys |-> Holders(k)]
    BY <1>7
<1>9. \A k \in Keys : CoolingOf(k)' = IF CoolingOf(k) > 0 THEN CoolingOf(k) - 1 ELSE 0
    BY <1>2 DEF CoolingOf
<1>10. late \in SUBSET Keys /\ \A k \in late : Holders(k) # {}
    OBVIOUS
<1> HIDE DEF late
<1>11. Lock!Elapse(late)
    BY <1>0, <1>8, <1>9, <1>10 DEF Lock!Elapse
<1>12. QED
    BY <1>3, <1>4, <1>5, <1>6, <1>10, <1>11 DEF Safe

-----------------------------------------------------------------------------
(* The refinement.                                                         *)

\* A task that is spawned holds nothing yet.
LEMMA SpawnQuiet ==
    ASSUME TypeOK, WaitingIsYoung, NEW t \in Tasks, Spawn(t)
    PROVE  Quiet /\ ClaimsKept
<1>1. PICK k \in Keys, pool \in Pools, decodable \in BOOLEAN, patient \in BOOLEAN :
          Become(t, [key |-> k, pool |-> pool, pc |-> "queued",
                     decodable |-> decodable, patient |-> patient,
                     prefetched |-> FALSE, good |-> FALSE, age |-> 0])
    BY DEF Spawn
<1>2. /\ tasks'[t].pc = "queued" /\ tasks'[t].age = 0
      /\ \A u \in Tasks \ {t} : tasks'[u] = tasks[u]
    BY <1>1 DEF Become, TypeOK
<1>3. ~In(t, Executing) /\ ~In(t, Executing)'
    BY <1>2, Counters DEF Spawn, In
<1>4. QED
    BY <1>2, <1>3, MovesOn, SameClaims DEF Spawn

\* The caches are nobody's claim.
LEMMA CachesQuiet ==
    ASSUME TypeOK, WaitingIsYoung, UNCHANGED <<tasks, dedup, outlasted>>
    PROVE  Quiet /\ ClaimsKept
BY SameClaims DEF Quiet, Holds, In, WaitingIsYoung

\* Nobody holds anything at first.
LEMMA InitSafe == Init => Safe /\ Lock!Init
<1> SUFFICES ASSUME Init PROVE Safe /\ Lock!Init
    OBVIOUS
<1>1. \A t \in Tasks, k \in Keys : ~Holds(t, k)
    BY DEF Init, Holds, In
<1>2. Safe
    BY <1>1 DEF Init, Safe, OneBuyPerKey, Claimed, FlightIsWarm, WaitingIsYoung
<1>3. \A k \in Keys : Holders(k) = {}
    BY <1>1 DEF Holders
<1>4. \A k \in Keys : CoolingOf(k) = 0
    BY DEF Init, CoolingOf
<1>5. QED
    BY <1>2, <1>3, <1>4 DEF Init, Lock!Init

\* Every step keeps the invariant and is a step of the lock or a stutter.
LEMMA StepLock ==
    ASSUME TypeOK, TypeOK', Safe, [Next]_vars
    PROVE  Safe' /\ [Lock!Next]_(Lock!vars)
<1>0. WaitingIsYoung
    BY DEF Safe
<1>1. ASSUME Quiet, ClaimsKept
      PROVE  Safe' /\ [Lock!Next]_(Lock!vars)
    BY <1>1, QuietStep
<1>2. CASE \E t \in Tasks : Spawn(t)
    BY <1>1, <1>2, <1>0, SpawnQuiet
<1>3. ASSUME NEW t \in Tasks, Run(t)
      PROVE  Safe' /\ [Lock!Next]_(Lock!vars)
  <2>1. CASE Claim(t)
    <3>1. PICK k \in Keys : tasks[t].key = k
      BY <2>1 DEF Claim, In, TypeOK, BuyTask
    <3>2. CASE CanStart(k)
      BY <2>1, <3>1, <3>2, ClaimTakes DEF Lock!Next
    <3>3. CASE ~CanStart(k)
      BY <1>1, <2>1, <3>1, <3>3, <1>0, ClaimRefused
    <3>4. QED
      BY <3>2, <3>3
  <2>2. CASE Finish(t)
    <3>1. PICK k \in Keys, submitted \in BOOLEAN :
              tasks[t].key = k /\ tasks[t].good = submitted
      BY <2>2 DEF Finish, In, TypeOK, BuyTask
    <3>2. QED
      BY <2>2, <3>1, FinishReleases DEF Lock!Next
  <2>3. CASE ~Claim(t) /\ ~Finish(t)
    BY <1>1, <1>3, <2>3, <1>0, RunQuiet
  <2>4. QED
    BY <2>1, <2>2, <2>3
<1>4. CASE FetchReturns \/ CurveUpdate \/ Forget \/ UNCHANGED vars
    BY <1>1, <1>4, <1>0, CachesQuiet DEF FetchReturns, CurveUpdate, Forget, vars
<1>5. CASE Sweep
    BY <1>1, <1>5, SweepKeeps
<1>6. CASE Tick
    BY <1>6, TickElapses DEF Lock!Next
<1>7. QED
    BY <1>2, <1>3, <1>4, <1>5, <1>6 DEF Next

\* However long a buy lasts: two tasks execute a buy of one group and mint at
\* a time only after one of a row of overlapping buys has outlasted its claim.
THEOREM BuyGateOneBuy == Spec => []OneBuyPerKey
<1>1. Init => TypeOK /\ Safe
    BY InitTypes, InitSafe
<1>2. TypeOK /\ Safe /\ [Next]_vars => (TypeOK /\ Safe)'
    BY StepTypes, StepLock
<1>3. TypeOK /\ Safe => OneBuyPerKey
    BY DEF Safe
<1>4. QED
    BY <1>1, <1>2, <1>3, PTL DEF Spec

\* And the dedup map, its sweeper and its clocks implement the lock with a
\* cooldown that only a holder who keeps its key too long breaks: each step of
\* the gate is one of the lock's or a stutter.
THEOREM BuyGateIsLock == Spec => DedupIsLock
<1>1. Init => TypeOK /\ Safe /\ Lock!Init
    BY InitTypes, InitSafe
<1>2. TypeOK /\ Safe /\ [Next]_vars =>
          (TypeOK /\ Safe)' /\ [Lock!Next]_(Lock!vars)
    BY StepTypes, StepLock
<1>3. QED
    BY <1>1, <1>2, PTL DEF Spec, DedupIsLock, Lock!Spec

=============================================================================
