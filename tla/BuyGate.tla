------------------------------ MODULE BuyGate ------------------------------
(***************************************************************************)
(* The way of a buy from the signal to the chain (main.rs): the task that  *)
(* spawn_buy_execution starts waits for a permit, claims its (group, mint) *)
(* key in the dedup map, gathers what it needs to quote and build the      *)
(* transaction (execute_buy), sends it, and gives the claim back.  Beside  *)
(* it run the background fetch of the bonding curve, the account stream,   *)
(* and the cleanups of the caches and of the dedup map.                    *)
(*                                                                         *)
(* All the keys modelled are of one mint: caches and fetches are per mint, *)
(* claims per group.  Different mints share the permits only.              *)
(*                                                                         *)
(* The clock ticks in the unit of Cooldown, Stale and MaxBuy.  The waits   *)
(* of milliseconds (permit, prefetch, curve) end at any moment.            *)
(***************************************************************************)
EXTENDS Integers, FiniteSets

CONSTANTS
    Keys,        \* group-mint keys: the groups that may buy the mint
    Tasks,       \* buy tasks that can run at once
    Pools,       \* the two semaphores: buys, and wrapper buys
    Permits,     \* pool -> BUY_EXECUTOR_PARALLELISM, WRAPPER_...
    Cooldown,    \* GROUP_MINT_DEDUP_SUCCESS_MS
    Stale,       \* GROUP_MINT_DEDUP_STALE_SECS
    MaxBuy,      \* how long execute_buy can last
    Absent       \* no task, no claim

ASSUME BuyGateAssumption ==
    /\ Cooldown \in Nat \ {0}
    /\ Stale \in Nat \ {0}
    /\ MaxBuy \in Nat
    /\ Permits \in [Pools -> Nat \ {0}]
    /\ Absent \notin Tasks

VARIABLES
    tasks,       \* task -> what it is doing, or Absent
    dedup,       \* GroupMintDedup: key -> GroupMintClaim or Absent
    known,       \* PrefetchCache has the accounts of the mint
    curve,       \* BondingCurveCache has the curve of the mint
    fetching,    \* BondingCurveFetches has the mint: a fetch is under way
    outlasted    \* history: keys one of whose buys has reached Stale, until
                 \* that buy and those that overlap with it have returned

vars == <<tasks, dedup, known, curve, fetching, outlasted>>

GroupMintClaim == [in_flight : BOOLEAN, cooldown : 0 .. Cooldown, touched : 0 .. Stale]

\* Executing is the part of a task between its claim and its return.
Executing == {"prefetch", "curve", "extra", "sync", "build", "finish"}

\* decodable: the signal has instruction data to derive a quote from.
\* patient: one wallet, and its instruction cannot be quoted without a curve.
\* prefetched: the task found the accounts of the mint.
\* good: at "build", whether a transaction can be built from what was found;
\* at "finish", whether one was submitted.
BuyTask == [key : Keys, pool : Pools, pc : Executing \cup {"queued", "claim"},
            decodable : BOOLEAN, patient : BOOLEAN, prefetched : BOOLEAN,
            good : BOOLEAN, age : 0 .. MaxBuy]

ASSUME AbsentAssumption ==
    /\ Absent \notin BuyTask
    /\ Absent \notin GroupMintClaim

-----------------------------------------------------------------------------
(* The dedup map.                                                          *)

Vacant == [in_flight |-> TRUE, cooldown |-> 0, touched |-> 0]

Cooling(claim) == claim.cooldown > 0

BlocksWhenCooling(claim) == Cooling(claim)

Blocks(claim) == claim.in_flight \/ Cooling(claim)

RefusedRestartsCooldown(claim) == [claim EXCEPT !.touched = 0, !.cooldown = Cooldown]

\* A refused request keeps the claim young all the same.
Refused(claim) == [claim EXCEPT !.touched = 0]

CanStartInFlight(k) == dedup[k] = Absent \/ ~BlocksWhenCooling(dedup[k])

CanStart(k) == dedup[k] = Absent \/ ~Blocks(dedup[k])

\* finish_group_mint: a submitted buy leaves a cooldown, if the claim is
\* still there; any other buy removes whatever claim is there.
finish_group_mint(k, submitted) ==
    dedup' = [dedup EXCEPT ![k] =
                IF ~submitted \/ @ = Absent
                  THEN Absent
                  ELSE [in_flight |-> FALSE, cooldown |-> Cooldown, touched |-> 0]]

keep_group_mint_claim(claim) ==
    IF claim.in_flight THEN claim.touched < Stale ELSE Cooling(claim)

-----------------------------------------------------------------------------
(* Waiting for a permit and for the claim: spawn_buy_execution.            *)

In(t, pcs) == tasks[t] # Absent /\ tasks[t].pc \in pcs

Become(t, b) == tasks' = [tasks EXCEPT ![t] = b]

Goto(t, pc) == tasks' = [tasks EXCEPT ![t].pc = pc]

Free(pool) ==
    Permits[pool] - Cardinality({t \in Tasks : In(t, Executing \cup {"claim"})
                                               /\ tasks[t].pool = pool})

Holds(t, k) == In(t, Executing) /\ tasks[t].key = k

Holders(k) == {t \in Tasks : Holds(t, k)}

Waiting(pool) == {t \in Tasks : In(t, {"queued"}) /\ tasks[t].pool = pool}

\* warm_buy_caches fills the prefetch cache and starts the fetch of a curve
\* that is not cached; then the task is spawned.
Spawn(t) ==
    /\ tasks[t] = Absent
    /\ \E k \in Keys, pool \in Pools, decodable, patient \in BOOLEAN :
        /\ patient => decodable
        /\ Become(t, [key |-> k, pool |-> pool, pc |-> "queued",
                      decodable |-> decodable, patient |-> patient,
                      prefetched |-> FALSE, good |-> FALSE, age |-> 0])
    /\ known' = TRUE
    /\ fetching' = (fetching \/ ~curve)
    /\ UNCHANGED <<dedup, curve, outlasted>>

Acquire(t) ==
    /\ In(t, {"queued"})
    /\ Free(tasks[t].pool) > 0
    /\ Goto(t, "claim")
    /\ UNCHANGED <<dedup, known, curve, fetching, outlasted>>

\* More tasks wait than there are permits: 25 ms later the signal is dropped.
QueueTimeout(t) ==
    /\ In(t, {"queued"})
    /\ Cardinality(Waiting(tasks[t].pool)) > Free(tasks[t].pool)
    /\ Become(t, Absent)
    /\ UNCHANGED <<dedup, known, curve, fetching, outlasted>>

\* try_start_group_mint.
Claim(t) ==
    /\ In(t, {"claim"})
    /\ LET k == tasks[t].key
       IN  IF CanStart(k)
             THEN /\ dedup' = [dedup EXCEPT ![k] = Vacant]
                  /\ Goto(t, "prefetch")
             ELSE /\ dedup' = [dedup EXCEPT ![k] = Refused(@)]
                  /\ Become(t, Absent)
    /\ UNCHANGED <<known, curve, fetching, outlasted>>

-----------------------------------------------------------------------------
(* execute_buy.                                                            *)

\* A transaction can be built from a cached curve and known accounts.
Ready(b) == [b EXCEPT !.pc = "build", !.good = b.prefetched,
                      !.decodable = FALSE, !.patient = FALSE, !.prefetched = FALSE]

\* It cannot, or can without the curve.
Unready(b, good) == [b EXCEPT !.pc = "build", !.good = good,
                              !.decodable = FALSE, !.patient = FALSE, !.prefetched = FALSE]

\* The accounts are looked up, with a wait of 8 ms, and the curve after them.
AwaitPrefetch(t) ==
    /\ In(t, {"prefetch"})
    /\ LET b == [tasks[t] EXCEPT !.prefetched = known]
       IN  Become(t, IF curve THEN Ready(b) ELSE [b EXCEPT !.pc = "curve"])
    /\ fetching' = (fetching \/ (known /\ ~curve))
    /\ UNCHANGED <<dedup, known, curve, outlasted>>

\* The curve arrives during one of the two waits for it.
SeesCurve(t) ==
    /\ In(t, {"curve", "extra"})
    /\ curve
    /\ Become(t, Ready(tasks[t]))
    /\ UNCHANGED <<dedup, known, curve, fetching, outlasted>>

CurveTimeoutOnceFetched(t) == In(t, {"curve"}) /\ ~fetching

\* The wait of 40 ms is over.
CurveIsLate(t) == In(t, {"curve"})

\* A patient task goes on waiting if a fetch is under way.
CurveTimeout(t) ==
    /\ CurveIsLate(t)
    /\ Goto(t, IF tasks[t].patient /\ fetching THEN "extra" ELSE "sync")
    /\ UNCHANGED <<dedup, known, curve, fetching, outlasted>>

\* Three timeouts later, whether or not the fetch notified anyone.
ExtraTimeout(t) ==
    /\ In(t, {"extra"})
    /\ ~curve
    /\ Goto(t, "sync")
    /\ UNCHANGED <<dedup, known, curve, fetching, outlasted>>

\* Without the curve: a mirror transaction whose accounts are validated
\* needs none if the instruction gives a quote; otherwise the curve is
\* fetched here, by an RPC with retries.  A signal without instruction data,
\* or without known accounts, is given up.
SyncFetch(t) ==
    /\ In(t, {"sync"})
    /\ \/ /\ \/ ~(tasks[t].decodable /\ tasks[t].prefetched)
                /\ Become(t, Unready(tasks[t], FALSE))
             \/ /\ tasks[t].decodable /\ tasks[t].prefetched
                /\ \E good \in {FALSE, ~tasks[t].patient} :
                        Become(t, Unready(tasks[t], good))
          /\ UNCHANGED curve
       \/ /\ tasks[t].decodable /\ tasks[t].prefetched
          /\ Become(t, Ready(tasks[t]))
          /\ curve' = TRUE
    /\ UNCHANGED <<dedup, known, fetching, outlasted>>

\* The quote, the build and the send may each fail.  A submitted buy opens
\* the position (Buy in AutoSell).
BuildAndSend(t) ==
    /\ In(t, {"build"})
    /\ \E submitted \in {FALSE, tasks[t].good} :
        Become(t, [tasks[t] EXCEPT !.pc = "finish", !.good = submitted])
    /\ UNCHANGED <<dedup, known, curve, fetching, outlasted>>

\* execute_buy has returned: the claim and the permit are given back.
Finish(t) ==
    /\ In(t, {"finish"})
    /\ finish_group_mint(tasks[t].key, tasks[t].good)
    /\ Become(t, Absent)
    /\ outlasted' = {k \in outlasted : Holders(k) # {t}}
    /\ UNCHANGED <<known, curve, fetching>>

-----------------------------------------------------------------------------
(* The tasks beside the buys.                                              *)

\* The background fetch of ensure_bonding_curve_fetch returns.
FetchReturns ==
    /\ fetching
    /\ fetching' = FALSE
    /\ \E found \in BOOLEAN : curve' = (curve \/ found)
    /\ UNCHANGED <<tasks, dedup, known, outlasted>>

\* The account stream delivers the curve.
CurveUpdate ==
    /\ curve' = TRUE
    /\ UNCHANGED <<tasks, dedup, known, fetching, outlasted>>

\* The cleanups: the mint is untracked, its prefetch is dropped or expires.
Forget ==
    /\ \/ curve' = FALSE /\ known' \in {known, FALSE}
       \/ known' = FALSE /\ UNCHANGED curve
    /\ UNCHANGED <<tasks, dedup, fetching, outlasted>>

SweptInFlight(claim) ==
    IF claim = Absent \/ ~Cooling(claim) THEN Absent ELSE claim

Swept(claim) ==
    IF claim = Absent \/ ~keep_group_mint_claim(claim) THEN Absent ELSE claim

\* The sweeper of the dedup map, once a second.
Sweep ==
    /\ dedup' = [k \in Keys |-> Swept(dedup[k])]
    /\ UNCHANGED <<tasks, known, curve, fetching, outlasted>>

LaterBelowZero(claim) ==
    IF claim = Absent
      THEN Absent
      ELSE [claim EXCEPT !.touched = IF @ < Stale THEN @ + 1 ELSE Stale,
                         !.cooldown = @ - 1]

Later(claim) ==
    IF claim = Absent
      THEN Absent
      ELSE [claim EXCEPT !.touched = IF @ < Stale THEN @ + 1 ELSE Stale,
                         !.cooldown = IF @ > 0 THEN @ - 1 ELSE 0]

\* Time passes.  No execution lasts longer than MaxBuy, which may be beyond
\* Stale: nothing in execute_buy looks at the age of its claim.
Tick ==
    /\ \A t \in Tasks : In(t, Executing) => tasks[t].age < MaxBuy
    /\ tasks' = [t \in Tasks |-> IF In(t, Executing)
                                   THEN [tasks[t] EXCEPT !.age = @ + 1]
                                   ELSE tasks[t]]
    /\ dedup' = [k \in Keys |-> Later(dedup[k])]
    /\ outlasted' = outlasted \cup
                     {k \in Keys : \E t \in Holders(k) : tasks[t].age + 1 >= Stale}
    /\ UNCHANGED <<known, curve, fetching>>

-----------------------------------------------------------------------------
Init ==
    /\ tasks = [t \in Tasks |-> Absent]
    /\ dedup = [k \in Keys |-> Absent]
    /\ known = FALSE
    /\ curve = FALSE
    /\ fetching = FALSE
    /\ outlasted = {}

Run(t) ==
    \/ Acquire(t) \/ QueueTimeout(t) \/ Claim(t)
    \/ AwaitPrefetch(t) \/ SeesCurve(t) \/ CurveTimeout(t) \/ ExtraTimeout(t)
    \/ SyncFetch(t) \/ BuildAndSend(t) \/ Finish(t)

Next ==
    \/ \E t \in Tasks : Spawn(t) \/ Run(t)
    \/ FetchReturns \/ CurveUpdate \/ Forget \/ Sweep \/ Tick

Spec == Init /\ [][Next]_vars

\* A spawned task is scheduled, its waits and RPCs time out, the sweeper is
\* a loop around a sleep, and time passes.  Nobody must trade.
FairSpec ==
    /\ Spec
    /\ \A t \in Tasks : WF_vars(Run(t))
    /\ WF_vars(Sweep) /\ WF_vars(Tick)

-----------------------------------------------------------------------------
(* Properties.                                                             *)

TypeOK ==
    /\ tasks \in [Tasks -> BuyTask \cup {Absent}]
    /\ dedup \in [Keys -> GroupMintClaim \cup {Absent}]
    /\ known \in BOOLEAN
    /\ curve \in BOOLEAN
    /\ fetching \in BOOLEAN
    /\ outlasted \subseteq Keys

CoolingOf(k) == IF dedup[k] = Absent THEN 0 ELSE dedup[k].cooldown

Lock == INSTANCE BuyLock WITH holders <- [k \in Keys |-> Holders(k)],
                              cooling <- [k \in Keys |-> CoolingOf(k)],
                              broken <- outlasted

\* The dedup map with its timestamps, its sweeper and its tasks that give up
\* anywhere is a lock with a cooldown, which only a buy of Stale or longer
\* breaks: the sweeper drops the claim under it, and when it returns it drops
\* the claim of its successor.  Only that key is concerned, no new buy starts
\* in a cooldown even then, and the lock is whole again as soon as the buys
\* that overlap have returned.
DedupIsLock == Lock!Spec

\* Two tasks execute a buy of one key at a time only when one of them, or one
\* that they overlap with in a row, has been executing for Stale.
OneBuyPerKey ==
    \A k \in Keys \ outlasted : \A t, u \in Tasks : Holds(t, k) /\ Holds(u, k) => t = u

\* No signal waits for ever: each task buys, gives up or is turned away,
\* whatever the fetches of the curve do.
BuysReturn == \A t \in Tasks : tasks[t] # Absent ~> tasks[t] = Absent

\* A key that is taken or cooling down can be bought again some time, even
\* though the requests turned away meanwhile refresh its claim.
KeyReleased == \A k \in Keys : ~CanStart(k) ~> CanStart(k)

=============================================================================
