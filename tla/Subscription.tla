---------------------------- MODULE Subscription ----------------------------
(***************************************************************************)
(* The account subscriber (grpc/account_subscriber.rs): which accounts the *)
(* program follows on chain, and the balances it caches of them.  Every    *)
(* mint has two accounts to follow, its bonding curve and the wallet's     *)
(* token account (ATA).  The cache of curves, which nothing here reads and *)
(* RPC fetches fill as well, is left out.                                  *)
(*                                                                         *)
(* The main loop and the trigger loop track mints, the sell executor and   *)
(* the prune task untrack them, and none of them excludes another: a step  *)
(* is one access of one of the concurrent maps.  The subscriber task keeps *)
(* the filter of the stream in step with the accounts, by comparing their  *)
(* numbers every 200 ms.                                                   *)
(***************************************************************************)
EXTENDS Integers, FiniteSets

CONSTANTS
    Mints,
    Trackers,     \* tasks that call warm_buy_caches
    Cleaners,     \* tasks that call cleanup_mint_if_unused
    Pruner,       \* the task that calls prune_stale_candidate_mints
    Absent        \* no mint

ASSUME SubscriptionAssumption ==
    /\ IsFiniteSet(Mints)
    /\ Absent \notin Mints
    /\ Trackers \cap Cleaners = {}
    /\ Pruner \notin Trackers \cup Cleaners

Kinds == {"curve", "ata"}      \* AccountType

Accounts == Mints \X Kinds     \* both addresses are derived from the mint

VARIABLES
    mapped,       \* keys of bonding_curve_to_mint and ata_to_mint
    touched,      \* keys of mint_last_touched
    subscribed,   \* subscribed_accounts
    balances,     \* keys of ata_cache
    callers,      \* what each task that tracks or untracks is doing
    doomed,       \* mints the prune task found stale and has not untracked yet
    permit,       \* subscription_notify holds a permit
    pc,           \* where subscribe stands
    filter,       \* the accounts last asked of the server
    count         \* last_subscribed_count

vars == <<mapped, touched, subscribed, balances, callers, doomed, permit, pc, filter, count>>

Untrackers == Cleaners \cup {Pruner}

TrackPoints == {"map", "touch", "subscribe", "notify"}

\* untrack_mint does "collect" to "unsubscribe" for the curve, then for the
\* ATA, and then the rest.
UntrackPoints == {"forget", "collect", "unmap", "unsubscribe",
                  "uncache", "untouch"}

Idle == [pc |-> "idle", mint |-> Absent, kind |-> "curve"]

Caller == [pc : TrackPoints \cup UntrackPoints, mint : Mints, kind : Kinds] \cup {Idle}

Points == {"check", "empty", "wait", "gather", "connect", "stream"}

-----------------------------------------------------------------------------
At(c, point) == callers[c].pc = point

Account(c) == <<callers[c].mint, callers[c].kind>>

Goto(c, point) == callers' = [callers EXCEPT ![c].pc = point]

Become(c, b) == callers' = [callers EXCEPT ![c] = b]

(* track_bonding_curve, then track_ata, as warm_buy_caches calls them.      *)

BeginTrack(c) ==
    /\ c \in Trackers
    /\ At(c, "idle")
    /\ \E m \in Mints : Become(c, [pc |-> "map", mint |-> m, kind |-> "curve"])
    /\ UNCHANGED <<mapped, touched, subscribed, balances, doomed, permit, pc, filter, count>>

Map(c) ==
    /\ At(c, "map")
    /\ mapped' = mapped \cup {Account(c)}
    /\ Goto(c, "touch")
    /\ UNCHANGED <<touched, subscribed, balances, doomed, permit, pc, filter, count>>

Touch(c) ==
    /\ At(c, "touch")
    /\ touched' = touched \cup {callers[c].mint}
    /\ Goto(c, "subscribe")
    /\ UNCHANGED <<mapped, subscribed, balances, doomed, permit, pc, filter, count>>

Subscribe(c) ==
    /\ At(c, "subscribe")
    /\ subscribed' = subscribed \cup {Account(c)}
    /\ Goto(c, "notify")
    /\ UNCHANGED <<mapped, touched, balances, doomed, permit, pc, filter, count>>

WakesOnlyAWaiter == permit \/ pc = "wait"

\* notify_one leaves a permit when nobody waits.
Permitted == TRUE

Notify(c) ==
    /\ At(c, "notify")
    /\ permit' = Permitted
    /\ Become(c, IF callers[c].kind = "curve"
                   THEN [callers[c] EXCEPT !.pc = "map", !.kind = "ata"]
                   ELSE Idle)
    /\ UNCHANGED <<mapped, touched, subscribed, balances, doomed, pc, filter, count>>

-----------------------------------------------------------------------------
(* untrack_mint.                                                           *)

\* cleanup_mint_if_unused, once it has counted no open position of the mint;
\* a buy may open one from now on.
BeginCleanup(c) ==
    /\ c \in Cleaners
    /\ At(c, "idle")
    /\ \E m \in Mints : Become(c, [pc |-> "forget", mint |-> m, kind |-> "curve"])
    /\ UNCHANGED <<mapped, touched, subscribed, balances, doomed, permit, pc, filter, count>>

Forget(c) ==
    /\ At(c, "forget")
    /\ balances' = balances \ {callers[c].mint}
    /\ Goto(c, "collect")
    /\ UNCHANGED <<mapped, touched, subscribed, doomed, permit, pc, filter, count>>

\* prune_stale_candidate_mints collects first what nobody touched for long
\* and no open position needs, and untracks it one by one.
PruneScan ==
    /\ At(Pruner, "idle")
    /\ doomed = {}
    /\ doomed' \in SUBSET touched
    /\ UNCHANGED <<mapped, touched, subscribed, balances, callers, permit, pc, filter, count>>

BeginPrune ==
    /\ At(Pruner, "idle")
    /\ \E m \in doomed :
        /\ doomed' = doomed \ {m}
        /\ Become(Pruner, [pc |-> "collect", mint |-> m, kind |-> "curve"])
    /\ UNCHANGED <<mapped, touched, subscribed, balances, permit, pc, filter, count>>

NextKindLeavingBalance(b) ==
    IF b.kind = "curve" THEN [b EXCEPT !.pc = "collect", !.kind = "ata"]
                        ELSE [b EXCEPT !.pc = "untouch"]

\* The accounts of one kind are done with.
NextKind(b) ==
    IF b.kind = "curve" THEN [b EXCEPT !.pc = "collect", !.kind = "ata"]
                        ELSE [b EXCEPT !.pc = "uncache"]

Collect(c) ==
    /\ At(c, "collect")
    /\ Become(c, IF Account(c) \in mapped THEN [callers[c] EXCEPT !.pc = "unmap"]
                                          ELSE NextKind(callers[c]))
    /\ UNCHANGED <<mapped, touched, subscribed, balances, doomed, permit, pc, filter, count>>

Unmap(c) ==
    /\ At(c, "unmap")
    /\ mapped' = mapped \ {Account(c)}
    /\ Goto(c, "unsubscribe")
    /\ UNCHANGED <<touched, subscribed, balances, doomed, permit, pc, filter, count>>

Unsubscribe(c) ==
    /\ At(c, "unsubscribe")
    /\ subscribed' = subscribed \ {Account(c)}
    /\ Become(c, NextKind(callers[c]))
    /\ UNCHANGED <<mapped, touched, balances, doomed, permit, pc, filter, count>>

Uncache(c) ==
    /\ At(c, "uncache")
    /\ balances' = balances \ {callers[c].mint}
    /\ Goto(c, "untouch")
    /\ UNCHANGED <<mapped, touched, subscribed, doomed, permit, pc, filter, count>>

Untouch(c) ==
    /\ At(c, "untouch")
    /\ touched' = touched \ {callers[c].mint}
    /\ Become(c, Idle)
    /\ UNCHANGED <<mapped, subscribed, balances, doomed, permit, pc, filter, count>>

-----------------------------------------------------------------------------
(* subscribe, and the loop around it in main.rs.                           *)

Check ==
    /\ pc = "check"
    /\ pc' = IF subscribed = {} THEN "empty" ELSE "gather"
    /\ UNCHANGED <<mapped, touched, subscribed, balances, callers, doomed, permit, filter, count>>

\* An account may be added, and the notification sent, before the wait begins.
Await ==
    /\ pc = "empty"
    /\ pc' = "wait"
    /\ UNCHANGED <<mapped, touched, subscribed, balances, callers, doomed, permit, filter, count>>

Wake ==
    /\ pc = "wait"
    /\ permit
    /\ permit' = FALSE
    /\ pc' = "check"
    /\ UNCHANGED <<mapped, touched, subscribed, balances, callers, doomed, filter, count>>

Gather ==
    /\ pc = "gather"
    /\ filter' = subscribed
    /\ pc' = "connect"
    /\ UNCHANGED <<mapped, touched, subscribed, balances, callers, doomed, permit, count>>

CountedFromZero == Cardinality(filter) - 1

CountedLate == Cardinality(subscribed)

\* The number compared from now on is that of the accounts asked for.
Counted == Cardinality(filter)

Connect ==
    /\ pc = "connect"
    /\ count' = Counted
    /\ pc' = "stream"
    /\ UNCHANGED <<mapped, touched, subscribed, balances, callers, doomed, permit, filter>>

\* The tick of resub_interval.  A send that fails finds the stream ended.
Resubscribe ==
    /\ pc = "stream"
    /\ Cardinality(subscribed) # count
    /\ filter' = subscribed
    /\ count' = Cardinality(subscribed)
    /\ UNCHANGED <<mapped, touched, subscribed, balances, callers, doomed, permit, pc>>

\* handle_account_update: an update of an account that is not subscribed, or
\* not mapped, is dropped.  The guards of both maps are held meanwhile.  The
\* update may have been on its way since an earlier filter.
Update(m) ==
    /\ pc = "stream"
    /\ <<m, "ata">> \in subscribed \cap mapped
    /\ balances' = balances \cup {m}
    /\ UNCHANGED <<mapped, touched, subscribed, callers, doomed, permit, pc, filter, count>>

\* The connection cannot be made, or the stream ends: the main program calls
\* subscribe again, two seconds later.
Disconnect ==
    /\ pc \in {"connect", "stream"}
    /\ filter' = {}
    /\ count' = 0
    /\ pc' = "check"
    /\ UNCHANGED <<mapped, touched, subscribed, balances, callers, doomed, permit>>

-----------------------------------------------------------------------------
Init ==
    /\ mapped = {}
    /\ touched = {}
    /\ subscribed = {}
    /\ balances = {}
    /\ callers = [c \in Trackers \cup Untrackers |-> Idle]
    /\ doomed = {}
    /\ permit = FALSE
    /\ pc = "check"
    /\ filter = {}
    /\ count = 0

Track(c) == Map(c) \/ Touch(c) \/ Subscribe(c) \/ Notify(c)

Untrack(c) ==
    \/ Forget(c) \/ Collect(c) \/ Unmap(c) \/ Unsubscribe(c)
    \/ Uncache(c) \/ Untouch(c)

Run == Check \/ Await \/ Wake \/ Gather \/ Resubscribe

Next ==
    \/ \E c \in Trackers : BeginTrack(c) \/ Track(c)
    \/ \E c \in Cleaners : BeginCleanup(c)
    \/ \E c \in Untrackers : Untrack(c)
    \/ PruneScan \/ BeginPrune
    \/ Run \/ Connect \/ Disconnect
    \/ \E m \in Mints : Update(m)

Spec == Init /\ [][Next]_vars

\* Tasks go on and timers fire.  No trade, no connection and no update has
\* to happen.
FairSpec ==
    /\ Spec
    /\ \A c \in Trackers : WF_vars(Track(c))
    /\ \A c \in Untrackers : WF_vars(Untrack(c))
    /\ WF_vars(BeginPrune) /\ WF_vars(Run)

-----------------------------------------------------------------------------
(* Properties.                                                             *)

TypeOK ==
    /\ mapped \subseteq Accounts
    /\ touched \subseteq Mints
    /\ subscribed \subseteq Accounts
    /\ balances \subseteq Mints
    /\ callers \in [Trackers \cup Untrackers -> Caller]
    /\ doomed \subseteq Mints
    /\ permit \in BOOLEAN
    /\ pc \in Points
    /\ filter \subseteq Accounts
    /\ count \in Nat

\* Task c has dropped the mapping of the ATA of m, or never found one, and
\* has yet to drop its balance.
Dropping(c, m) ==
    /\ callers[c].mint = m
    /\ \/ At(c, "unsubscribe") /\ callers[c].kind = "ata"
       \/ At(c, "uncache")

\* No balance outlives the tracking of its account: a cached balance that no
\* update can refresh any more is about to be removed, however the tasks that
\* track and untrack a mint overlap.  Sells trust the cache before the chain.
BalanceIsFed ==
    \A m \in Mints :
        m \in balances =>
            <<m, "ata">> \in mapped \/ \E c \in Untrackers : Dropping(c, m)

\* Waiting to be woken is never for ever while there is an account to
\* subscribe to, whatever happens between the test and the wait.
SubscriberWakes == pc = "wait" /\ subscribed # {} ~> pc # "wait" \/ subscribed = {}

\* The server was asked for all that was tracked then, and more is tracked now.
Outgrown == pc = "stream" /\ filter \subseteq subscribed /\ filter # subscribed

\* Where accounts were only added since the last request, the next tick asks
\* for them: also for those added while the connection was being made.
GrowthIsNoticed == Outgrown ~> ~Outgrown

=============================================================================
