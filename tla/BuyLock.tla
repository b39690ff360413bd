------------------------------ MODULE BuyLock ------------------------------
(***************************************************************************)
(* What the group-mint dedup of main.rs is for, whatever map, sweeper and  *)
(* clocks it is made of: a key is bought by one task at a time, and after  *)
(* a submitted buy by nobody until a cooldown has passed.                  *)
(*                                                                         *)
(* It is a lease rather than a lock: a holder that keeps its key too long  *)
(* breaks it.  Until the last holder of a broken key has left, others may  *)
(* join and a cooldown may be lost; then it is a lock again.               *)
(***************************************************************************)
EXTENDS Integers

CONSTANTS Keys, Tasks, Cooldown

VARIABLES
    holders,   \* key -> the tasks that are buying it
    cooling,   \* key -> time to wait before the next buy
    broken     \* the keys that someone has held too long

vars == <<holders, cooling, broken>>

Init ==
    /\ holders = [k \in Keys |-> {}]
    /\ cooling = [k \in Keys |-> 0]
    /\ broken = {}

Take(k, t) ==
    /\ holders[k] = {} \/ k \in broken
    /\ cooling[k] = 0
    /\ \A j \in Keys : t \notin holders[j]
    /\ holders' = [holders EXCEPT ![k] = @ \cup {t}]
    /\ UNCHANGED <<cooling, broken>>

Release(k, t, submitted) ==
    /\ t \in holders[k]
    /\ holders' = [holders EXCEPT ![k] = @ \ {t}]
    /\ \E wait \in {IF submitted THEN Cooldown ELSE 0} \cup (IF k \in broken THEN {0} ELSE {}) :
          cooling' = [cooling EXCEPT ![k] = wait]
    /\ broken' = IF holders[k] = {t} THEN broken \ {k} ELSE broken

\* Time passes; some of the holders may have kept their keys too long now.
Elapse(late) ==
    /\ \A k \in late : holders[k] # {}
    /\ broken' = broken \cup late
    /\ cooling' = [k \in Keys |-> IF cooling[k] > 0 THEN cooling[k] - 1 ELSE 0]
    /\ UNCHANGED holders

Next ==
    \/ \E k \in Keys, t \in Tasks : Take(k, t)
    \/ \E k \in Keys, t \in Tasks, submitted \in BOOLEAN : Release(k, t, submitted)
    \/ \E late \in SUBSET Keys : Elapse(late)

Spec == Init /\ [][Next]_vars

=============================================================================
