------------------------------- MODULE Delivery -------------------------------
(***************************************************************************)
(* What the updates of a chat are for, whatever polls, offsets, timeouts   *)
(* and restarts carry them: they are carried out in the order in which the *)
(* user sent them, each at least once, and the server forgets none before  *)
(* that.                                                                   *)
(***************************************************************************)
EXTENDS Integers

VARIABLES
    posted,   \* how many updates the user sent
    done,     \* how many were carried out: the first ones
    kept      \* the first update that the server still has

vars == <<posted, done, kept>>

Init ==
    /\ posted = 0
    /\ done = 0
    /\ kept = 1

Post ==
    /\ posted' = posted + 1
    /\ UNCHANGED <<done, kept>>

\* The next update; that one is carried out again changes nothing here.
CarryOut ==
    /\ done < posted
    /\ done' = done + 1
    /\ UNCHANGED <<posted, kept>>

Forget ==
    /\ kept' \in kept .. done + 1
    /\ UNCHANGED <<posted, done>>

Next == Post \/ CarryOut \/ Forget

Spec == Init /\ [][Next]_vars

=============================================================================
