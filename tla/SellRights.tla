----------------------------- MODULE SellRights -----------------------------
(***************************************************************************)
(* What the groups may sell, whatever signals, commands, retries and       *)
(* balances lead to it: every buy gives the right to sell out once.  The   *)
(* right lies with the position, or with the task that has claimed it; it  *)
(* is used up by a sale, put back, or lost, and never copied.              *)
(***************************************************************************)
EXTENDS Integers

CONSTANT Groups

VARIABLES
    bought,    \* group -> how often it bought
    open,      \* group -> rights that lie with its position: 0 or 1
    claimed,   \* group -> rights that tasks hold
    sold       \* group -> how often a sale of everything was reported

vars == <<bought, open, claimed, sold>>

Init ==
    /\ bought = [g \in Groups |-> 0]
    /\ open = [g \in Groups |-> 0]
    /\ claimed = [g \in Groups |-> 0]
    /\ sold = [g \in Groups |-> 0]

\* A new position replaces what was there; what is claimed stays claimed.
Buy(g) ==
    /\ bought' = [bought EXCEPT ![g] = @ + 1]
    /\ open' = [open EXCEPT ![g] = 1]
    /\ UNCHANGED <<claimed, sold>>

Claim(g) ==
    /\ open[g] = 1
    /\ open' = [open EXCEPT ![g] = 0]
    /\ claimed' = [claimed EXCEPT ![g] = @ + 1]
    /\ UNCHANGED <<bought, sold>>

\* The position gets its right back, unless it has one, or the right is lost.
PutBack(g) ==
    /\ claimed[g] > 0
    /\ claimed' = [claimed EXCEPT ![g] = @ - 1]
    /\ \E rest \in 0 .. 1 : open' = [open EXCEPT ![g] = rest]
    /\ UNCHANGED <<bought, sold>>

SellOut(g) ==
    /\ claimed[g] > 0
    /\ claimed' = [claimed EXCEPT ![g] = @ - 1]
    /\ sold' = [sold EXCEPT ![g] = @ + 1]
    /\ UNCHANGED <<bought, open>>

\* A position that is given up.
Lose(g) ==
    /\ open' = [open EXCEPT ![g] = 0]
    /\ UNCHANGED <<bought, claimed, sold>>

Next == \E g \in Groups : Lose(g) \/ Claim(g) \/ SellOut(g) \/ PutBack(g) \/ Buy(g)

Spec == Init /\ [][Next]_vars

=============================================================================
