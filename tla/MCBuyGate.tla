----------------------------- MODULE MCBuyGate -----------------------------
(* Model-checking constants for BuyGate.                                   *)
EXTENDS BuyGate

OnePermit == [pool \in Pools |-> 1]
=============================================================================
