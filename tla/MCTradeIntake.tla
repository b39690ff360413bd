--------------------------- MODULE MCTradeIntake ---------------------------
(* Model-checking constants for TradeIntake: who sends which transaction.  *)
EXTENDS TradeIntake

CONSTANTS w1, w2, t1

OneSender == [t \in {t1} |-> w1]
=============================================================================
