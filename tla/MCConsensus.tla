---------------------------- MODULE MCConsensus ----------------------------
(* Model-checking constants for Consensus: the shapes the parser produces. *)
EXTENDS Consensus

\* A decoded pump.fun buy as seen before it lands, and one of a wrapper
\* program that is not known and does not count as a vote.
PreDecoded == [instr |-> TRUE, accounts |-> TRUE, sol |-> TRUE,
               pre |-> TRUE, wrapper |-> FALSE]
Uncounted == [instr |-> FALSE, accounts |-> TRUE, sol |-> FALSE,
              pre |-> TRUE, wrapper |-> FALSE]

SafetyShapes == {PreDecoded, Uncounted}
=============================================================================
