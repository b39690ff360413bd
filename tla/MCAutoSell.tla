----------------------------- MODULE MCAutoSell -----------------------------
(* The instances of AutoSell that TLC explores: the bounds are the         *)
(* constants of the .cfg files, one per question.                          *)
EXTENDS AutoSell
=============================================================================
