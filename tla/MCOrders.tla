------------------------------ MODULE MCOrders ------------------------------
(* Constants for Orders: a curve early, late and completed. *)
EXTENDS Orders

Curve(vt, vs, rt, done) ==
    [virtual_token_reserves |-> vt, virtual_sol_reserves |-> vs, real_token_reserves |-> rt,
     complete |-> done]

MCCurves == {Curve(30, 3, 20, FALSE), Curve(22, 5, 1, FALSE), Curve(20, 6, 0, TRUE)}
MCMints ==
    {[token_program |-> TOKEN_2022, creator |-> TRUE, is_mayhem_mode |-> TRUE,
      is_cashback |-> TRUE]}
MCHidden == {{}, {8}, {3, 4, 8}}
MCWrong == {{}, {4}, {13}}
=============================================================================
