------------------------------- MODULE MCExits -------------------------------
(* The instances of Exits that TLC explores: a stop loss of 20%, a target  *)
(* of 30% or none, and a trailing stop of 10%, at prices 8 to 14.          *)
EXTENDS Exits

Selling(take_profit, max_hold) ==
    [follow |-> FALSE, stop_loss_percent |-> 20, take_profit_percent |-> take_profit,
     trailing_stop_percent |-> 10, max_hold |-> max_hold]

Following == [Selling(30, TRUE) EXCEPT !.follow = TRUE]

AllSettings == {Selling(30, TRUE), Following}
=============================================================================
