------------------------------ MODULE Position ------------------------------
(***************************************************************************)
(* The position record and its transition methods (autosell/position.rs).  *)
(* A method returns the record it leaves behind; a refused one leaves the  *)
(* record as it is, as the Rust method that returns false does.  Prices    *)
(* are left out: they are read by the exit rules only.                     *)
(*                                                                         *)
(* The two retry counters are compared with their caps and never with      *)
(* anything else, so they saturate there.                                  *)
(***************************************************************************)
EXTENDS Integers

CONSTANTS
    MAX_AUTO_SELL_SIGNAL_ATTEMPTS,  \* 5 in manager.rs and sell_executor.rs
    MAX_ZERO_BALANCE_SKIPS,         \* 5 in sell_executor.rs
    MaxTokens                       \* bound on balances and token amounts

ASSUME PositionAssumption ==
    /\ MAX_AUTO_SELL_SIGNAL_ATTEMPTS \in Nat \ {0}
    /\ MAX_ZERO_BALANCE_SKIPS \in Nat \ {0}
    /\ MaxTokens \in Nat \ {0}

Tokens == 0 .. MaxTokens

\* Pending is left before a position enters the map, so no map holds it.
PositionState ==
    {"Pending", "Submitted", "Confirming", "Active", "Selling", "Closed", "Failed"}

PositionRecord == [state : PositionState,
                   token_amount : Tokens,
                   pre_buy_ata_balance : Tokens,
                   sell_attempts : 0 .. MAX_AUTO_SELL_SIGNAL_ATTEMPTS,
                   zero_balance_sell_skips : 0 .. MAX_ZERO_BALANCE_SKIPS]

UpTo(cap, n) == IF n < cap THEN n ELSE cap

\* Position::new followed by set_token_amount_estimate.
NewPosition(estimate, pre_buy) ==
    [state |-> "Pending", token_amount |-> estimate,
     pre_buy_ata_balance |-> pre_buy,
     sell_attempts |-> 0, zero_balance_sell_skips |-> 0]

mark_submitted(p) ==
    IF p.state = "Pending" THEN [p EXCEPT !.state = "Submitted"] ELSE p

mark_confirming(p) ==
    IF p.state = "Submitted" THEN [p EXCEPT !.state = "Confirming"] ELSE p

mark_active_from_any(p, amount) ==
    [p EXCEPT !.state = "Active", !.token_amount = amount]

mark_active(p, amount) ==
    IF p.state \in {"Confirming", "Submitted"}
      THEN [p EXCEPT !.state = "Active", !.token_amount = amount]
      ELSE p

CanMarkSellingAgain(p) == p.state \in {"Active", "Confirming", "Submitted", "Selling"}

CanMarkSelling(p) == p.state \in {"Active", "Confirming", "Submitted"}

mark_selling(p) ==
    IF CanMarkSelling(p)
      THEN [p EXCEPT !.state = "Selling",
                     !.sell_attempts = UpTo(MAX_AUTO_SELL_SIGNAL_ATTEMPTS, @ + 1),
                     !.zero_balance_sell_skips = 0]
      ELSE p

mark_closed(p) ==
    IF p.state = "Selling" THEN [p EXCEPT !.state = "Closed"] ELSE p

\* No guard: any state fails.
mark_failed(p) == [p EXCEPT !.state = "Failed"]

\* No guard either: whatever happened meanwhile, the old state is put back.
restore_after_sell_attempt(p, previous) == [p EXCEPT !.state = previous]

\* AutoSellManager::suspend_auto_sell writes the fields itself.
suspend_auto_sell(p, previous) ==
    [p EXCEPT !.state = previous,
              !.sell_attempts = MAX_AUTO_SELL_SIGNAL_ATTEMPTS]

record_zero_balance_sell_skip(p) ==
    [p EXCEPT !.zero_balance_sell_skips = UpTo(MAX_ZERO_BALANCE_SKIPS, @ + 1)]

\* Refused for nothing sold and for more than the position holds; the state
\* is then left as it is.
CanApplyPartialSell(p, sold) == sold # 0 /\ sold <= p.token_amount

apply_partial_sell(p, sold) ==
    IF CanApplyPartialSell(p, sold)
      THEN [p EXCEPT !.state = "Active", !.token_amount = @ - sold]
      ELSE p

can_sell(p) == p.state \in {"Active", "Confirming"}

max_sell_attempts_reached(p) == p.sell_attempts >= MAX_AUTO_SELL_SIGNAL_ATTEMPTS

\* What the map's iterators count as open, and what they list for the user.
IsOpen(p) == p.state \notin {"Closed", "Failed"}

IsListed(p) == p.state \notin {"Closed", "Failed", "Selling"}

=============================================================================
