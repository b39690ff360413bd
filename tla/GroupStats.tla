------------------------------ MODULE GroupStats ------------------------------
(***************************************************************************)
(* What the bot counts of every group (group_stats.rs): the summary of a   *)
(* group and the ways in which it is brought up to date, as operators.     *)
(*                                                                         *)
(* Percentages are integers, in tenths of a percent.  The averages are     *)
(* quotients of what is kept here and are left out, and so are the times.  *)
(***************************************************************************)
EXTENDS Integers, Sequences, FiniteSets, FiniteSetsExt

CONSTANTS
    Groups,    \* ids of groups, a deleted group's too
    Profits,   \* pnl_percent of the trades, in tenths of a percent
    None       \* no best and no worst trade yet

ASSUME GroupStatsAssumption == Profits \subseteq Int /\ None \notin Int

WIN_THRESHOLD_PERCENT == 5   \* 0.5 %

Counters == {"buy_confirmed_count", "buy_failed_count", "sell_failed_count"}

Summary ==
    [counts : [Counters -> Nat], closed_trades : Nat, wins : Nat, losses : Nat, flats : Nat,
     net_pnl_percent_sum : Int, best_trade_percent : Int \cup {None},
     worst_trade_percent : Int \cup {None}]

blank ==
    [counts |-> [counter \in Counters |-> 0], closed_trades |-> 0,
     wins |-> 0, losses |-> 0, flats |-> 0, net_pnl_percent_sum |-> 0,
     best_trade_percent |-> None, worst_trade_percent |-> None]

-----------------------------------------------------------------------------
classify_trade_outcome(profit) ==
    CASE profit > WIN_THRESHOLD_PERCENT   -> "wins"
      [] profit < - WIN_THRESHOLD_PERCENT -> "losses"
      [] OTHER                            -> "flats"

\* record_buy_confirmed, record_buy_failed and record_sell_failed.
Counted(summary, counter) == [summary EXCEPT !.counts[counter] = @ + 1]

\* The greatest, or the least, of what was kept and one more.
Extreme(kept, profit, IsMore(_, _)) ==
    IF kept = None \/ IsMore(profit, kept) THEN profit ELSE kept

\* Mutant: the worst trade is updated like the best one.
RecordBestTwice(summary, profit) ==
    [[summary EXCEPT ![classify_trade_outcome(profit)] = @ + 1] EXCEPT
        !.closed_trades = @ + 1,
        !.net_pnl_percent_sum = @ + profit,
        !.best_trade_percent = Extreme(@, profit, >),
        !.worst_trade_percent = Extreme(@, profit, >)]

record_closed_trade(summary, profit) ==
    [[summary EXCEPT ![classify_trade_outcome(profit)] = @ + 1] EXCEPT
        !.closed_trades = @ + 1,
        !.net_pnl_percent_sum = @ + profit,
        !.best_trade_percent = Extreme(@, profit, >),
        !.worst_trade_percent = Extreme(@, profit, <)]

-----------------------------------------------------------------------------
(* What a summary says of some trades, defined without the order in which  *)
(* they were recorded: trades is a function to records with a profit.      *)

HowMany(trades, some, outcome) ==
    Cardinality({n \in some : classify_trade_outcome(trades[n].profit) = outcome})

IsSummaryOf(summary, trades, some) ==
    LET profits == {trades[n].profit : n \in some} IN
    /\ summary.closed_trades = Cardinality(some)
    /\ summary.wins = HowMany(trades, some, "wins")
    /\ summary.losses = HowMany(trades, some, "losses")
    /\ summary.flats = HowMany(trades, some, "flats")
    /\ summary.net_pnl_percent_sum = MapThenSumSet(LAMBDA n : trades[n].profit, some)
    /\ summary.best_trade_percent = IF some = {} THEN None ELSE Max(profits)
    /\ summary.worst_trade_percent = IF some = {} THEN None ELSE Min(profits)

=============================================================================
