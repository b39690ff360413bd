-------------------------------- MODULE Exits --------------------------------
(***************************************************************************)
(* When a position is to be sold: the prices it keeps (position.rs), the   *)
(* two monitors that feed them and apply the exit rules (manager.rs), and  *)
(* what the confirm task and the sell loop do to them meanwhile.           *)
(*                                                                         *)
(* One position is modelled, from the moment its buy was sent.  The price  *)
(* monitor takes the updates of the account stream from a channel, so that *)
(* it may be behind the curve cache; the fallback monitor reads the cache. *)
(* Both ask for a sale through one channel.  How a sale is carried out is  *)
(* in AutoSell; here it ends in one of the ways it has there.              *)
(*                                                                         *)
(* Prices are integers, percentages of them are compared crosswise.        *)
(***************************************************************************)
EXTENDS Position, Sequences, FiniteSets

CONSTANTS
    Prices,      \* prices of a token
    Settings,    \* settings a group can have
    Estimated,   \* entry price of the buy as it was sent
    Known,       \* prices the cache can hold then, 0 when it has no curve
    MaxMoves,    \* bound on the changes of the cached price
    MaxSignals   \* bound on the unread sell signals

GroupSettings ==
    [follow : BOOLEAN, stop_loss_percent : Nat, take_profit_percent : Nat,
     trailing_stop_percent : Nat, max_hold : BOOLEAN]

ASSUME ExitsAssumption ==
    /\ Prices \subseteq Nat \ {0}
    /\ IsFiniteSet(Prices)
    /\ Settings \subseteq GroupSettings
    /\ Estimated \in Prices
    /\ Known \subseteq Prices \cup {0}
    /\ {MaxMoves, MaxSignals} \subseteq Nat

VARIABLES
    group,     \* the settings, copied into the position by the buy
    pos,       \* the position but for its prices
    price,     \* entry_price_sol, highest_price and current_price
    cached,    \* price of the cached curve; 0 when there is none
    updates,   \* channel of the price monitor
    moves,     \* how often the cached price has changed
    overdue,   \* held_seconds has reached confirm_timeout_secs
    held,      \* held_seconds has reached max_hold_seconds
    confirm,   \* the confirm task, and the price it has read
    asking,    \* the fallback monitor waits for a balance
    signals,   \* the sell signal channel
    seller,    \* the sell loop
    top        \* history variable: the highest of the cost and the prices since the
               \* buy was confirmed

curve == <<cached, updates, moves>>
clock == <<overdue, held>>
tasks == <<confirm, asking, seller>>
vars == <<group, pos, price, curve, clock, tasks, signals, top>>

Reasons == {"Auto", "Manual"}

Idle == [step |-> "idle", reason |-> "Auto", previous |-> "Pending"]

Init ==
    /\ group \in Settings
    /\ pos = mark_confirming(mark_submitted(NewPosition(1, 0)))
    /\ price = [entry |-> Estimated, highest |-> Estimated, current |-> Estimated]
    /\ cached \in Known
    /\ updates = <<>>
    /\ moves = 0
    /\ overdue = FALSE
    /\ held = FALSE
    /\ confirm = [step |-> "poll", price |-> 0]
    /\ asking = FALSE
    /\ signals = <<>>
    /\ seller = Idle
    /\ top = Estimated

-----------------------------------------------------------------------------
(* The curve and the time.                                                 *)

\* (Prices that change after the position has ended are left out.)
Move ==
    /\ IsOpen(pos)
    /\ moves < MaxMoves
    /\ moves' = moves + 1
    /\ UNCHANGED <<group, pos, price, clock, tasks, signals, top>>

\* The account stream: the cache first, then the channel.
CurveUpdate ==
    /\ Move
    /\ \E now \in Prices : cached' = now /\ updates' = Append(updates, now)

\* A query of the buy path that is answered late overwrites the cache; the
\* channel does not hear of it.
CacheOverwritten ==
    /\ Move
    /\ cached' \in Prices
    /\ UNCHANGED updates

TimePasses ==
    /\ \/ ~overdue /\ overdue' = TRUE /\ UNCHANGED held
       \/ ~held /\ held' = TRUE /\ UNCHANGED overdue
    /\ UNCHANGED <<group, pos, price, curve, tasks, signals, top>>

-----------------------------------------------------------------------------
(* The prices of the position.                                             *)

Greater(m, n) == IF m > n THEN m ELSE n

update_price(now) == [price EXCEPT !.current = now, !.highest = Greater(@, now)]

\* pnl_percent <= -percent, and >= percent.
LossReaches(entry, now, percent) == (entry - now) * 100 >= percent * entry
GainReaches(entry, now, percent) == (now - entry) * 100 >= percent * entry

\* drawdown_percent >= percent.
FallReaches(highest, now, percent) == (highest - now) * 100 >= percent * highest

Overstays ==
    /\ group.max_hold /\ held
    /\ can_sell(pos)
    /\ ~max_sell_attempts_reached(pos)

\* check_exit_conditions: the holding time in any mode, the prices in all
\* modes but follow, for an Active position, however often it was tried.
check_exit_conditions(now) ==
    \/ Overstays
    \/ /\ ~group.follow
       /\ pos.state = "Active"
       /\ \/ LossReaches(now.entry, now.current, group.stop_loss_percent)
          \/ GainReaches(now.entry, now.current, group.take_profit_percent)
          \/ /\ group.trailing_stop_percent > 0
             /\ now.current > now.entry
             /\ FallReaches(now.highest, now.current, group.trailing_stop_percent)

Signal(reason) ==
    /\ Len(signals) < MaxSignals
    /\ signals' = Append(signals, reason)

\* Mutant: the rules are applied, but the price is not kept.
FeedNothing(now) ==
    /\ UNCHANGED <<price, top>>
    /\ IF check_exit_conditions(price) THEN Signal("Auto") ELSE UNCHANGED signals

\* A price arrives at the position, and the rules are applied to it.
Feed(now) ==
    /\ price' = update_price(now)
    /\ top' = Greater(top, now)
    /\ IF check_exit_conditions(update_price(now)) THEN Signal("Auto") ELSE UNCHANGED signals

-----------------------------------------------------------------------------
(* The monitors and the user.                                              *)

\* The price monitor, with the oldest update it has not seen.
PriceMonitor ==
    /\ updates # <<>>
    /\ updates' = Tail(updates)
    /\ Feed(Head(updates))
    /\ UNCHANGED <<group, pos, cached, moves, clock, tasks>>

unconfirmed == pos.state \in {"Submitted", "Confirming"} /\ overdue

\* Mutant: the holding time is left to the rules, which it is one of.
FallbackRulesOnly ==
    /\ ~asking
    /\ ~unconfirmed
    /\ cached # 0
    /\ Feed(cached)
    /\ UNCHANGED <<group, pos, curve, clock, tasks>>

\* One round of the fallback monitor: the holding time, then the rules at
\* the cached price.
FallbackMonitor ==
    /\ ~asking
    /\ ~unconfirmed
    /\ IF Overstays THEN Signal("Auto") /\ UNCHANGED <<price, top>>
                    ELSE cached # 0 /\ Feed(cached)
    /\ UNCHANGED <<group, pos, curve, clock, tasks>>

\* In place of that, an overdue buy is looked up.  A balance that has grown
\* hangs the monitor (AutoSell, FallbackHangs); one that has not fails the
\* position, whatever became of it meanwhile.
FallbackAsks ==
    /\ ~asking
    /\ unconfirmed
    /\ asking' = TRUE
    /\ UNCHANGED <<group, pos, price, curve, clock, confirm, seller, signals, top>>

FallbackFails ==
    /\ asking
    /\ asking' = FALSE
    /\ pos' = mark_failed(pos)
    /\ UNCHANGED <<group, price, curve, clock, confirm, seller, signals, top>>

\* The user sells, or, in a group that follows, the target does.
AskedToSell ==
    /\ \/ IsListed(pos) /\ Signal("Manual")
       \/ /\ group.follow /\ can_sell(pos) /\ ~max_sell_attempts_reached(pos)
          /\ Signal("Auto")
    /\ UNCHANGED <<group, pos, price, curve, clock, tasks, top>>

-----------------------------------------------------------------------------
(* The confirm task.                                                       *)

\* Mutant: a curve without a price is not filtered out.
ConfirmTakesAny ==
    /\ confirm.step = "poll"
    /\ confirm' = [step |-> "assign", price |-> cached]
    /\ UNCHANGED <<group, pos, price, curve, clock, asking, seller, signals, top>>

\* The buy landed: the cost is the price of the curve now, or what was paid
\* by the token when there is no curve.
ConfirmSees ==
    /\ confirm.step = "poll"
    /\ confirm' \in [step : {"assign"}, price : IF cached # 0 THEN {cached} ELSE Prices]
    /\ UNCHANGED <<group, pos, price, curve, clock, asking, seller, signals, top>>

\* Mutant: the peak of the time before is kept.
MarkActiveKeepsPeak(cost) == [price EXCEPT !.entry = cost, !.current = cost]

mark_active_price(cost) == [entry |-> cost, highest |-> cost, current |-> cost]

\* confirm_success, refused unless the position still waits for it.
ConfirmSucceeds ==
    /\ confirm.step = "assign"
    /\ confirm' = [step |-> "correct", price |-> 0]
    /\ pos' = mark_active(pos, 1)
    /\ IF pos.state \in {"Submitted", "Confirming"}
         THEN price' = mark_active_price(confirm.price) /\ top' = confirm.price
         ELSE UNCHANGED <<price, top>>
    /\ UNCHANGED <<group, curve, clock, asking, seller, signals>>

ConfirmFails ==
    /\ confirm.step = "poll"
    /\ confirm' = [step |-> "done", price |-> 0]
    /\ pos' = mark_failed(pos)
    /\ UNCHANGED <<group, price, curve, clock, asking, seller, signals, top>>

\* update_entry_price: what was really spent is known later, and replaces the
\* cost in any state.
CorrectEntry ==
    /\ confirm.step = "correct"
    /\ confirm' = [step |-> "done", price |-> 0]
    /\ \E real \in Prices :
        /\ price' = [price EXCEPT !.entry = real, !.highest = Greater(@, real)]
        /\ top' = Greater(top, real)
    /\ UNCHANGED <<group, pos, curve, clock, asking, seller, signals>>

-----------------------------------------------------------------------------
(* The sell loop: the steps of AutoSell that touch the position.           *)

\* The state is read now and put back when the sale fails.  A signal without
\* accounts, or without tokens, is dropped.
TakeSignal ==
    /\ seller = Idle
    /\ signals # <<>>
    /\ signals' = Tail(signals)
    /\ \/ UNCHANGED seller
       \/ seller' = [step |-> "mark", reason |-> Head(signals), previous |-> pos.state]
    /\ UNCHANGED <<group, pos, price, curve, clock, confirm, asking, top>>

MarkSelling ==
    /\ seller.step = "mark"
    /\ pos' = mark_selling(pos)
    /\ seller' = IF CanMarkSelling(pos) THEN [seller EXCEPT !.step = "sale"] ELSE Idle
    /\ UNCHANGED <<group, price, curve, clock, confirm, asking, signals, top>>

\* All of it, or the part that is the position's own.
SaleSucceeds ==
    /\ seller.step = "sale"
    /\ \/ pos' = mark_closed(pos)
       \/ CanApplyPartialSell(pos, 1) /\ pos' = apply_partial_sell(pos, 1)
    /\ seller' = Idle
    /\ UNCHANGED <<group, price, curve, clock, confirm, asking, signals, top>>

\* An automatic sale that failed on chain, or too often, is suspended.
SaleFails ==
    /\ seller.step = "sale"
    /\ \/ /\ seller.reason = "Auto"
          /\ pos' = suspend_auto_sell(pos, seller.previous)
       \/ /\ seller.reason = "Manual" \/ ~max_sell_attempts_reached(pos)
          /\ pos' = restore_after_sell_attempt(pos, seller.previous)
    /\ seller' = Idle
    /\ UNCHANGED <<group, price, curve, clock, confirm, asking, signals, top>>

-----------------------------------------------------------------------------
SellLoop == TakeSignal \/ MarkSelling \/ SaleSucceeds \/ SaleFails

ConfirmTask == ConfirmSees \/ ConfirmSucceeds \/ ConfirmFails \/ CorrectEntry

Next ==
    \/ CurveUpdate \/ CacheOverwritten \/ TimePasses
    \/ PriceMonitor \/ FallbackMonitor \/ FallbackAsks \/ FallbackFails
    \/ AskedToSell
    \/ ConfirmTask
    \/ SellLoop

Spec == Init /\ [][Next]_vars

\* The fallback monitor comes round every price_check_interval_secs, and the
\* sell loop serves its channel.  Nothing is asked of the account stream or
\* of the monitor that depends on it.
FairSpec ==
    /\ Spec
    /\ WF_vars(FallbackMonitor) /\ WF_vars(FallbackFails) /\ WF_vars(SellLoop)

-----------------------------------------------------------------------------
(* Properties.                                                             *)

\* The variables have their types.
TypeOK ==
    /\ group \in Settings
    /\ pos \in PositionRecord
    /\ price \in [entry : Prices, highest : Prices, current : Prices]
    /\ cached \in Prices \cup {0}
    /\ updates \in Seq(Prices)
    /\ moves \in 0 .. MaxMoves
    /\ {overdue, held, asking} \subseteq BOOLEAN
    /\ confirm \in [step : {"poll", "assign", "correct", "done"}, price : Prices \cup {0}]
    /\ signals \in Seq(Reasons)
    /\ seller \in [step : {"idle", "mark", "sale"}, reason : Reasons, previous : PositionState]
    /\ top \in Prices

\* The peak that the trailing stop falls from is the highest of the cost and
\* of the prices since the buy was confirmed: no price from before, and no
\* cost that was corrected, makes a fall out of nothing or hides one.
PeakIsOwn == price.highest = top /\ price.current <= top

\* The sell loop has, or is about to look at, a signal for the position.
Heard == signals # <<>> \/ seller # Idle

AtLoss ==
    /\ ~group.follow
    /\ cached # 0
    /\ LossReaches(price.entry, cached, group.stop_loss_percent)

\* A position whose cached price stays at a loss is brought before the sell
\* loop although the account stream has stopped or its monitor is behind:
\* the fallback monitor is enough, also after attempts that failed.
LossIsActedOn ==
    pos.state = "Active" /\ AtLoss ~> pos.state # "Active" \/ ~AtLoss \/ Heard

\* And so is one that is held for too long, without any price.
LifetimeIsActedOn ==
    pos.state = "Active" /\ Overstays ~> pos.state # "Active" \/ ~Overstays \/ Heard

=============================================================================
