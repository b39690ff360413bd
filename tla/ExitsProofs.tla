----------------------------- MODULE ExitsProofs -----------------------------
(***************************************************************************)
(* The prices a position keeps, for any prices, settings and delays, any   *)
(* number of price changes and any order of the monitors, the confirm task *)
(* and the sell loop.                                                      *)
(***************************************************************************)
EXTENDS Exits, TLAPS

\* A price that the confirm task is about to assign is one.
CostIsPrice == confirm.step = "assign" => confirm.price \in Prices

IInv == TypeOK /\ CostIsPrice /\ PeakIsOwn

-----------------------------------------------------------------------------
(* Lemmas about the operators.                                             *)

LEMMA PriceNumbers == \A p \in Prices : p \in Nat
  BY ExitsAssumption

\* The greater of two prices is a price, and at least as great as either.
LEMMA GreaterPrice ==
    ASSUME NEW m \in Prices, NEW n \in Prices
    PROVE  /\ Greater(m, n) \in Prices
           /\ m <= Greater(m, n) /\ n <= Greater(m, n)
  BY PriceNumbers DEF Greater

\* The methods of a position return positions.
LEMMA PositionMethods ==
    ASSUME NEW p \in PositionRecord, NEW previous \in PositionState
    PROVE  /\ mark_submitted(p) \in PositionRecord
           /\ mark_confirming(p) \in PositionRecord
           /\ mark_active(p, 1) \in PositionRecord
           /\ mark_selling(p) \in PositionRecord
           /\ mark_closed(p) \in PositionRecord
           /\ mark_failed(p) \in PositionRecord
           /\ restore_after_sell_attempt(p, previous) \in PositionRecord
           /\ suspend_auto_sell(p, previous) \in PositionRecord
           /\ apply_partial_sell(p, 1) \in PositionRecord
  <1>1. /\ MAX_AUTO_SELL_SIGNAL_ATTEMPTS \in 0 .. MAX_AUTO_SELL_SIGNAL_ATTEMPTS
        /\ UpTo(MAX_AUTO_SELL_SIGNAL_ATTEMPTS, p.sell_attempts + 1)
             \in 0 .. MAX_AUTO_SELL_SIGNAL_ATTEMPTS
        /\ 0 \in 0 .. MAX_ZERO_BALANCE_SKIPS
        /\ 1 \in Tokens
    BY PositionAssumption DEF PositionRecord, UpTo, Tokens
  <1>2. CanApplyPartialSell(p, 1) => p.token_amount - 1 \in Tokens
    BY PositionAssumption DEF PositionRecord, Tokens, CanApplyPartialSell
  <1>3. mark_submitted(p) \in PositionRecord /\ mark_confirming(p) \in PositionRecord
    BY DEF mark_submitted, mark_confirming, PositionRecord, PositionState
  <1>4. mark_active(p, 1) \in PositionRecord
    BY <1>1 DEF mark_active, PositionRecord, PositionState
  <1>5. mark_selling(p) \in PositionRecord
    BY <1>1 DEF mark_selling, PositionRecord, PositionState
  <1>6. mark_closed(p) \in PositionRecord /\ mark_failed(p) \in PositionRecord
    BY DEF mark_closed, mark_failed, PositionRecord, PositionState
  <1>7. /\ restore_after_sell_attempt(p, previous) \in PositionRecord
        /\ suspend_auto_sell(p, previous) \in PositionRecord
    BY <1>1 DEF restore_after_sell_attempt, suspend_auto_sell, PositionRecord
  <1>8. apply_partial_sell(p, 1) \in PositionRecord
    BY <1>2 DEF apply_partial_sell, PositionRecord, PositionState
  <1> QED
    BY <1>3, <1>4, <1>5, <1>6, <1>7, <1>8

LEMMA NewPositionType == NewPosition(1, 0) \in PositionRecord
  BY PositionAssumption DEF NewPosition, PositionRecord, PositionState, Tokens

-----------------------------------------------------------------------------
(* Parts of the invariant that several actions leave alone, or change in   *)
(* the same way.                                                           *)

\* The prices with their peak.
PricesOK ==
    /\ price \in [entry : Prices, highest : Prices, current : Prices]
    /\ top \in Prices
    /\ price.highest = top /\ price.current <= top

\* The channel to the sell loop and the loop.
SellerOK ==
    /\ signals \in Seq(Reasons)
    /\ seller \in [step : {"idle", "mark", "sale"}, reason : Reasons, previous : PositionState]

\* The curve and its channel.
CurveOK ==
    /\ cached \in Prices \cup {0}
    /\ updates \in Seq(Prices)
    /\ moves \in 0 .. MaxMoves

\* The confirm task, and the price it is about to assign.
ConfirmOK ==
    /\ confirm \in [step : {"poll", "assign", "correct", "done"}, price : Prices \cup {0}]
    /\ CostIsPrice

RestOK ==
    group \in Settings /\ pos \in PositionRecord /\ {overdue, held, asking} \subseteq BOOLEAN

LEMMA Parts == IInv <=> PricesOK /\ SellerOK /\ CurveOK /\ ConfirmOK /\ RestOK
  BY DEF IInv, TypeOK, PeakIsOwn, PricesOK, SellerOK, CurveOK, ConfirmOK, RestOK

\* A signal keeps the type of the channel.
LEMMA SignalKeeps ==
    ASSUME SellerOK, NEW reason \in Reasons, Signal(reason)
    PROVE  signals' \in Seq(Reasons)
  BY DEF Signal, SellerOK

\* A price that is fed to the position moves the peak and its history alike.
LEMMA FeedKeeps ==
    ASSUME PricesOK, SellerOK, NEW now \in Prices, Feed(now), UNCHANGED seller
    PROVE  PricesOK' /\ SellerOK'
  <1>1. price' = [price EXCEPT !.current = now, !.highest = Greater(@, now)]
    BY DEF Feed, update_price
  <1>2. top' = Greater(top, now)
    BY DEF Feed
  <1>3. Greater(top, now) \in Prices /\ now <= Greater(top, now)
    BY GreaterPrice DEF PricesOK
  <1>4. PricesOK'
    BY <1>1, <1>2, <1>3 DEF PricesOK
  <1>5. signals' \in Seq(Reasons)
    <2>1. Signal("Auto") \/ UNCHANGED signals
      BY DEF Feed
    <2> QED
      BY <2>1, SignalKeeps DEF SellerOK, Reasons
  <1> QED
    BY <1>4, <1>5 DEF SellerOK

-----------------------------------------------------------------------------
LEMMA InitHolds == Init => IInv
  <1> SUFFICES ASSUME Init PROVE IInv
    OBVIOUS
  <1>1. PricesOK
    BY ExitsAssumption DEF Init, PricesOK
  <1>2. SellerOK
    BY DEF Init, SellerOK, Idle, Reasons, PositionState
  <1>3. CurveOK
    BY ExitsAssumption DEF Init, CurveOK
  <1>4. ConfirmOK
    BY DEF Init, ConfirmOK, CostIsPrice
  <1>5. RestOK
    <2>1. mark_submitted(NewPosition(1, 0)) \in PositionRecord
      BY NewPositionType, PositionMethods DEF PositionState
    <2>2. pos \in PositionRecord
      BY <2>1, PositionMethods DEF Init, PositionState
    <2> QED
      BY <2>2 DEF Init, RestOK
  <1> QED
    BY <1>1, <1>2, <1>3, <1>4, <1>5, Parts

LEMMA StepKeeps == IInv /\ [Next]_vars => IInv'
  <1> SUFFICES ASSUME IInv, [Next]_vars
               PROVE  IInv'
    OBVIOUS
  <1>0. PricesOK /\ SellerOK /\ CurveOK /\ ConfirmOK /\ RestOK
    BY Parts
  <1> SUFFICES PricesOK' /\ SellerOK' /\ CurveOK' /\ ConfirmOK' /\ RestOK'
    BY Parts, Zenon DEF IInv, TypeOK, PeakIsOwn, PricesOK, SellerOK, CurveOK, ConfirmOK, RestOK
  <1> USE DEF curve, clock, tasks
  <1>1. ASSUME UNCHANGED <<price, top>> PROVE PricesOK'
    BY <1>0, <1>1 DEF PricesOK
  <1>2. ASSUME UNCHANGED <<signals, seller>> PROVE SellerOK'
    BY <1>0, <1>2 DEF SellerOK
  <1>3. ASSUME UNCHANGED curve PROVE CurveOK'
    BY <1>0, <1>3 DEF CurveOK
  <1>4. ASSUME UNCHANGED confirm PROVE ConfirmOK'
    BY <1>0, <1>4 DEF ConfirmOK, CostIsPrice
  <1>5. ASSUME UNCHANGED <<group, clock, asking>>, pos' \in PositionRecord PROVE RestOK'
    BY <1>0, <1>5 DEF RestOK
  <1>6. pos \in PositionRecord
    BY <1>0 DEF RestOK
  <1>7. CASE CurveUpdate \/ CacheOverwritten
    <2>1. UNCHANGED <<group, pos, price, clock, tasks, signals, top>>
      BY <1>7 DEF CurveUpdate, CacheOverwritten, Move
    <2>2. moves' \in 0 .. MaxMoves
      BY <1>0, <1>7, ExitsAssumption DEF CurveUpdate, CacheOverwritten, Move, CurveOK
    <2>3. cached' \in Prices /\ updates' \in Seq(Prices)
      BY <1>0, <1>7 DEF CurveUpdate, CacheOverwritten, CurveOK
    <2> QED
      BY <2>1, <2>2, <2>3, <1>1, <1>2, <1>4, <1>5, <1>6 DEF CurveOK
  <1>8. CASE TimePasses
    <2>1. UNCHANGED <<group, pos, price, curve, tasks, signals, top>>
      BY <1>8 DEF TimePasses
    <2>2. RestOK'
      BY <1>0, <1>8, <2>1 DEF TimePasses, RestOK
    <2> QED
      BY <2>1, <2>2, <1>1, <1>2, <1>3, <1>4
  <1>9. CASE PriceMonitor
    <2>1. UNCHANGED <<group, pos, cached, moves, clock, tasks>>
      BY <1>9 DEF PriceMonitor
    <2>2. Head(updates) \in Prices /\ updates' \in Seq(Prices)
      BY <1>0, <1>9 DEF PriceMonitor, CurveOK
    <2>3. PricesOK' /\ SellerOK'
      BY <1>0, <1>9, <2>1, <2>2, FeedKeeps DEF PriceMonitor
    <2>4. CurveOK'
      BY <1>0, <2>1, <2>2 DEF CurveOK
    <2> QED
      BY <2>1, <2>3, <2>4, <1>4, <1>5, <1>6
  <1>10. CASE FallbackMonitor
    <2>1. UNCHANGED <<group, pos, curve, clock, tasks>>
      BY <1>10 DEF FallbackMonitor
    <2>2. PricesOK' /\ SellerOK'
      <3>1. CASE Overstays
        <4>1. Signal("Auto") /\ UNCHANGED <<price, top>>
          BY <1>10, <3>1 DEF FallbackMonitor
        <4>2. signals' \in Seq(Reasons)
          BY <1>0, <4>1, SignalKeeps DEF Reasons
        <4> QED
          BY <1>0, <2>1, <4>1, <4>2, <1>1 DEF SellerOK
      <3>2. CASE ~Overstays
        <4>1. cached # 0 /\ Feed(cached)
          BY <1>10, <3>2 DEF FallbackMonitor
        <4>2. cached \in Prices
          BY <1>0, <4>1 DEF CurveOK
        <4> QED
          BY <1>0, <2>1, <4>1, <4>2, FeedKeeps
      <3> QED
        BY <3>1, <3>2
    <2> QED
      BY <2>1, <2>2, <1>3, <1>4, <1>5, <1>6
  <1>11. CASE FallbackAsks
    <2>1. UNCHANGED <<group, pos, price, curve, clock, confirm, seller, signals, top>>
          /\ asking' = TRUE
      BY <1>11 DEF FallbackAsks
    <2>2. RestOK'
      BY <1>0, <2>1 DEF RestOK
    <2> QED
      BY <2>1, <2>2, <1>1, <1>2, <1>3, <1>4
  <1>12. CASE FallbackFails
    <2>1. UNCHANGED <<group, price, curve, clock, confirm, seller, signals, top>>
          /\ asking' = FALSE /\ pos' = mark_failed(pos)
      BY <1>12 DEF FallbackFails
    <2>2. pos' \in PositionRecord
      BY <1>6, <2>1, PositionMethods DEF PositionState
    <2>3. RestOK'
      BY <1>0, <2>1, <2>2 DEF RestOK
    <2> QED
      BY <2>1, <2>3, <1>1, <1>2, <1>3, <1>4
  <1>13. CASE AskedToSell
    <2>1. UNCHANGED <<group, pos, price, curve, clock, tasks, top>>
      BY <1>13 DEF AskedToSell
    <2>2. Signal("Manual") \/ Signal("Auto")
      BY <1>13 DEF AskedToSell
    <2>3. signals' \in Seq(Reasons)
      BY <1>0, <2>2, SignalKeeps DEF Reasons
    <2>4. SellerOK'
      BY <1>0, <2>1, <2>3 DEF SellerOK
    <2> QED
      BY <2>1, <2>4, <1>1, <1>3, <1>4, <1>5, <1>6
  <1>14. CASE ConfirmSees
    <2>1. UNCHANGED <<group, pos, price, curve, clock, asking, seller, signals, top>>
      BY <1>14 DEF ConfirmSees
    <2>2. confirm' \in [step : {"assign"}, price : IF cached # 0 THEN {cached} ELSE Prices]
      BY <1>14 DEF ConfirmSees
    <2>3. (IF cached # 0 THEN {cached} ELSE Prices) \subseteq Prices
      BY <1>0 DEF CurveOK
    <2>4. ConfirmOK'
      BY <2>2, <2>3 DEF ConfirmOK, CostIsPrice
    <2> QED
      BY <2>1, <2>4, <1>1, <1>2, <1>3, <1>5, <1>6
  <1>15. CASE ConfirmSucceeds
    <2>1. UNCHANGED <<group, curve, clock, asking, seller, signals>>
          /\ confirm' = [step |-> "correct", price |-> 0] /\ pos' = mark_active(pos, 1)
      BY <1>15 DEF ConfirmSucceeds
    <2>2. pos' \in PositionRecord
      BY <1>6, <2>1, PositionMethods DEF PositionState
    <2>3. confirm.price \in Prices
      BY <1>0, <1>15 DEF ConfirmSucceeds, ConfirmOK, CostIsPrice
    <2>4. ConfirmOK'
      BY <2>1 DEF ConfirmOK, CostIsPrice
    <2>5. CASE pos.state \in {"Submitted", "Confirming"}
      <3>1. price' = mark_active_price(confirm.price) /\ top' = confirm.price
        BY <1>15, <2>5 DEF ConfirmSucceeds
      <3>2. PricesOK'
        BY <2>3, <3>1, PriceNumbers DEF PricesOK, mark_active_price
      <3> QED
        BY <2>1, <2>2, <2>4, <3>2, <1>2, <1>3, <1>5
    <2>6. CASE pos.state \notin {"Submitted", "Confirming"}
      <3>1. UNCHANGED <<price, top>>
        BY <1>15, <2>6 DEF ConfirmSucceeds
      <3> QED
        BY <2>1, <2>2, <2>4, <3>1, <1>1, <1>2, <1>3, <1>5
    <2> QED
      BY <2>5, <2>6
  <1>16. CASE ConfirmFails
    <2>1. UNCHANGED <<group, price, curve, clock, asking, seller, signals, top>>
          /\ confirm' = [step |-> "done", price |-> 0] /\ pos' = mark_failed(pos)
      BY <1>16 DEF ConfirmFails
    <2>2. pos' \in PositionRecord
      BY <1>6, <2>1, PositionMethods DEF PositionState
    <2>3. ConfirmOK'
      BY <2>1 DEF ConfirmOK, CostIsPrice
    <2> QED
      BY <2>1, <2>2, <2>3, <1>1, <1>2, <1>3, <1>5
  <1>17. CASE CorrectEntry
    <2>1. UNCHANGED <<group, pos, curve, clock, asking, seller, signals>>
          /\ confirm' = [step |-> "done", price |-> 0]
      BY <1>17 DEF CorrectEntry
    <2>2. PICK real \in Prices :
             /\ price' = [price EXCEPT !.entry = real, !.highest = Greater(@, real)]
             /\ top' = Greater(top, real)
      BY <1>17 DEF CorrectEntry
    <2>3. Greater(top, real) \in Prices /\ top <= Greater(top, real)
      BY <1>0, GreaterPrice DEF PricesOK
    <2>4. PricesOK'
      <3>1. /\ price.current \in Nat /\ top \in Nat /\ Greater(top, real) \in Nat
            /\ price.current <= top /\ price.highest = top
        BY <1>0, <2>3, PriceNumbers DEF PricesOK
      <3>2. price.current <= Greater(top, real)
        BY <2>3, <3>1
      <3>3. /\ price' \in [entry : Prices, highest : Prices, current : Prices]
            /\ price'.highest = Greater(top, real) /\ price'.current = price.current
        BY <1>0, <2>2, <2>3 DEF PricesOK
      <3> QED
        BY <2>2, <2>3, <3>2, <3>3 DEF PricesOK
    <2>5. ConfirmOK'
      BY <2>1 DEF ConfirmOK, CostIsPrice
    <2> QED
      BY <2>1, <2>4, <2>5, <1>2, <1>3, <1>5, <1>6
  <1>18. CASE TakeSignal
    <2>1. UNCHANGED <<group, pos, price, curve, clock, confirm, asking, top>>
      BY <1>18 DEF TakeSignal
    <2>2. Head(signals) \in Reasons /\ signals' \in Seq(Reasons)
      BY <1>0, <1>18 DEF TakeSignal, SellerOK
    <2>3. SellerOK'
      <3>1. pos.state \in PositionState
        BY <1>6 DEF PositionRecord
      <3> QED
        BY <1>0, <1>18, <2>2, <3>1 DEF TakeSignal, SellerOK
    <2> QED
      BY <2>1, <2>3, <1>1, <1>3, <1>4, <1>5, <1>6
  <1>19. CASE MarkSelling
    <2>1. UNCHANGED <<group, price, curve, clock, confirm, asking, signals, top>>
          /\ pos' = mark_selling(pos)
      BY <1>19 DEF MarkSelling
    <2>2. pos' \in PositionRecord
      BY <1>6, <2>1, PositionMethods DEF PositionState
    <2>3. SellerOK'
      BY <1>0, <1>19, <2>1 DEF MarkSelling, SellerOK, Idle, Reasons, PositionState
    <2> QED
      BY <2>1, <2>2, <2>3, <1>1, <1>3, <1>4, <1>5
  <1>20. CASE SaleSucceeds \/ SaleFails
    <2>1. UNCHANGED <<group, price, curve, clock, confirm, asking, signals, top>>
          /\ seller' = Idle
      BY <1>20 DEF SaleSucceeds, SaleFails
    <2>2. pos' \in PositionRecord
      <3>1. seller.previous \in PositionState
        BY <1>0 DEF SellerOK
      <3>2. \/ pos' = mark_closed(pos)
            \/ pos' = apply_partial_sell(pos, 1)
            \/ pos' = suspend_auto_sell(pos, seller.previous)
            \/ pos' = restore_after_sell_attempt(pos, seller.previous)
        BY <1>20 DEF SaleSucceeds, SaleFails
      <3> QED
        BY <1>6, <3>1, <3>2, PositionMethods
    <2>3. SellerOK'
      BY <1>0, <2>1 DEF SellerOK, Idle, Reasons, PositionState
    <2> QED
      BY <2>1, <2>2, <2>3, <1>1, <1>3, <1>4, <1>5
  <1>21. CASE UNCHANGED vars
    BY <1>21, <1>1, <1>2, <1>3, <1>4, <1>5, <1>6 DEF vars
  <1> QED
    BY <1>7, <1>8, <1>9, <1>10, <1>11, <1>12, <1>13, <1>14, <1>15, <1>16, <1>17, <1>18,
       <1>19, <1>20, <1>21 DEF Next, ConfirmTask, SellLoop

\* The inductive invariant.
LEMMA ExitsInvariant == Spec => []IInv
  BY InitHolds, StepKeeps, PTL DEF Spec

\* Every variable keeps its type; a curve without a price (0) never reaches
\* the prices of the position.
THEOREM ExitsTypeOK == Spec => []TypeOK
  <1>1. IInv => TypeOK
    BY DEF IInv
  <1> QED
    BY <1>1, ExitsInvariant, PTL

\* The peak the trailing stop falls from is the highest of the cost and of the
\* prices since the buy was confirmed (update_price, mark_active,
\* update_entry_price in position.rs), whichever monitor is behind.
THEOREM ExitsPeakIsOwn == Spec => []PeakIsOwn
  <1>1. IInv => PeakIsOwn
    BY DEF IInv
  <1> QED
    BY <1>1, ExitsInvariant, PTL

=============================================================================
