--------------------------- MODULE AutoSellProofs ---------------------------
(* Theorems about the positions of a mint, for any number of groups, buys, *)
(* signals, retries and amounts, with or without failing queries, but for  *)
(* the last two, which say what they assume.                               *)
EXTENDS AutoSell, SequenceTheorems, TLAPS

\* A confirm task assigns only a growth of the balance.
SeenGrown ==
    \A g \in Groups : \A i \in 1 .. Len(buys[g]) :
        buys[g][i].task = "assign" => buys[g][i].seen > buys[g][i].pre

\* 1 when task t has closed the position of g and has not reported it yet.
ReportOf(t, g) == IF t.pc = "report" /\ t.group = g THEN 1 ELSE 0

\* How often the position of g was closed.
Sold(g) == closes[g] + ReportOf(worker[Loop], g) + ReportOf(worker[Bot], g)

\* Closed is a state that a position got, or that a task found and may put
\* back, only after it was sold out.
ClosedWasSold ==
    \A g \in Groups :
        /\ (positions[g] # Absent /\ positions[g].state = "Closed") => Sold(g) >= 1
        /\ \A w \in Workers :
                (worker[w].group = g /\ worker[w].previous = "Closed") => Sold(g) >= 1

TInv == TypeOK /\ SeenGrown

IInv == TInv /\ ClaimsBounded /\ ClosedWasSold

-----------------------------------------------------------------------------
(* Lemmas about the operators of Position.                                 *)

\* Every method leaves a well-formed record.
LEMMA PositionMethods ==
    ASSUME NEW p \in PositionRecord, NEW amount \in Tokens,
           NEW previous \in PositionState
    PROVE  /\ mark_active(p, amount) \in PositionRecord
           /\ mark_selling(p) \in PositionRecord
           /\ mark_closed(p) \in PositionRecord
           /\ mark_failed(p) \in PositionRecord
           /\ restore_after_sell_attempt(p, previous) \in PositionRecord
           /\ suspend_auto_sell(p, previous) \in PositionRecord
           /\ record_zero_balance_sell_skip(p) \in PositionRecord
           /\ apply_partial_sell(p, amount) \in PositionRecord
<1>1. /\ UpTo(MAX_AUTO_SELL_SIGNAL_ATTEMPTS, p.sell_attempts + 1)
            \in 0 .. MAX_AUTO_SELL_SIGNAL_ATTEMPTS
      /\ UpTo(MAX_ZERO_BALANCE_SKIPS, p.zero_balance_sell_skips + 1)
            \in 0 .. MAX_ZERO_BALANCE_SKIPS
      /\ MAX_AUTO_SELL_SIGNAL_ATTEMPTS \in 0 .. MAX_AUTO_SELL_SIGNAL_ATTEMPTS
      /\ 0 \in 0 .. MAX_ZERO_BALANCE_SKIPS
    BY PositionAssumption DEF PositionRecord, UpTo
<1>2. /\ p.token_amount \in Tokens
      /\ CanApplyPartialSell(p, amount) => p.token_amount - amount \in Tokens
    BY PositionAssumption DEF PositionRecord, Tokens, CanApplyPartialSell
<1>3. mark_active(p, amount) \in PositionRecord
    BY DEF mark_active, PositionRecord, PositionState
<1>4. mark_selling(p) \in PositionRecord
    BY <1>1 DEF mark_selling, PositionRecord, PositionState
<1>5. mark_closed(p) \in PositionRecord /\ mark_failed(p) \in PositionRecord
    BY DEF mark_closed, mark_failed, PositionRecord, PositionState
<1>6. /\ restore_after_sell_attempt(p, previous) \in PositionRecord
      /\ suspend_auto_sell(p, previous) \in PositionRecord
    BY <1>1 DEF restore_after_sell_attempt, suspend_auto_sell, PositionRecord
<1>7. record_zero_balance_sell_skip(p) \in PositionRecord
    BY <1>1 DEF record_zero_balance_sell_skip, PositionRecord
<1>8. apply_partial_sell(p, amount) \in PositionRecord
    BY <1>2 DEF apply_partial_sell, PositionRecord, PositionState
<1>9. QED
    BY <1>3, <1>4, <1>5, <1>6, <1>7, <1>8

\* A new position is well formed and waits for its confirmation.
LEMMA OpenedPosition ==
    ASSUME NEW estimate \in Tokens, NEW pre \in Tokens
    PROVE  LET p == mark_confirming(mark_submitted(NewPosition(estimate, pre)))
           IN  p \in PositionRecord /\ p.state = "Confirming"
<1>1. /\ 0 \in 0 .. MAX_AUTO_SELL_SIGNAL_ATTEMPTS
      /\ 0 \in 0 .. MAX_ZERO_BALANCE_SKIPS
    BY PositionAssumption
<1>2. QED
    BY <1>1 DEF mark_confirming, mark_submitted, NewPosition, PositionRecord,
                PositionState

-----------------------------------------------------------------------------
(* Lemmas about the updates of the variables.                              *)

Map == [Groups -> PositionRecord \cup {Absent}]

\* get_mut and a method: only the position under the key changes, and an
\* absent one stays absent.
LEMMA PutEffect ==
    ASSUME positions \in Map, NEW g, NEW p, Put(g, p),
           g \in Groups /\ positions[g] # Absent => p \in PositionRecord
    PROVE  /\ positions' \in Map
           /\ \A h \in Groups : h # g => positions'[h] = positions[h]
           /\ g \in Groups => positions'[g] = IF positions[g] = Absent
                                                THEN Absent ELSE p
           /\ g \in Groups => (positions'[g] = Absent <=> positions[g] = Absent)
BY AutoSellAssumption DEF Put, Map

\* One buy record changes, the number of buys does not.
LEMMA SetBuyEffect ==
    ASSUME buys \in [Groups -> Seq(BuyRecord)], NEW g \in Groups,
           NEW i \in 1 .. Len(buys[g]), NEW b \in BuyRecord, SetBuy(g, i, b)
    PROVE  /\ buys' \in [Groups -> Seq(BuyRecord)]
           /\ \A h \in Groups : Len(buys'[h]) = Len(buys[h])
           /\ \A h \in Groups : \A j \in 1 .. Len(buys[h]) :
                buys'[h][j] = IF h = g /\ j = i THEN b ELSE buys[h][j]
BY DEF SetBuy

\* A task that becomes another leaves the other tasks as they are.
LEMMA BecomeEffect ==
    ASSUME worker \in [Workers -> Task], NEW w \in Workers, NEW t \in Task,
           Become(w, t)
    PROVE  /\ worker' \in [Workers -> Task]
           /\ worker'[w] = t
           /\ \A v \in Workers : v # w => worker'[v] = worker[v]
BY DEF Become

\* A task that only moves on keeps its locals.
LEMMA JumpEffect ==
    ASSUME worker \in [Workers -> Task], NEW w \in Workers, NEW pc \in Points,
           Jump(w, pc)
    PROVE  /\ worker' \in [Workers -> Task]
           /\ worker'[w] = [worker[w] EXCEPT !.pc = pc]
           /\ \A v \in Workers : v # w => worker'[v] = worker[v]
BY DEF Jump, Task

\* An idle worker is a task like any other.
LEMMA IdleTask == Idle \in Task
BY AutoSellAssumption, PositionAssumption
   DEF Idle, Task, Points, Holding, Reasons, PositionState, Tokens, Venues

\* The ways a sale goes on are tasks.
LEMMA TaskUpdates ==
    ASSUME NEW t \in Task
    PROVE  /\ NextAttempt(t) \in Task
           /\ OnChainError(t) \in Task
           /\ [t EXCEPT !.pc = "fallback", !.venue = "instead"] \in Task
           /\ [t EXCEPT !.pc = "fallback", !.venue = "after"] \in Task
<1>1. t.attempt < MAX_SELL_RETRIES => t.attempt + 1 \in 0 .. MAX_SELL_RETRIES
    BY AutoSellAssumption DEF Task
<1>2. NextAttempt(t) \in Task
    BY <1>1 DEF Task, NextAttempt, Points, Holding, Venues
<1>3. OnChainError(t) \in Task
    BY DEF Task, OnChainError, Points, Holding
<1>4. QED
    BY <1>2, <1>3 DEF Task, Points, Holding, Venues

\* What a handler takes from the map when it begins.
LEMMA SnapshotTask ==
    ASSUME positions \in Map, NEW g \in Groups, positions[g] # Absent,
           NEW reason \in Reasons
    PROVE  Snapshot(g, reason) \in Task
BY IdleTask DEF Snapshot, Task, Idle, Map, PositionRecord, Points

\* A percentage of an amount is no more than the amount.
LEMMA PercentOf ==
    ASSUME NEW amount \in Tokens, NEW percent \in 1 .. 100
    PROVE  (amount * percent) \div 100 \in Tokens
<1>1. amount \in Nat /\ MaxTokens \in Nat /\ amount <= MaxTokens
    BY PositionAssumption DEF Tokens
<1>2. amount * percent \in Nat /\ amount * percent <= amount * 100
    BY <1>1
<1>3. QED
    BY <1>1, <1>2 DEF Tokens

\* The transactions of a task that ended are still transactions.
LEMMA OrphanedType ==
    ASSUME txs \subseteq SellTx, NEW w
    PROVE  Orphaned(w) \subseteq SellTx
BY DEF Orphaned, SellTx

\* Sending adds transactions only.
LEMMA SentType ==
    ASSUME NEW left \in SUBSET SellTx, NEW owner \in Workers \cup {Absent},
           NEW t \in Task, Sent(owner, left, t)
    PROVE  txs' \subseteq SellTx
BY DEF Sent, SellTx, Task

\* The balances read from the chain, the cache or the default are amounts.
LEMMA BalanceTypes ==
    ASSUME ata \in Tokens, cache \in Tokens \cup {Absent}
    PROVE  /\ RpcBalance \subseteq Tokens
           /\ KnownBalance \subseteq Tokens
           /\ CachedBefore \in Tokens
BY PositionAssumption DEF RpcBalance, KnownBalance, CachedBefore, Tokens

-----------------------------------------------------------------------------
(* The type invariant.                                                     *)

\* Nothing was bought at the start.
LEMMA InitTypes == Init => TInv
BY AutoSellAssumption, PositionAssumption, IdleTask
   DEF Init, TInv, TypeOK, SeenGrown, Tokens

\* What a step that leaves the buys alone has to show.
LEMMA TypesKept ==
    ASSUME TInv, UNCHANGED buys,
           positions' \in Map, ata' \in Tokens, cache' \in Tokens \cup {Absent},
           txs' \subseteq SellTx, signals' \in Seq(Signal),
           worker' \in [Workers -> Task],
           fallback' \in Confirmation \cup {Absent}, hung' \in Groups \cup {Absent},
           closes' \in [Groups -> Nat]
    PROVE  TInv'
BY DEF TInv, TypeOK, SeenGrown, Map

\* What a step that changes one buy record has to show.
LEMMA TypesOfBuy ==
    ASSUME TInv, NEW g \in Groups, NEW i \in 1 .. Len(buys[g]),
           NEW b \in BuyRecord, SetBuy(g, i, b),
           b.task = "assign" => b.seen > b.pre,
           positions' \in Map, ata' \in Tokens,
           UNCHANGED <<cache, txs, signals, worker, fallback, hung, closes>>
    PROVE  TInv'
<1>1. buys \in [Groups -> Seq(BuyRecord)]
    BY DEF TInv, TypeOK
<1>2. SeenGrown'
  <2>1. /\ \A h \in Groups : Len(buys'[h]) = Len(buys[h])
        /\ \A h \in Groups : \A j \in 1 .. Len(buys[h]) :
                buys'[h][j] = IF h = g /\ j = i THEN b ELSE buys[h][j]
    BY <1>1, SetBuyEffect
  <2>2. QED
    BY <2>1 DEF TInv, SeenGrown
<1>3. QED
    BY <1>1, <1>2, SetBuyEffect DEF TInv, TypeOK, Map

\* The amount a confirmed position is given is one the wallet can hold.
LEMMA AssignedType ==
    ASSUME TInv, NEW g \in Groups, NEW i \in 1 .. Len(buys[g]),
           buys[g][i].task = "assign"
    PROVE  Assigned(buys[g][i]) \in Tokens
<1>1. buys[g][i] \in BuyRecord
    BY DEF TInv, TypeOK
<1>2. /\ buys[g][i].seen \in Tokens /\ buys[g][i].pre \in Tokens
      /\ buys[g][i].estimate \in Tokens
    BY <1>1 DEF BuyRecord
<1>3. buys[g][i].seen > buys[g][i].pre
    BY DEF TInv, SeenGrown
<1>4. buys[g][i].seen - buys[g][i].pre \in Tokens
    BY <1>2, <1>3, PositionAssumption DEF Tokens
<1>5. QED
    BY <1>2, <1>4 DEF Assigned

\* The buy, its confirmation and the transaction keep the types.
LEMMA BuyTypes ==
    ASSUME TInv, NEW g \in Groups, Buying(g)
    PROVE  TInv'
<1>1. /\ positions \in Map /\ ata \in Tokens
      /\ buys \in [Groups -> Seq(BuyRecord)]
      /\ cache \in Tokens \cup {Absent}
    BY DEF TInv, TypeOK, Map
<1>2. ASSUME NEW i \in 1 .. Len(buys[g])
      PROVE  /\ buys[g][i] \in BuyRecord
             /\ Done(buys[g][i]) \in BuyRecord
             /\ Done(buys[g][i]).task # "assign"
  <2>1. buys[g][i] \in BuyRecord
    BY <1>1
  <2>2. 0 \in Tokens
    BY PositionAssumption DEF Tokens
  <2>3. QED
    BY <2>1, <2>2 DEF BuyRecord, Done
<1>3. CASE Buy(g)
  <2>1. PICK estimate \in Estimates :
          /\ positions' = [positions EXCEPT ![g] =
                mark_confirming(mark_submitted(NewPosition(estimate, CachedBefore)))]
          /\ buys' = [buys EXCEPT ![g] =
                Append(@, [tx |-> "sent", estimate |-> estimate,
                           pre |-> CachedBefore, post |-> 0,
                           task |-> "poll", seen |-> 0])]
    BY <1>3 DEF Buy
  <2>2. estimate \in Tokens /\ CachedBefore \in Tokens /\ 0 \in Tokens
    BY <1>1, BalanceTypes, AutoSellAssumption, PositionAssumption DEF Tokens
  <2>3. positions' \in Map
    BY <1>1, <2>1, <2>2, OpenedPosition DEF Map
  <2> DEFINE b == [tx |-> "sent", estimate |-> estimate, pre |-> CachedBefore,
                   post |-> 0, task |-> "poll", seen |-> 0]
  <2>4. b \in BuyRecord
    BY <2>2 DEF BuyRecord
  <2>5. /\ buys' \in [Groups -> Seq(BuyRecord)]
        /\ buys'[g] = Append(buys[g], b)
        /\ \A h \in Groups : h # g => buys'[h] = buys[h]
    BY <1>1, <2>1, <2>4
  <2>6. SeenGrown'
    <3> SUFFICES ASSUME NEW h \in Groups, NEW i \in 1 .. Len(buys'[h]),
                        buys'[h][i].task = "assign"
                 PROVE  buys'[h][i].seen > buys'[h][i].pre
        BY DEF SeenGrown
    <3>1. CASE h # g
        BY <2>5, <3>1 DEF TInv, SeenGrown
    <3>2. CASE h = g
      <4>1. /\ Len(buys[g]) \in Nat /\ Len(buys'[g]) = Len(buys[g]) + 1
            /\ i # Len(buys[g]) + 1 => buys'[g][i] = buys[g][i]
            /\ i = Len(buys[g]) + 1 => buys'[g][i] = b
        BY <1>1, <2>4, <2>5, <3>2
      <4>2. i \in 1 .. Len(buys[g])
        BY <3>2, <4>1
      <4>3. QED
        BY <3>2, <4>1, <4>2 DEF TInv, SeenGrown
    <3>3. QED
        BY <3>1, <3>2
  <2>7. QED
    BY <1>3, <2>3, <2>5, <2>6 DEF Buy, TInv, TypeOK, Map
<1>4. ASSUME NEW i \in 1 .. Len(buys[g]), BuyLands(g, i)
      PROVE  TInv'
  <2>1. PICK fill \in Fills : ata + fill <= MaxTokens /\ ata' = ata + fill /\
            SetBuy(g, i, [buys[g][i] EXCEPT
                !.tx = "landed",
                !.post = IF buys[g][i].task \in {"poll", "late"}
                           THEN ata + fill ELSE 0])
    BY <1>4 DEF BuyLands
  <2>2. ata + fill \in Tokens /\ 0 \in Tokens
    BY <1>1, <2>1, AutoSellAssumption, PositionAssumption DEF Tokens
  <2> DEFINE b == [buys[g][i] EXCEPT
                !.tx = "landed",
                !.post = IF buys[g][i].task \in {"poll", "late"}
                           THEN ata + fill ELSE 0]
  <2>3. b \in BuyRecord /\ (b.task = "assign" => b.seen > b.pre)
    BY <1>2, <2>2 DEF BuyRecord, TInv, SeenGrown
  <2>4. SetBuy(g, i, b)
    BY <2>1
  <2> HIDE DEF b
  <2>5. QED
    BY <1>1, <1>4, <2>1, <2>2, <2>3, <2>4, TypesOfBuy DEF BuyLands
<1>5. ASSUME NEW i \in 1 .. Len(buys[g]), BuyFails(g, i)
      PROVE  TInv'
  <2> DEFINE b == [buys[g][i] EXCEPT !.tx = "failed"]
  <2>1. b \in BuyRecord /\ (b.task = "assign" => b.seen > b.pre)
    BY <1>2 DEF BuyRecord, TInv, SeenGrown
  <2>2. SetBuy(g, i, b)
    BY <1>5 DEF BuyFails
  <2> HIDE DEF b
  <2>3. QED
    BY <1>1, <1>5, <2>1, <2>2, TypesOfBuy DEF BuyFails
<1>6. ASSUME NEW i \in 1 .. Len(buys[g]), ConfirmSees(g, i)
      PROVE  TInv'
  <2>1. PICK balance \in {ata} \cup ({cache} \ {Absent}) :
            /\ Grown(balance, buys[g][i].pre)
            /\ SetBuy(g, i, [buys[g][i] EXCEPT !.task = "assign", !.seen = balance,
                                               !.post = 0])
    BY <1>6 DEF ConfirmSees
  <2> DEFINE b == [buys[g][i] EXCEPT !.task = "assign", !.seen = balance, !.post = 0]
  <2>2. balance \in Tokens /\ 0 \in Tokens
    BY <1>1, PositionAssumption DEF Tokens
  <2>3. b \in BuyRecord /\ b.seen > b.pre
    BY <1>2, <2>1, <2>2 DEF BuyRecord, Grown
  <2>4. SetBuy(g, i, b)
    BY <2>1
  <2> HIDE DEF b
  <2>5. QED
    BY <1>1, <1>6, <2>3, <2>4, TypesOfBuy DEF ConfirmSees
<1>7. ASSUME NEW i \in 1 .. Len(buys[g]), ConfirmIsLate(g, i)
      PROVE  TInv'
  <2> DEFINE b == [buys[g][i] EXCEPT !.task = "late"]
  <2>1. b \in BuyRecord /\ b.task # "assign"
    BY <1>2 DEF BuyRecord
  <2>2. SetBuy(g, i, b)
    BY <1>7 DEF ConfirmIsLate
  <2> HIDE DEF b
  <2>3. QED
    BY <1>1, <1>7, <2>1, <2>2, TypesOfBuy DEF ConfirmIsLate
<1>8. ASSUME NEW i \in 1 .. Len(buys[g]), ConfirmReadsTransaction(g, i)
      PROVE  TInv'
  <2> DEFINE b == [buys[g][i] EXCEPT !.task = "assign", !.seen = buys[g][i].post,
                                     !.post = 0]
  <2>1. 0 \in Tokens
    BY PositionAssumption DEF Tokens
  <2>2. b \in BuyRecord /\ b.seen > b.pre
    BY <1>2, <1>8, <2>1 DEF BuyRecord, Grown, ConfirmReadsTransaction
  <2>3. SetBuy(g, i, b)
    BY <1>8 DEF ConfirmReadsTransaction
  <2> HIDE DEF b
  <2>4. QED
    BY <1>1, <1>8, <2>2, <2>3, TypesOfBuy DEF ConfirmReadsTransaction
<1>9. ASSUME NEW i \in 1 .. Len(buys[g]), ConfirmFails(g, i)
      PROVE  TInv'
  <2>1. SetBuy(g, i, Done(buys[g][i])) /\ Put(g, mark_failed(positions[g]))
    BY <1>9 DEF ConfirmFails
  <2>2. positions[g] # Absent => mark_failed(positions[g]) \in PositionRecord
    BY <1>1, PositionMethods, PositionAssumption DEF Map, Tokens, PositionState
  <2>3. positions' \in Map
    BY <1>1, <2>1, <2>2, PutEffect
  <2>4. QED
    BY <1>1, <1>2, <1>9, <2>1, <2>3, TypesOfBuy DEF ConfirmFails
<1>10. ASSUME NEW i \in 1 .. Len(buys[g]), ConfirmSucceeds(g, i)
       PROVE  TInv'
  <2> DEFINE a == Assigned(buys[g][i])
  <2>1. SetBuy(g, i, Done(buys[g][i])) /\ Put(g, mark_active(positions[g], a))
    BY <1>10 DEF ConfirmSucceeds
  <2>2. a \in Tokens
    BY <1>10, AssignedType DEF ConfirmSucceeds
  <2> HIDE DEF a
  <2>3. positions[g] # Absent => mark_active(positions[g], a) \in PositionRecord
    BY <1>1, <2>2, PositionMethods DEF Map, PositionState
  <2>4. positions' \in Map
    BY <1>1, <2>1, <2>3, PutEffect
  <2>5. QED
    BY <1>1, <1>2, <1>10, <2>1, <2>4, TypesOfBuy DEF ConfirmSucceeds
<1>11. QED
    BY <1>3, <1>4, <1>5, <1>6, <1>7, <1>8, <1>9, <1>10 DEF Buying

\* So do the fallback monitor and the reaper.
LEMMA MonitorTypes ==
    ASSUME TInv, Monitor
    PROVE  TInv'
<1>1. /\ positions \in Map /\ ata \in Tokens /\ cache \in Tokens \cup {Absent}
      /\ fallback \in Confirmation \cup {Absent}
    BY DEF TInv, TypeOK, Map
<1>2. ASSUME NEW g \in Groups, FallbackAsks(g)
      PROVE  TInv'
  <2>1. fallback' \in Confirmation
    BY <1>1, <1>2, BalanceTypes DEF FallbackAsks, Confirmation
  <2>2. QED
    BY <1>2, <2>1, TypesKept DEF FallbackAsks, TInv, TypeOK, Map
<1>3. ASSUME NEW g \in Groups, Reap(g)
      PROVE  TInv'
  <2>1. positions' \in Map
    BY <1>1, <1>3 DEF Reap, Map
  <2>2. QED
    BY <1>3, <2>1, TypesKept DEF Reap, TInv, TypeOK, Map
<1>4. CASE FallbackFails
  <2> DEFINE g == fallback.group
  <2>1. g \in Groups /\ Put(g, mark_failed(positions[g]))
    BY <1>1, <1>4 DEF FallbackFails, Confirmation
  <2>2. positions[g] # Absent => mark_failed(positions[g]) \in PositionRecord
    BY <1>1, <2>1, PositionMethods, PositionAssumption DEF Map, Tokens, PositionState
  <2> HIDE DEF g
  <2>3. positions' \in Map
    BY <1>1, <2>1, <2>2, PutEffect
  <2>4. QED
    BY <1>4, <2>3, TypesKept DEF FallbackFails, TInv, TypeOK
<1>5. CASE FallbackHangs
  <2>1. hung' \in Groups
    BY <1>1, <1>5 DEF FallbackHangs, Confirmation
  <2>2. QED
    BY <1>5, <2>1, TypesKept DEF FallbackHangs, TInv, TypeOK, Map
<1>6. QED
    BY <1>2, <1>3, <1>4, <1>5 DEF Monitor

\* So does whoever asks for a sale.
LEMMA AskTypes ==
    ASSUME TInv, NEW g \in Groups, Asking(g)
    PROVE  TInv'
<1>1. PICK reason \in Reasons : Ask(g, reason)
    BY DEF Asking, PriceExit, LifetimeExit, FollowExit, SellAll, Reasons
<1>2. [group |-> g, reason |-> reason] \in Signal
    BY DEF Signal
<1>3. signals' \in Seq(Signal)
    BY <1>1, <1>2 DEF Ask, TInv, TypeOK
<1>4. QED
    BY <1>1, <1>3, TypesKept DEF Ask, TInv, TypeOK, Map

\* So does a worker that takes a request.
LEMMA BeginTypes ==
    ASSUME TInv,
           \/ BeginSignal
           \/ \E g \in Groups : Commanding(g)
    PROVE  TInv'
<1>1. /\ positions \in Map /\ worker \in [Workers -> Task]
      /\ signals \in Seq(Signal)
      /\ Loop \in Workers /\ Bot \in Workers
    BY DEF TInv, TypeOK, Map, Workers
<1>2. CASE BeginSignal
  <2>1. Head(signals) \in Signal /\ signals' \in Seq(Signal)
    BY <1>1, <1>2 DEF BeginSignal
  <2> DEFINE s == Head(signals)
  <2>2. positions[s.group] # Absent => Snapshot(s.group, s.reason) \in Task
    BY <1>1, <2>1, SnapshotTask DEF Signal
  <2>3. worker' \in [Workers -> Task]
    BY <1>1, <1>2, <2>2, BecomeEffect DEF BeginSignal
  <2>4. QED
    BY <1>2, <2>1, <2>3, TypesKept DEF BeginSignal, TInv, TypeOK, Map
<1>3. ASSUME NEW g \in Groups, BeginManual(g)
      PROVE  TInv'
  <2>1. Snapshot(g, "Manual") \in Task
    BY <1>1, <1>3, SnapshotTask DEF BeginManual, Reasons
  <2>2. worker' \in [Workers -> Task]
    BY <1>1, <1>3, <2>1, BecomeEffect DEF BeginManual
  <2>3. QED
    BY <1>3, <2>2, TypesKept DEF BeginManual, TInv, TypeOK, Map
<1>4. ASSUME NEW g \in Groups, NEW percent \in Percents, BeginPartial(g, percent)
      PROVE  TInv'
  <2> DEFINE t == Snapshot(g, "Manual")
             u == [t EXCEPT !.pc = "partial_mark", !.have = 0,
                            !.amount = (t.have * percent) \div 100]
  <2>1. t \in Task
    BY <1>1, <1>4, SnapshotTask DEF BeginPartial, Reasons
  <2>2. t.have \in Tokens /\ 0 \in Tokens /\ percent \in 1 .. 100
    BY <2>1, AutoSellAssumption, PositionAssumption DEF Task, Tokens
  <2>3. (t.have * percent) \div 100 \in Tokens
    BY <2>2, PercentOf
  <2>4. Become(Bot, u)
    BY <1>4 DEF BeginPartial
  <2>5. u \in Task
    <3> HIDE DEF t
    <3>1. QED
        BY <2>1, <2>2, <2>3 DEF Task, Points
  <2> HIDE DEF u
  <2>6. worker' \in [Workers -> Task]
    BY <1>1, <2>4, <2>5, BecomeEffect
  <2>7. QED
    BY <1>4, <2>6, TypesKept DEF BeginPartial, TInv, TypeOK, Map
<1>5. QED
    BY <1>2, <1>3, <1>4 DEF Commanding

\* So does each step of a sale.
LEMMA WorkTypes ==
    ASSUME TInv, NEW w \in Workers, Work(w)
    PROVE  TInv'
<1> DEFINE t == worker[w]
           p == positions[t.group]
<1>1. /\ positions \in Map /\ worker \in [Workers -> Task] /\ t \in Task
      /\ ata \in Tokens /\ cache \in Tokens \cup {Absent}
      /\ txs \subseteq SellTx
    BY DEF TInv, TypeOK, Map
<1>2. t.group \in Groups /\ p # Absent => p \in PositionRecord
    BY <1>1 DEF Map
<1>3. 0 \in Tokens /\ t.previous \in PositionState /\ t.amount \in Tokens
    BY <1>1, PositionAssumption DEF Task, Tokens
<1>4. ASSUME NEW q, Put(t.group, q),
             t.group \in Groups /\ p # Absent => q \in PositionRecord
      PROVE  positions' \in Map
    BY <1>1, <1>4, PutEffect
<1>5. ASSUME NEW u \in Task, Become(w, u)
      PROVE  worker' \in [Workers -> Task]
    BY <1>1, <1>5, BecomeEffect
<1>6. ASSUME NEW pc \in Points, Jump(w, pc)
      PROVE  worker' \in [Workers -> Task]
    BY <1>1, <1>6, JumpEffect
<1>7. CASE ReadBalance(w)
  <2>1. PICK balance \in KnownBalance :
          LET amount == ToSell(t.have, balance)
          IN  IF amount > 0
                THEN /\ Become(w, [t EXCEPT !.pc = "mark", !.have = 0,
                                            !.amount = amount,
                                            !.expected = balance - amount])
                     /\ UNCHANGED positions
                ELSE /\ Put(t.group, record_zero_balance_sell_skip(p))
                     /\ Jump(w, "zero") \/ Become(w, Idle)
    BY <1>7 DEF ReadBalance
  <2> DEFINE amount == ToSell(t.have, balance)
             u == [t EXCEPT !.pc = "mark", !.have = 0, !.amount = amount,
                            !.expected = balance - amount]
  <2>2. balance \in Tokens /\ t.have \in Tokens
    BY <1>1, BalanceTypes DEF Task
  <2>3. amount \in Tokens /\ balance - amount \in Tokens
    BY <2>2, PositionAssumption DEF ToSell, MinOf, Tokens
  <2>4. u \in Task
    <3> HIDE DEF t, amount
    <3>1. QED
        BY <1>1, <1>3, <2>3 DEF Task, Points
  <2>5. CASE amount > 0
    <3>1. Become(w, u) /\ UNCHANGED positions
        BY <2>1, <2>5
    <3> HIDE DEF u
    <3>2. worker' \in [Workers -> Task]
        BY <1>5, <2>4, <3>1
    <3>3. QED
        BY <1>1, <1>7, <3>1, <3>2, TypesKept DEF ReadBalance, TInv, TypeOK
  <2>6. CASE ~(amount > 0)
    <3>1. /\ Put(t.group, record_zero_balance_sell_skip(p))
          /\ Jump(w, "zero") \/ Become(w, Idle)
        BY <2>1, <2>6
    <3>2. worker' \in [Workers -> Task]
        BY <1>5, <1>6, <3>1, IdleTask DEF Points
    <3>3. positions' \in Map
        BY <1>2, <1>3, <1>4, <3>1, PositionMethods
    <3>4. QED
        BY <1>7, <3>2, <3>3, TypesKept DEF ReadBalance, TInv, TypeOK
  <2>7. QED
    BY <2>5, <2>6
<1>8. CASE FailZero(w)
  <2>1. positions' \in Map
    BY <1>2, <1>3, <1>4, <1>8, PositionMethods DEF FailZero
  <2>2. worker' \in [Workers -> Task]
    BY <1>5, <1>8, IdleTask DEF FailZero
  <2>3. QED
    BY <1>8, <2>1, <2>2, TypesKept DEF FailZero, TInv, TypeOK
<1>9. CASE MarkSelling(w)
  <2>1. positions' \in Map
    BY <1>2, <1>3, <1>4, <1>9, PositionMethods DEF MarkSelling
  <2>2. 1 \in 0 .. MAX_SELL_RETRIES
    BY AutoSellAssumption
  <2>3. ASSUME NEW venue \in {"curve", "jupiter"}
        PROVE  [t EXCEPT !.pc = "send", !.attempt = 1, !.venue = venue] \in Task
    <3> HIDE DEF t
    <3>1. QED
        BY <1>1, <2>2 DEF Task, Points, Holding, Venues
  <2>4. worker' \in [Workers -> Task]
    BY <1>5, <1>9, <2>3, IdleTask DEF MarkSelling
  <2>5. QED
    BY <1>9, <2>1, <2>4, TypesKept DEF MarkSelling, TInv, TypeOK
<1>10. Orphaned(w) \subseteq SellTx
    BY <1>1, OrphanedType
<1>11. Sent(w, Orphaned(w), t) => txs' \subseteq SellTx
    BY <1>1, <1>10, SentType
<1>12. CASE SendSell(w)
  <2>1. txs' \subseteq SellTx
    BY <1>1, <1>11, <1>12 DEF SendSell
  <2>2. worker' \in [Workers -> Task]
    BY <1>1, <1>5, <1>6, <1>12, TaskUpdates DEF SendSell, Points, Holding
  <2>3. QED
    BY <1>12, <2>1, <2>2, TypesKept DEF SendSell, TInv, TypeOK, Map
<1>13. CASE SendFallback(w)
  <2>1. txs' \subseteq SellTx
    BY <1>1, <1>11, <1>13 DEF SendFallback
  <2>2. worker' \in [Workers -> Task]
    BY <1>1, <1>5, <1>6, <1>13, TaskUpdates DEF SendFallback, Points, Holding
  <2>3. QED
    BY <1>13, <2>1, <2>2, TypesKept DEF SendFallback, TInv, TypeOK, Map
<1>14. CASE SeesSold(w)
  <2>1. worker' \in [Workers -> Task]
    BY <1>6, <1>14 DEF SeesSold, Points, Holding
  <2>2. QED
    BY <1>14, <2>1, TypesKept DEF SeesSold, TInv, TypeOK, Map
<1>15. CASE SeesError(w)
  <2>1. txs' \subseteq SellTx
    BY <1>1, <1>15 DEF SeesError
  <2>2. worker' \in [Workers -> Task]
    BY <1>1, <1>5, <1>15, TaskUpdates DEF SeesError
  <2>3. QED
    BY <1>15, <2>1, <2>2, TypesKept DEF SeesError, TInv, TypeOK, Map
<1>16. CASE SeesNothing(w)
  <2>1. worker' \in [Workers -> Task]
    BY <1>1, <1>5, <1>16, TaskUpdates DEF SeesNothing
  <2>2. QED
    BY <1>16, <2>1, TypesKept DEF SeesNothing, TInv, TypeOK, Map
<1>17. CASE Settle(w)
  <2>1. positions' \in Map
    BY <1>2, <1>3, <1>4, <1>17, PositionMethods DEF Settle
  <2>2. worker' \in [Workers -> Task]
    BY <1>6, <1>17 DEF Settle, Points, Holding
  <2>3. QED
    BY <1>17, <2>1, <2>2, TypesKept DEF Settle, TInv, TypeOK
<1>18. CASE Report(w)
  <2>1. cache' \in Tokens \cup {Absent}
    BY <1>1, <1>18 DEF Report
  <2>2. closes' \in [Groups -> Nat]
    <3>1. closes \in [Groups -> Nat]
        BY DEF TInv, TypeOK
    <3>2. ASSUME NEW g
          PROVE  [closes EXCEPT ![g] = @ + 1] \in [Groups -> Nat]
        <4>1. \A h \in Groups : closes[h] + 1 \in Nat
            BY <3>1
        <4>2. QED
            BY <3>1, <4>1
    <3>3. QED
        BY <1>18, <3>1, <3>2 DEF Report
  <2>3. worker' \in [Workers -> Task]
    BY <1>5, <1>18, IdleTask DEF Report
  <2>4. QED
    BY <1>10, <1>18, <2>1, <2>2, <2>3, TypesKept DEF Report, TInv, TypeOK, Map
<1>19. CASE GiveUp(w)
  <2>1. positions' \in Map
    BY <1>2, <1>3, <1>4, <1>19, PositionMethods DEF GiveUp
  <2>2. worker' \in [Workers -> Task]
    BY <1>5, <1>19, IdleTask DEF GiveUp
  <2>3. QED
    BY <1>10, <1>19, <2>1, <2>2, TypesKept DEF GiveUp, TInv, TypeOK
<1>20. QED
    BY <1>7, <1>8, <1>9, <1>12, <1>13, <1>14, <1>15, <1>16, <1>17, <1>18, <1>19
       DEF Work

\* So does each step of a partial sale.
LEMMA PartialTypes ==
    ASSUME TInv, PartialWork
    PROVE  TInv'
<1> DEFINE t == worker[Bot]
           p == positions[t.group]
<1>1. /\ positions \in Map /\ worker \in [Workers -> Task] /\ t \in Task
      /\ txs \subseteq SellTx /\ Bot \in Workers
    BY DEF TInv, TypeOK, Map, Workers
<1>2. t.group \in Groups /\ p # Absent => p \in PositionRecord
    BY <1>1 DEF Map
<1>3. t.previous \in PositionState /\ t.amount \in Tokens
    BY <1>1 DEF Task
<1>4. CASE MarkPartial
  <2>1. positions' \in Map
    BY <1>1, <1>2, <1>3, <1>4, PutEffect, PositionMethods DEF MarkPartial
  <2>2. worker' \in [Workers -> Task]
    BY <1>1, <1>4, BecomeEffect, JumpEffect, IdleTask
       DEF MarkPartial, Points, Holding
  <2>3. QED
    BY <1>4, <2>1, <2>2, TypesKept DEF MarkPartial, TInv, TypeOK
<1>5. CASE SendPartial
  <2>1. txs' \subseteq SellTx
    BY <1>1, <1>5, SentType DEF SendPartial
  <2>2. worker' \in [Workers -> Task]
    BY <1>1, <1>5, JumpEffect DEF SendPartial, Points, Holding
  <2>3. QED
    BY <1>5, <2>1, <2>2, TypesKept DEF SendPartial, TInv, TypeOK, Map
<1>6. CASE EndPartial
  <2>1. positions' \in Map
    BY <1>1, <1>2, <1>3, <1>6, PutEffect, PositionMethods DEF EndPartial
  <2>2. worker' \in [Workers -> Task]
    BY <1>1, <1>6, BecomeEffect, IdleTask DEF EndPartial
  <2>3. QED
    BY <1>6, <2>1, <2>2, TypesKept DEF EndPartial, TInv, TypeOK
<1>7. QED
    BY <1>4, <1>5, <1>6 DEF PartialWork

\* Every step keeps the types.
LEMMA StepTypes ==
    ASSUME TInv, [Next]_vars
    PROVE  TInv'
<1>1. CASE AtaUpdate \/ Prune
    BY <1>1, TypesKept DEF AtaUpdate, Prune, TInv, TypeOK, Map
<1>2. ASSUME NEW x \in txs, SellLands(x) \/ SellExpires(x)
      PROVE  TInv'
  <2>1. x.amount \in Tokens /\ txs' \subseteq SellTx
    BY <1>2 DEF TInv, TypeOK, SellTx, SellLands, SellExpires
  <2>2. ata' \in Tokens
    BY <1>2, <2>1, PositionAssumption
       DEF TInv, TypeOK, Tokens, SellLands, SellExpires
  <2>3. QED
    BY <1>2, <2>1, <2>2, TypesKept DEF SellLands, SellExpires, TInv, TypeOK, Map
<1>3. CASE UNCHANGED vars
    BY <1>3, TypesKept DEF vars, TInv, TypeOK, Map
<1>4. QED
    BY <1>1, <1>2, <1>3, BuyTypes, MonitorTypes, AskTypes, BeginTypes, WorkTypes,
       PartialTypes DEF Next

\* No order of events leaves the type invariant: in particular an amount is
\* never negative and never more than the wallet can hold.
THEOREM AutoSellTypeOK == Spec => []TypeOK
<1>1. TInv => TypeOK
    BY DEF TInv
<1>2. QED
    BY <1>1, InitTypes, StepTypes, PTL DEF Spec

-----------------------------------------------------------------------------
(* A buy is sold out at most once.                                         *)

\* The states in which a position can be claimed.
Open == {"Active", "Confirming", "Submitted"}

\* The state each method leaves.
LEMMA MethodStates ==
    ASSUME NEW p \in PositionRecord, NEW amount, NEW previous
    PROVE  /\ mark_active(p, amount).state =
                IF p.state \in {"Confirming", "Submitted"} THEN "Active" ELSE p.state
           /\ mark_selling(p).state = IF p.state \in Open THEN "Selling" ELSE p.state
           /\ mark_closed(p).state =
                IF p.state = "Selling" THEN "Closed" ELSE p.state
           /\ mark_failed(p).state = "Failed"
           /\ restore_after_sell_attempt(p, previous).state = previous
           /\ suspend_auto_sell(p, previous).state = previous
           /\ record_zero_balance_sell_skip(p).state = p.state
           /\ apply_partial_sell(p, amount).state \in {"Active", p.state}
BY DEF PositionRecord, mark_active, mark_selling, CanMarkSelling, mark_closed,
       mark_failed, restore_after_sell_attempt, suspend_auto_sell,
       record_zero_balance_sell_skip, apply_partial_sell, Open

\* A position can be claimed when its state is an open one.
LEMMA ClaimableByState ==
    ASSUME NEW g
    PROVE  Claimable(g) = IF positions[g] # Absent /\ positions[g].state \in Open
                            THEN 1 ELSE 0
BY DEF Claimable, CanMarkSelling, Open

\* What a step of task w, or of nobody in particular, does to the accounts
\* of group g: what is sold, claimed and claimable does not grow faster than
\* what is bought; a sale is not forgotten; Closed comes only from a sale or
\* from a state that was Closed, and leaves only to Failed, unless w holds
\* the position or the group buys again.
Settled(w, g) == closes[g] + ReportOf(worker[w], g)

WasClosed(g) == positions[g] # Absent /\ positions[g].state = "Closed"

FoundClosed(w, g) == worker[w].group = g /\ worker[w].previous = "Closed"

Effect(w, g) ==
    /\ Len(buys'[g]) >= Len(buys[g])
    /\ closes'[g] + ClaimOf(worker'[w], g) + Claimable(g)' + Len(buys[g])
         <= closes[g] + ClaimOf(worker[w], g) + Claimable(g) + Len(buys'[g])
    /\ Settled(w, g)' >= Settled(w, g)
    /\ WasClosed(g)' => WasClosed(g) \/ FoundClosed(w, g) \/ Settled(w, g)' >= 1
    /\ FoundClosed(w, g)' => FoundClosed(w, g) \/ WasClosed(g)
    /\ WasClosed(g) => \/ positions'[g] = Absent
                       \/ positions'[g].state \in {"Closed", "Failed"}
                       \/ ClaimOf(worker[w], g) = 1 /\ ReportOf(worker[w], g) = 0
                       \/ Len(buys'[g]) > Len(buys[g])

OthersIdle(w) == \A v \in Workers : v # w => worker'[v] = worker[v]

Safe == ClaimsBounded /\ ClosedWasSold

NumbersOf(g) ==
    /\ closes[g] \in Nat /\ Len(buys[g]) \in Nat
    /\ \A w \in Workers : ClaimOf(worker[w], g) \in 0 .. 1
    /\ \A w \in Workers : ReportOf(worker[w], g) \in 0 .. ClaimOf(worker[w], g)
    /\ Claimable(g) \in 0 .. 1

\* The terms of the balance are numbers.
LEMMA Numbers ==
    ASSUME TInv, NEW g \in Groups
    PROVE  NumbersOf(g)
BY DEF NumbersOf, TInv, TypeOK, ClaimOf, ReportOf, Claimable, Holding

\* After the step too.
LEMMA NumbersNext ==
    ASSUME TInv', NEW g \in Groups
    PROVE  NumbersOf(g)'
BY DEF NumbersOf, TInv, TypeOK, ClaimOf, ReportOf, Claimable, Holding

\* The accounts of group g are balanced.
SafeFor(g) ==
    /\ closes[g] + Claim(Loop, g) + Claim(Bot, g) + Claimable(g) <= Len(buys[g])
    /\ WasClosed(g) => Sold(g) >= 1
    /\ \A v \in Workers : FoundClosed(v, g) => Sold(g) >= 1

\* The accounts are balanced when those of each group are.
LEMMA SafeForAll == Safe <=> \A g \in Groups : SafeFor(g)
BY DEF Safe, SafeFor, ClaimsBounded, ClosedWasSold, WasClosed, FoundClosed

\* The effects of a step keep the accounts balanced.
LEMMA Balanced ==
    ASSUME TInv, TInv', NEW w \in Workers, NEW g \in Groups, SafeFor(g),
           OthersIdle(w), Effect(w, g)
    PROVE  SafeFor(g)'
<1>1. NumbersOf(g) /\ NumbersOf(g)' /\ Effect(w, g)
    BY Numbers, NumbersNext
<1>2. PICK v \in Workers : v # w /\ {v, w} = {Loop, Bot}
    BY AutoSellAssumption DEF Workers
<1>3. worker'[v] = worker[v]
    BY <1>2 DEF OthersIdle
<1> DEFINE a == ClaimOf(worker[w], g)
           b == ClaimOf(worker[v], g)
           c == ReportOf(worker[w], g)
           d == ReportOf(worker[v], g)
<1>4. /\ Claim(Loop, g) + Claim(Bot, g) = a + b
      /\ Claim(Loop, g)' + Claim(Bot, g)' = a' + b
      /\ Sold(g) = closes[g] + c + d
      /\ Sold(g)' = closes'[g] + c' + d
  <2>1. a \in Nat /\ b \in Nat /\ c \in Nat /\ d \in Nat /\ a' \in Nat /\ c' \in Nat
        /\ closes[g] \in Nat /\ closes'[g] \in Nat
    BY <1>1, <1>2 DEF NumbersOf
  <2>2. (w = Loop /\ v = Bot) \/ (w = Bot /\ v = Loop)
    BY <1>2, AutoSellAssumption
  <2>3. CASE w = Loop /\ v = Bot
    BY <2>1, <2>3, <1>3 DEF Claim, Sold
  <2>4. CASE w = Bot /\ v = Loop
    BY <2>1, <2>4, <1>3 DEF Claim, Sold
  <2>5. QED
    BY <2>2, <2>3, <2>4
<1>5. /\ closes[g] + a + b + Claimable(g) <= Len(buys[g])
      /\ WasClosed(g) => closes[g] + c + d >= 1
      /\ FoundClosed(w, g) \/ FoundClosed(v, g) => closes[g] + c + d >= 1
  <2>1. closes[g] + Claim(Loop, g) + Claim(Bot, g) + Claimable(g) <= Len(buys[g])
    BY DEF SafeFor
  <2>2. /\ Claim(Loop, g) \in Nat /\ Claim(Bot, g) \in Nat /\ a \in Nat /\ b \in Nat
        /\ closes[g] \in Nat /\ Claimable(g) \in Nat
    BY <1>1, <1>2 DEF NumbersOf, Claim, Workers
  <2>3. closes[g] + Claim(Loop, g) + Claim(Bot, g) = closes[g] + a + b
    BY <1>4, <2>2
  <2>4. /\ WasClosed(g) => Sold(g) >= 1
        /\ FoundClosed(w, g) \/ FoundClosed(v, g) => Sold(g) >= 1
    BY <1>2 DEF SafeFor
  <2>5. QED
    BY <1>4, <2>1, <2>3, <2>4
<1>6. FoundClosed(v, g)' <=> FoundClosed(v, g)
    BY <1>3 DEF FoundClosed
<1>7. /\ Settled(w, g) = closes[g] + c
      /\ Settled(w, g)' = closes'[g] + c'
    BY DEF Settled
<1>8. \A u \in Workers : u = v \/ u = w
    BY <1>2 DEF Workers
<1>9. (closes[g] + Claim(Loop, g) + Claim(Bot, g) + Claimable(g) <= Len(buys[g]))'
  <2>1. /\ closes[g] \in Nat /\ a \in Nat /\ b \in Nat /\ Claimable(g) \in Nat
        /\ Len(buys[g]) \in Nat
        /\ closes'[g] \in Nat /\ a' \in Nat /\ Claimable(g)' \in Nat
        /\ Len(buys'[g]) \in Nat
    BY <1>1, <1>2 DEF NumbersOf
  <2>2. closes'[g] + a' + Claimable(g)' + Len(buys[g])
          <= closes[g] + a + Claimable(g) + Len(buys'[g])
    BY <1>1 DEF Effect
  <2>3. /\ Claim(Loop, g)' \in Nat /\ Claim(Bot, g)' \in Nat
        /\ Claim(Loop, g)' + Claim(Bot, g)' = a' + b
    BY <1>1, <1>4 DEF NumbersOf, Claim, Workers
  <2>4. closes'[g] + Claim(Loop, g)' + Claim(Bot, g)' + Claimable(g)' <= Len(buys'[g])
    <3>1. PICK c0 \in Nat, a0 \in Nat, b0 \in Nat, k0 \in Nat, l0 \in Nat :
            c0 = closes[g] /\ a0 = a /\ b0 = b /\ k0 = Claimable(g) /\ l0 = Len(buys[g])
        BY <2>1
    <3>2. PICK c1 \in Nat, a1 \in Nat, k1 \in Nat, l1 \in Nat, x \in Nat, y \in Nat :
            /\ c1 = closes'[g] /\ a1 = a' /\ k1 = Claimable(g)' /\ l1 = Len(buys'[g])
            /\ x = Claim(Loop, g)' /\ y = Claim(Bot, g)'
        BY <2>1, <2>3
    <3>3. /\ c0 + a0 + b0 + k0 <= l0
          /\ c1 + a1 + k1 + l0 <= c0 + a0 + k0 + l1
          /\ x + y = a1 + b0
        BY <1>5, <2>2, <2>3, <3>1, <3>2
    <3>4. c1 + x + y + k1 <= l1
        BY <3>3
    <3>5. QED
        BY <3>2, <3>4
  <2>5. QED
    BY <2>4
<1>10. /\ Settled(w, g)' >= 1 => Sold(g)' >= 1
       /\ Sold(g) >= 1 => Sold(g)' >= 1
  <2>1. PICK x \in Nat, y \in Nat, x1 \in Nat, y1 \in Nat, z \in Nat :
            /\ x = closes[g] /\ y = c /\ x1 = closes'[g] /\ y1 = c' /\ z = d
    BY <1>1, <1>2 DEF NumbersOf
  <2>2. /\ Sold(g) = x + y + z /\ Sold(g)' = x1 + y1 + z
        /\ Settled(w, g) = x + y /\ Settled(w, g)' = x1 + y1
    BY <1>4, <1>7, <2>1
  <2>3. x1 + y1 >= x + y
    BY <1>1, <2>2 DEF Effect
  <2>4. QED
    BY <2>2, <2>3
<1>11. /\ (WasClosed(g) => Sold(g) >= 1)'
       /\ (FoundClosed(w, g) => Sold(g) >= 1)'
       /\ (FoundClosed(v, g) => Sold(g) >= 1)'
  <2>1. /\ WasClosed(g) => Sold(g) >= 1
        /\ FoundClosed(w, g) => Sold(g) >= 1
        /\ FoundClosed(v, g) => Sold(g) >= 1
    BY <1>2 DEF SafeFor
  <2>2. /\ WasClosed(g)' => WasClosed(g) \/ FoundClosed(w, g) \/ Settled(w, g)' >= 1
        /\ FoundClosed(w, g)' => FoundClosed(w, g) \/ WasClosed(g)
    BY <1>1 DEF Effect
  <2>3. QED
    BY <1>6, <1>10, <2>1, <2>2
<1>12. QED
    BY <1>8, <1>9, <1>11 DEF SafeFor

\* A step that leaves the closes and the number of buys alone.
LEMMA SettledEffect ==
    ASSUME TInv, TInv', NEW w \in Workers, NEW g \in Groups,
           Len(buys'[g]) = Len(buys[g]), closes'[g] = closes[g],
           ClaimOf(worker'[w], g) + Claimable(g)'
                <= ClaimOf(worker[w], g) + Claimable(g),
           ReportOf(worker'[w], g) >= ReportOf(worker[w], g),
           WasClosed(g)' => WasClosed(g) \/ FoundClosed(w, g)
                                         \/ ReportOf(worker'[w], g) = 1,
           FoundClosed(w, g)' => FoundClosed(w, g) \/ WasClosed(g),
           WasClosed(g) => \/ positions'[g] = Absent
                           \/ positions'[g].state \in {"Closed", "Failed"}
                           \/ ClaimOf(worker[w], g) = 1 /\ ReportOf(worker[w], g) = 0
    PROVE  Effect(w, g)
<1>1. /\ closes[g] \in Nat /\ Len(buys[g]) \in Nat
      /\ Claimable(g) \in Nat /\ Claimable(g)' \in Nat
      /\ ClaimOf(worker[w], g) \in Nat /\ ReportOf(worker[w], g) \in Nat
      /\ ClaimOf(worker'[w], g) \in Nat /\ ReportOf(worker'[w], g) \in Nat
    BY Numbers, NumbersNext DEF NumbersOf
<1>2. PICK c0 \in Nat, a0 \in Nat, k0 \in Nat, l0 \in Nat, r0 \in Nat :
        /\ c0 = closes[g] /\ a0 = ClaimOf(worker[w], g) /\ k0 = Claimable(g)
        /\ l0 = Len(buys[g]) /\ r0 = ReportOf(worker[w], g)
    BY <1>1
<1>3. PICK a1 \in Nat, k1 \in Nat, r1 \in Nat :
        /\ a1 = ClaimOf(worker'[w], g) /\ k1 = Claimable(g)'
        /\ r1 = ReportOf(worker'[w], g)
    BY <1>1
<1>4. a1 + k1 <= a0 + k0 /\ r1 >= r0
    BY <1>2, <1>3
<1>5. c0 + a1 + k1 + l0 <= c0 + a0 + k0 + l0 /\ c0 + r1 >= c0 + r0
    BY <1>4
<1>6. closes'[g] + ClaimOf(worker'[w], g) + Claimable(g)' + Len(buys[g])
        <= closes[g] + ClaimOf(worker[w], g) + Claimable(g) + Len(buys'[g])
    BY <1>2, <1>3, <1>5
<1>7. Settled(w, g) = c0 + r0 /\ Settled(w, g)' = c0 + r1
    BY <1>2, <1>3 DEF Settled
<1>8. ReportOf(worker'[w], g) = 1 => Settled(w, g)' >= 1
    BY <1>3, <1>7
<1>9. Len(buys'[g]) >= Len(buys[g])
    BY <1>2
<1>10. QED
    BY <1>5, <1>6, <1>7, <1>8, <1>9 DEF Effect

\* The position is present or absent as before, in the same state.
SameState(g) ==
    /\ positions'[g] = Absent <=> positions[g] = Absent
    /\ positions[g] # Absent => positions'[g].state = positions[g].state

\* A position whose state stays is as claimable and as closed as before.
LEMMA SameStateFacts ==
    ASSUME NEW g, SameState(g)
    PROVE  /\ Claimable(g)' = Claimable(g)
           /\ WasClosed(g)' <=> WasClosed(g)
           /\ WasClosed(g) => positions'[g].state = "Closed"
BY DEF SameState, Claimable, CanMarkSelling, WasClosed

\* A step that changes no state of a position, and of the tasks only what w
\* is doing, without a new claim.
LEMMA SameStateEffect ==
    ASSUME TInv, TInv', NEW w \in Workers, NEW g \in Groups,
           Len(buys'[g]) = Len(buys[g]), closes'[g] = closes[g], SameState(g),
           ClaimOf(worker'[w], g) <= ClaimOf(worker[w], g),
           ReportOf(worker'[w], g) >= ReportOf(worker[w], g),
           FoundClosed(w, g)' => FoundClosed(w, g) \/ WasClosed(g)
    PROVE  Effect(w, g)
<1>1. NumbersOf(g) /\ NumbersOf(g)'
    BY Numbers, NumbersNext
<1>2. ClaimOf(worker'[w], g) + Claimable(g)' <= ClaimOf(worker[w], g) + Claimable(g)
    BY <1>1, SameStateFacts DEF NumbersOf
<1>3. QED
    BY <1>2, SameStateFacts, SettledEffect

\* get_mut and a method: the state under the key is the one the method
\* leaves, the others are the same.
LEMMA PutStates ==
    ASSUME TInv, NEW h, NEW q, Put(h, q), NEW g \in Groups,
           h \in Groups /\ positions[h] # Absent => q \in PositionRecord
    PROVE  /\ g # h \/ positions[g] = Absent => SameState(g)
           /\ g = h /\ positions[g] # Absent =>
                positions'[g] # Absent /\ positions'[g].state = q.state
<1>1. positions \in Map
    BY DEF TInv, TypeOK, Map
<1>2. QED
    BY <1>1, PutEffect DEF SameState

\* An idle worker holds no claim and reports nothing.
LEMMA IdleClaims ==
    ASSUME NEW g \in Groups
    PROVE  ClaimOf(Idle, g) = 0 /\ ReportOf(Idle, g) = 0
BY DEF ClaimOf, ReportOf, Idle, Holding

\* A position that failed, whoever says so.
LEMMA FailedEffect ==
    ASSUME TInv, TInv', NEW w \in Workers, NEW g \in Groups,
           Len(buys'[g]) = Len(buys[g]), closes'[g] = closes[g],
           positions'[g] # Absent, positions'[g].state = "Failed",
           ClaimOf(worker'[w], g) <= ClaimOf(worker[w], g),
           ReportOf(worker'[w], g) >= ReportOf(worker[w], g),
           FoundClosed(w, g)' => FoundClosed(w, g) \/ WasClosed(g)
    PROVE  Effect(w, g)
<1>1. NumbersOf(g) /\ NumbersOf(g)'
    BY Numbers, NumbersNext
<1>2. Claimable(g)' = 0 /\ ~WasClosed(g)'
    BY DEF Claimable, CanMarkSelling, WasClosed
<1>3. ClaimOf(worker'[w], g) + Claimable(g)' <= ClaimOf(worker[w], g) + Claimable(g)
    BY <1>1, <1>2 DEF NumbersOf
<1>4. QED
    BY <1>2, <1>3, SettledEffect

\* With the worker left alone nothing is claimed or forgotten.
LEMMA WorkerUnchanged ==
    ASSUME TInv, UNCHANGED worker, NEW w \in Workers, NEW g \in Groups
    PROVE  /\ ClaimOf(worker'[w], g) <= ClaimOf(worker[w], g)
           /\ ReportOf(worker'[w], g) >= ReportOf(worker[w], g)
           /\ FoundClosed(w, g)' => FoundClosed(w, g)
           /\ OthersIdle(w)
BY Numbers DEF NumbersOf, FoundClosed, OthersIdle

\* What the steps of a buy do to the accounts of a group.
LEMMA BuyEffects ==
    ASSUME TInv, TInv', NEW h \in Groups, Buying(h), NEW g \in Groups
    PROVE  OthersIdle(Loop) /\ Effect(Loop, g)
<1>1. /\ buys \in [Groups -> Seq(BuyRecord)] /\ positions \in Map
      /\ Loop \in Workers /\ closes' = closes /\ UNCHANGED worker
    BY DEF TInv, TypeOK, Map, Workers, Buying, Buy, BuyLands, BuyFails, ConfirmSees,
           ConfirmIsLate, ConfirmReadsTransaction, ConfirmFails, ConfirmSucceeds
<1>2. /\ ClaimOf(worker'[Loop], g) <= ClaimOf(worker[Loop], g)
      /\ ReportOf(worker'[Loop], g) >= ReportOf(worker[Loop], g)
      /\ FoundClosed(Loop, g)' => FoundClosed(Loop, g)
      /\ OthersIdle(Loop)
    BY <1>1, WorkerUnchanged
<1>3. CASE Buy(h)
  <2>1. CASE g # h
    <3>1. Len(buys'[g]) = Len(buys[g]) /\ positions'[g] = positions[g]
        BY <1>1, <1>3, <2>1 DEF Buy, Map
    <3>2. SameState(g)
        BY <3>1 DEF SameState
    <3>3. QED
        BY <1>1, <1>2, <3>1, <3>2, SameStateEffect
  <2>2. CASE g = h
    <3>1. PICK estimate \in Estimates :
          /\ positions' = [positions EXCEPT ![g] =
                mark_confirming(mark_submitted(NewPosition(estimate, CachedBefore)))]
          /\ buys' = [buys EXCEPT ![g] =
                Append(@, [tx |-> "sent", estimate |-> estimate,
                           pre |-> CachedBefore, post |-> 0,
                           task |-> "poll", seen |-> 0])]
        BY <1>3, <2>2 DEF Buy
    <3>2. positions'[g].state = "Confirming"
      <4>1. estimate \in Tokens /\ CachedBefore \in Tokens
        BY BalanceTypes, AutoSellAssumption DEF TInv, TypeOK
      <4>2. QED
        BY <1>1, <3>1, <4>1, OpenedPosition DEF Map
    <3>3. Len(buys'[g]) = Len(buys[g]) + 1 /\ Len(buys[g]) \in Nat
        BY <1>1, <3>1
    <3>4. ~WasClosed(g)'
        BY <3>2 DEF WasClosed
    <3>5. /\ ClaimOf(worker'[Loop], g) = ClaimOf(worker[Loop], g)
          /\ ReportOf(worker'[Loop], g) = ReportOf(worker[Loop], g)
        BY <1>1
    <3>6. /\ closes[g] \in Nat /\ Claimable(g) \in Nat /\ Claimable(g)' \in Nat
          /\ ClaimOf(worker[Loop], g) \in Nat /\ ReportOf(worker[Loop], g) \in Nat
          /\ Claimable(g)' <= 1
        BY <1>1, Numbers, NumbersNext DEF NumbersOf
    <3>7. PICK c \in Nat, a \in Nat, k \in Nat, l \in Nat, r \in Nat :
            /\ c = closes[g] /\ a = ClaimOf(worker[Loop], g) /\ k = Claimable(g)
            /\ l = Len(buys[g]) /\ r = ReportOf(worker[Loop], g)
        BY <3>3, <3>6
    <3>11. PICK k1 \in Nat : k1 = Claimable(g)'
        BY <3>6
    <3>12. k1 <= 1
        BY <3>6, <3>11
    <3>8. c + a + k1 + l <= c + a + k + (l + 1) /\ c + r >= c + r
        BY <3>12
    <3>9. /\ closes'[g] + ClaimOf(worker'[Loop], g) + Claimable(g)' + Len(buys[g])
               <= closes[g] + ClaimOf(worker[Loop], g) + Claimable(g) + Len(buys'[g])
          /\ Settled(Loop, g)' >= Settled(Loop, g)
        BY <1>1, <3>3, <3>5, <3>7, <3>8, <3>11 DEF Settled
    <3>10. QED
        BY <1>2, <3>3, <3>4, <3>9 DEF Effect
  <2>3. QED
    BY <2>1, <2>2
<1>4. ASSUME NEW i \in 1 .. Len(buys[h]),
             \/ BuyLands(h, i) \/ BuyFails(h, i) \/ ConfirmSees(h, i)
             \/ ConfirmIsLate(h, i) \/ ConfirmReadsTransaction(h, i)
      PROVE  Effect(Loop, g)
  <2>1. positions' = positions
    BY <1>4 DEF BuyLands, BuyFails, ConfirmSees, ConfirmIsLate, ConfirmReadsTransaction
  <2>2. \E b : SetBuy(h, i, b)
    BY <1>4 DEF BuyLands, BuyFails, ConfirmSees, ConfirmIsLate, ConfirmReadsTransaction
  <2>3. Len(buys'[g]) = Len(buys[g])
    BY <1>1, <2>2 DEF SetBuy
  <2>4. SameState(g)
    BY <2>1 DEF SameState
  <2>5. QED
    BY <1>1, <1>2, <2>3, <2>4, SameStateEffect
<1>5. ASSUME NEW i \in 1 .. Len(buys[h]), ConfirmFails(h, i)
      PROVE  Effect(Loop, g)
  <2>1. SetBuy(h, i, Done(buys[h][i])) /\ Put(h, mark_failed(positions[h]))
    BY <1>5 DEF ConfirmFails
  <2>2. Len(buys'[g]) = Len(buys[g])
    BY <1>1, <2>1 DEF SetBuy
  <2>3. positions[h] # Absent => /\ mark_failed(positions[h]) \in PositionRecord
                                 /\ mark_failed(positions[h]).state = "Failed"
    BY <1>1, PositionMethods, MethodStates, PositionAssumption
       DEF Map, Tokens, PositionState
  <2>4. /\ g # h \/ positions[g] = Absent => SameState(g)
        /\ g = h /\ positions[g] # Absent =>
                positions'[g] # Absent /\ positions'[g].state = "Failed"
    BY <2>1, <2>3, PutStates
  <2>5. QED
    BY <1>1, <1>2, <2>2, <2>4, SameStateEffect, FailedEffect
<1>6. ASSUME NEW i \in 1 .. Len(buys[h]), ConfirmSucceeds(h, i)
      PROVE  Effect(Loop, g)
  <2> DEFINE p == positions[h]
             q == mark_active(p, Assigned(buys[h][i]))
  <2>1. SetBuy(h, i, Done(buys[h][i])) /\ Put(h, q)
    BY <1>6 DEF ConfirmSucceeds
  <2>2. Len(buys'[g]) = Len(buys[g])
    BY <1>1, <2>1 DEF SetBuy
  <2>3. p # Absent => /\ p \in PositionRecord
                      /\ q.state = IF p.state \in {"Confirming", "Submitted"}
                                     THEN "Active" ELSE p.state
    BY <1>1, MethodStates DEF Map
  <2>4. /\ g # h \/ positions[g] = Absent => SameState(g)
        /\ g = h /\ positions[g] # Absent =>
                positions'[g] # Absent /\ positions'[g].state = q.state
    <3>1. TInv' /\ positions' \in Map
        BY DEF TInv, TypeOK, Map
    <3>2. positions' = [positions EXCEPT ![h] = IF @ = Absent THEN Absent ELSE q]
        BY <2>1 DEF Put
    <3>3. p # Absent => q # Absent
      <4>1. ASSUME p # Absent PROVE q \in PositionRecord
        <5>1. p \in PositionRecord
            BY <1>1, <4>1 DEF Map
        <5>2. Assigned(buys[h][i]) \in Tokens
            BY <1>6, AssignedType DEF ConfirmSucceeds
        <5>3. QED
            BY <5>1, <5>2, PositionMethods DEF PositionState
      <4>2. QED
        BY <4>1, AutoSellAssumption
    <3> HIDE DEF q
    <3>4. QED
        BY <1>1, <3>2, <3>3 DEF SameState, Map
  <2>5. g = h /\ positions[g] # Absent =>
            Claimable(g)' <= Claimable(g) /\ (WasClosed(g)' <=> WasClosed(g))
    BY <2>3, <2>4, ClaimableByState DEF Claimable, CanMarkSelling, WasClosed, Open
  <2>6. CASE g # h \/ positions[g] = Absent
    BY <1>1, <1>2, <2>2, <2>4, <2>6, SameStateEffect
  <2>7. CASE g = h /\ positions[g] # Absent
    <3>1. ClaimOf(worker'[Loop], g) + Claimable(g)'
            <= ClaimOf(worker[Loop], g) + Claimable(g)
        BY <1>1, <2>5, <2>7, Numbers, NumbersNext DEF NumbersOf
    <3>2. WasClosed(g) => positions'[g].state = "Closed"
        BY <2>5, <2>7 DEF WasClosed
    <3>3. QED
        BY <1>1, <1>2, <2>2, <2>5, <2>7, <3>1, <3>2, SettledEffect
  <2>8. QED
    BY <2>6, <2>7
<1>7. QED
    BY <1>2, <1>3, <1>4, <1>5, <1>6 DEF Buying

\* What the fallback monitor does to them.
LEMMA MonitorEffects ==
    ASSUME TInv, TInv', Monitor, NEW g \in Groups
    PROVE  OthersIdle(Loop) /\ Effect(Loop, g)
<1>1. /\ positions \in Map /\ fallback \in Confirmation \cup {Absent}
      /\ Loop \in Workers /\ closes' = closes /\ UNCHANGED worker
      /\ Len(buys'[g]) = Len(buys[g])
    BY DEF TInv, TypeOK, Map, Workers, Monitor, FallbackAsks, Reap, FallbackFails,
           FallbackHangs
<1>2. /\ ClaimOf(worker'[Loop], g) <= ClaimOf(worker[Loop], g)
      /\ ReportOf(worker'[Loop], g) >= ReportOf(worker[Loop], g)
      /\ FoundClosed(Loop, g)' => FoundClosed(Loop, g)
      /\ OthersIdle(Loop)
    BY <1>1, WorkerUnchanged
<1>3. CASE (\E h \in Groups : FallbackAsks(h)) \/ FallbackHangs
  <2>1. SameState(g)
    BY <1>3 DEF FallbackAsks, FallbackHangs, SameState
  <2>2. QED
    BY <1>1, <1>2, <2>1, SameStateEffect
<1>4. ASSUME NEW h \in Groups, Reap(h)
      PROVE  Effect(Loop, g)
  <2>1. CASE g # h
    <3>1. SameState(g)
        BY <1>1, <1>4, <2>1 DEF Reap, Map, SameState
    <3>2. QED
        BY <1>1, <1>2, <3>1, SameStateEffect
  <2>2. CASE g = h
    <3>1. positions'[g] = Absent /\ Claimable(g)' = 0 /\ ~WasClosed(g)'
        BY <1>1, <1>4, <2>2 DEF Reap, Map, Claimable, WasClosed
    <3>2. ClaimOf(worker'[Loop], g) + Claimable(g)'
            <= ClaimOf(worker[Loop], g) + Claimable(g)
        BY <1>1, <3>1, Numbers, NumbersNext DEF NumbersOf
    <3>3. QED
        BY <1>1, <1>2, <3>1, <3>2, SettledEffect
  <2>3. QED
    BY <2>1, <2>2
<1>5. CASE FallbackFails
  <2> DEFINE h == fallback.group
  <2>1. h \in Groups /\ Put(h, mark_failed(positions[h]))
    BY <1>1, <1>5 DEF FallbackFails, Confirmation
  <2>2. positions[h] # Absent => /\ mark_failed(positions[h]) \in PositionRecord
                                 /\ mark_failed(positions[h]).state = "Failed"
    BY <1>1, <2>1, PositionMethods, MethodStates, PositionAssumption
       DEF Map, Tokens, PositionState
  <2> HIDE DEF h
  <2>3. /\ g # h \/ positions[g] = Absent => SameState(g)
        /\ g = h /\ positions[g] # Absent =>
                positions'[g] # Absent /\ positions'[g].state = "Failed"
    BY <2>1, <2>2, PutStates
  <2>4. QED
    BY <1>1, <1>2, <2>3, SameStateEffect, FailedEffect
<1>6. QED
    BY <1>2, <1>3, <1>4, <1>5 DEF Monitor

\* A step that leaves the positions, the tasks, the buys and the closes alone.
LEMMA QuietEffects ==
    ASSUME TInv, TInv', UNCHANGED <<positions, worker, closes, buys>>, NEW g \in Groups
    PROVE  OthersIdle(Loop) /\ Effect(Loop, g)
<1>1. SameState(g) /\ Loop \in Workers
    BY DEF SameState, Workers
<1>2. QED
    BY <1>1, WorkerUnchanged, SameStateEffect

\* What a task may turn into without a claim of its own: it ends, or goes on
\* with the same position, and holds it only if it did.
Follows(t, u) ==
    \/ u = Idle
    \/ /\ u.group = t.group /\ u.previous = t.previous
       /\ u.pc \in Holding => t.pc \in Holding

\* Moving on is becoming the same task at another point.
LEMMA JumpIsBecome ==
    ASSUME TInv, NEW w \in Workers, NEW pc
    PROVE  /\ Jump(w, pc) => Become(w, [worker[w] EXCEPT !.pc = pc])
           /\ [worker[w] EXCEPT !.pc = pc].pc = pc
           /\ [worker[w] EXCEPT !.pc = pc].group = worker[w].group
           /\ [worker[w] EXCEPT !.pc = pc].previous = worker[w].previous
BY DEF TInv, TypeOK, Jump, Become, Task

\* Only the worker that steps changes.
LEMMA Becoming ==
    ASSUME TInv, NEW w \in Workers, NEW u, Become(w, u)
    PROVE  worker'[w] = u /\ OthersIdle(w)
BY DEF TInv, TypeOK, Become, OthersIdle

\* A task goes on or ends, and no state of a position changes.
LEMMA Advance ==
    ASSUME TInv, TInv', NEW w \in Workers, NEW g \in Groups, NEW u, Become(w, u),
           Len(buys'[g]) = Len(buys[g]), closes'[g] = closes[g],
           worker[w].pc # "report", Follows(worker[w], u),
           \/ SameState(g)
           \/ positions'[g] # Absent /\ positions'[g].state = "Failed"
    PROVE  Effect(w, g)
<1>1. worker'[w] = u
    BY Becoming
<1>2. NumbersOf(g) /\ NumbersOf(g)'
    BY Numbers, NumbersNext
<1>3. /\ ReportOf(worker[w], g) = 0
      /\ ReportOf(worker'[w], g) \in Nat
    BY <1>2 DEF NumbersOf, ReportOf
<1>4. Idle.group = Absent /\ Idle.pc = "idle"
    BY DEF Idle
<1>5. ClaimOf(worker'[w], g) <= ClaimOf(worker[w], g)
    BY <1>1, <1>4 DEF Follows, ClaimOf, Holding
<1>6. FoundClosed(w, g)' => FoundClosed(w, g)
    BY <1>1, <1>4, AutoSellAssumption DEF Follows, FoundClosed
<1>7. ReportOf(worker'[w], g) >= ReportOf(worker[w], g)
    BY <1>3
<1>8. QED
    BY <1>5, <1>6, <1>7, SameStateEffect, FailedEffect

\* A task that held the position of g lets it go, in a state that is not
\* Closed unless it was or the task found it so.
LEMMA Release ==
    ASSUME TInv, TInv', NEW w \in Workers, NEW g \in Groups, NEW u, Become(w, u),
           Len(buys'[g]) = Len(buys[g]), closes'[g] = closes[g],
           worker[w].pc \in Holding \ {"report"}, worker[w].group = g,
           u.pc \notin Holding, Follows(worker[w], u),
           WasClosed(g)' => WasClosed(g) \/ FoundClosed(w, g)
    PROVE  Effect(w, g)
<1>1. worker'[w] = u
    BY Becoming
<1>2. NumbersOf(g) /\ NumbersOf(g)'
    BY Numbers, NumbersNext
<1>3. /\ ClaimOf(worker[w], g) = 1 /\ ReportOf(worker[w], g) = 0
      /\ ClaimOf(worker'[w], g) = 0 /\ ReportOf(worker'[w], g) = 0
    BY <1>1 DEF ClaimOf, ReportOf, Holding
<1>4. Idle.group = Absent
    BY DEF Idle
<1>5. FoundClosed(w, g)' => FoundClosed(w, g)
    BY <1>1, <1>4, AutoSellAssumption DEF Follows, FoundClosed
<1>6. ClaimOf(worker'[w], g) + Claimable(g)' <= ClaimOf(worker[w], g) + Claimable(g)
    BY <1>2, <1>3 DEF NumbersOf
<1>7. ReportOf(worker'[w], g) >= ReportOf(worker[w], g)
    BY <1>3
<1>8. QED
    BY <1>3, <1>5, <1>6, <1>7, SettledEffect

\* mark_selling: the task claims the position it may claim.
LEMMA ClaimEffect ==
    ASSUME TInv, TInv', NEW w \in Workers, NEW g \in Groups, NEW u, Become(w, u),
           Len(buys'[g]) = Len(buys[g]), closes'[g] = closes[g],
           worker[w].pc \notin Holding, worker[w].group = g,
           u.pc \in Holding \ {"report"}, u.group = g,
           u.previous = worker[w].previous,
           positions[g] # Absent, positions[g].state \in Open,
           positions'[g] # Absent, positions'[g].state = "Selling"
    PROVE  Effect(w, g)
<1>1. worker'[w] = u
    BY Becoming
<1>2. /\ ClaimOf(worker[w], g) = 0 /\ ReportOf(worker[w], g) = 0
      /\ ClaimOf(worker'[w], g) = 1 /\ ReportOf(worker'[w], g) = 0
    BY <1>1 DEF ClaimOf, ReportOf, Holding
<1>3. /\ Claimable(g) = 1 /\ Claimable(g)' = 0
      /\ ~WasClosed(g) /\ ~WasClosed(g)'
    BY ClaimableByState DEF Open, Claimable, CanMarkSelling, WasClosed
<1>4. FoundClosed(w, g)' => FoundClosed(w, g)
    BY <1>1 DEF FoundClosed
<1>5. /\ ClaimOf(worker'[w], g) + Claimable(g)' <= ClaimOf(worker[w], g) + Claimable(g)
      /\ ReportOf(worker'[w], g) >= ReportOf(worker[w], g)
    BY <1>2, <1>3
<1>6. QED
    BY <1>3, <1>4, <1>5, SettledEffect

\* A task begins with what it finds.
LEMMA BeginEffects ==
    ASSUME TInv, TInv',
           \/ BeginSignal
           \/ \E h \in Groups : Commanding(h),
           NEW g \in Groups
    PROVE  \E w \in Workers : OthersIdle(w) /\ Effect(w, g)
<1> DEFINE Begins(u) == /\ u.pc \notin Holding
                        /\ u.group = g => /\ positions[g] # Absent
                                          /\ u.previous = positions[g].state
<1>0. PICK w \in Workers : \E u : /\ (worker[w] = Idle /\ Become(w, u)) \/ UNCHANGED worker
                                  /\ Begins(u)
  <2>1. Loop \in Workers /\ Bot \in Workers
    BY DEF Workers
  <2>2. ASSUME NEW h, NEW reason
        PROVE  /\ Snapshot(h, reason).pc = "balance"
               /\ Snapshot(h, reason).group = h
               /\ Snapshot(h, reason).previous = positions[h].state
    BY DEF Snapshot, Idle
  <2>3. CASE BeginSignal
    <3> DEFINE s == Head(signals)
               u == Snapshot(s.group, s.reason)
    <3>1. /\ worker[Loop] = Idle
          /\ UNCHANGED worker \/ (positions[s.group] # Absent /\ Become(Loop, u))
        BY <2>3 DEF BeginSignal
    <3>2. CASE UNCHANGED worker
      <4>1. "idle" \notin Holding /\ Idle.pc = "idle" /\ Idle.group = Absent
        BY DEF Idle, Holding
      <4>2. Idle.group # g
        BY <4>1, AutoSellAssumption
      <4>3. QED
        BY <2>1, <3>2, <4>1, <4>2
    <3>3. CASE positions[s.group] # Absent /\ Become(Loop, u)
      <4>1. Become(Loop, u)
        BY <3>3
      <4>2. /\ u.pc \notin Holding
            /\ u.group = s.group /\ u.previous = positions[s.group].state
        BY <2>2 DEF Holding
      <4> HIDE DEF u, s
      <4>3. QED
        BY <2>1, <3>1, <3>3, <4>1, <4>2
    <3>4. QED
        BY <3>1, <3>2, <3>3
  <2>4. ASSUME NEW h \in Groups, BeginManual(h)
        PROVE  \E w \in Workers : \E u : worker[w] = Idle /\ Become(w, u) /\ Begins(u)
    <3>1. /\ worker[Bot] = Idle /\ Become(Bot, Snapshot(h, "Manual"))
          /\ positions[h] # Absent
        BY <2>4 DEF BeginManual
    <3>2. Snapshot(h, "Manual").pc \notin Holding
        BY <2>2 DEF Holding
    <3>3. QED
        BY <2>1, <2>2, <3>1, <3>2
  <2>5. ASSUME NEW h \in Groups, NEW percent \in Percents, BeginPartial(h, percent)
        PROVE  \E w \in Workers : \E u : worker[w] = Idle /\ Become(w, u) /\ Begins(u)
    <3> DEFINE t == Snapshot(h, "Manual")
               u == [t EXCEPT !.pc = "partial_mark", !.have = 0,
                              !.amount = (t.have * percent) \div 100]
    <3>1. /\ worker[Bot] = Idle /\ Become(Bot, u) /\ positions[h] # Absent
        BY <2>5 DEF BeginPartial
    <3>2. t \in Task
        BY <2>5, SnapshotTask DEF TInv, TypeOK, Map, BeginPartial, Reasons
    <3>3. u.group = h /\ u.previous = positions[h].state /\ u.pc = "partial_mark"
      <4>1. t.group = h /\ t.previous = positions[h].state
        BY <2>2
      <4> HIDE DEF t
      <4>2. QED
        BY <3>2, <4>1 DEF Task
    <3> HIDE DEF u
    <3>4. u.pc \notin Holding
        BY <3>3 DEF Holding
    <3>5. QED
        BY <2>1, <3>1, <3>3, <3>4
  <2>6. QED
    BY <2>3, <2>4, <2>5 DEF Commanding
<1>1. PICK u : /\ w \in Workers
               /\ (worker[w] = Idle /\ Become(w, u)) \/ UNCHANGED worker
               /\ Begins(u)
    BY <1>0
<1>2. /\ positions' = positions /\ closes' = closes /\ buys' = buys
    BY DEF BeginSignal, Commanding, BeginManual, BeginPartial
<1>3. SameState(g)
    BY <1>2 DEF SameState
<1>4. CASE worker[w] = Idle /\ Become(w, u)
  <2>1. worker'[w] = u /\ OthersIdle(w)
    BY <1>1, <1>4, Becoming
  <2>2. /\ ClaimOf(worker[w], g) = 0 /\ ReportOf(worker[w], g) = 0
        /\ ClaimOf(worker'[w], g) = 0 /\ ReportOf(worker'[w], g) = 0
    BY <1>1, <1>4, <2>1, IdleClaims DEF ClaimOf, ReportOf, Holding
  <2>3. FoundClosed(w, g)' => WasClosed(g)
    BY <1>1, <2>1 DEF FoundClosed, WasClosed
  <2>4. /\ ClaimOf(worker'[w], g) <= ClaimOf(worker[w], g)
        /\ ReportOf(worker'[w], g) >= ReportOf(worker[w], g)
    BY <2>2
  <2>5. QED
    BY <1>2, <1>3, <2>1, <2>3, <2>4, SameStateEffect
<1>5. CASE UNCHANGED worker
    BY <1>2, <1>5, QuietEffects DEF Workers
<1>6. QED
    BY <1>1, <1>4, <1>5

\* What each step of a sale does to the accounts of a group.
LEMMA WorkEffects ==
    ASSUME TInv, TInv', NEW w \in Workers, Work(w), NEW g \in Groups
    PROVE  OthersIdle(w) /\ Effect(w, g)
<1> DEFINE t == worker[w]
           p == positions[t.group]
<1>1. /\ positions \in Map /\ t \in Task /\ worker \in [Workers -> Task]
      /\ closes \in [Groups -> Nat]
    BY DEF TInv, TypeOK, Map
<1>2. t.group \in Groups /\ p # Absent => p \in PositionRecord
    BY <1>1 DEF Map
<1>3. 0 \in Tokens /\ t.previous \in PositionState /\ t.amount \in Tokens
    BY <1>1, PositionAssumption DEF Task, Tokens
<1>4. UNCHANGED buys
    BY DEF Work, ReadBalance, FailZero, MarkSelling, SendSell, SendFallback, SeesSold,
           SeesError, SeesNothing, Settle, Report, GiveUp
<1>5. CASE SendSell(w) \/ SendFallback(w) \/ SeesSold(w) \/ SeesError(w) \/ SeesNothing(w)
  <2>1. PICK u : Become(w, u) /\ Follows(t, u) /\ t.pc \in Holding \ {"report"}
    <3>1. t.pc \in {"send", "fallback", "wait"}
        BY <1>5 DEF SendSell, SendFallback, SeesSold, SeesError, SeesNothing
    <3>2. t.pc \in Holding \ {"report"}
        BY <3>1 DEF Holding
    <3>3. ASSUME NEW v, v.group = t.group, v.previous = t.previous
          PROVE  Follows(t, v)
        BY <3>2, <3>3 DEF Follows
    <3>4. \A pc : Jump(w, pc) => \E u : Become(w, u) /\ Follows(t, u)
        BY <3>3, JumpIsBecome
    <3>5. /\ NextAttempt(t).group = t.group /\ NextAttempt(t).previous = t.previous
          /\ OnChainError(t).group = t.group /\ OnChainError(t).previous = t.previous
          /\ [t EXCEPT !.pc = "fallback", !.venue = "instead"].group = t.group
          /\ [t EXCEPT !.pc = "fallback", !.venue = "instead"].previous = t.previous
          /\ [t EXCEPT !.pc = "fallback", !.venue = "after"].group = t.group
          /\ [t EXCEPT !.pc = "fallback", !.venue = "after"].previous = t.previous
      <4> HIDE DEF t
      <4>1. QED
        BY <1>1 DEF Task, NextAttempt, OnChainError
    <3>6. /\ Follows(t, NextAttempt(t)) /\ Follows(t, OnChainError(t))
          /\ Follows(t, [t EXCEPT !.pc = "fallback", !.venue = "instead"])
          /\ Follows(t, [t EXCEPT !.pc = "fallback", !.venue = "after"])
        BY <3>3, <3>5
    <3>7. \E u : Become(w, u) /\ Follows(t, u)
        BY <1>5, <3>4, <3>6
           DEF SendSell, SendFallback, SeesSold, SeesError, SeesNothing
    <3>8. QED
        BY <3>2, <3>7
  <2>2. positions' = positions /\ closes' = closes
    BY <1>5 DEF SendSell, SendFallback, SeesSold, SeesError, SeesNothing
  <2>3. SameState(g)
    BY <2>2 DEF SameState
  <2>4. t.pc # "report"
    BY <2>1 DEF Holding
  <2>5. QED
    BY <1>4, <2>1, <2>2, <2>3, <2>4, Advance, Becoming
<1>6. CASE ReadBalance(w)
  <2>1. t.pc = "balance" /\ closes' = closes
    BY <1>6 DEF ReadBalance
  <2>2. /\ UNCHANGED positions \/ Put(t.group, record_zero_balance_sell_skip(p))
        /\ \/ \E amount, expected :
                Become(w, [t EXCEPT !.pc = "mark", !.have = 0, !.amount = amount,
                                    !.expected = expected])
           \/ Jump(w, "zero") \/ Become(w, Idle)
    BY <1>6 DEF ReadBalance
  <2>3. PICK u : Become(w, u) /\ Follows(t, u)
    <3>1. ASSUME NEW amount, NEW expected
          PROVE  Follows(t, [t EXCEPT !.pc = "mark", !.have = 0, !.amount = amount,
                                      !.expected = expected])
      <4> HIDE DEF t
      <4>1. QED
        BY <1>1 DEF Task, Follows, Holding
    <3>2. Jump(w, "zero") => \E u : Become(w, u) /\ Follows(t, u)
      <4> DEFINE v == [t EXCEPT !.pc = "zero"]
      <4>1. v.pc = "zero" /\ v.group = t.group /\ v.previous = t.previous
        BY JumpIsBecome
      <4>2. Jump(w, "zero") => Become(w, v)
        BY JumpIsBecome
      <4> HIDE DEF v
      <4>3. Follows(t, v)
        BY <4>1 DEF Follows, Holding
      <4>4. QED
        BY <4>2, <4>3
    <3>3. Follows(t, Idle)
        BY DEF Follows
    <3>4. QED
        BY <2>2, <3>1, <3>2, <3>3
  <2>4. SameState(g)
    <3>1. CASE UNCHANGED positions
        BY <3>1 DEF SameState
    <3>2. CASE Put(t.group, record_zero_balance_sell_skip(p))
      <4>1. t.group \in Groups /\ p # Absent =>
                /\ record_zero_balance_sell_skip(p) \in PositionRecord
                /\ record_zero_balance_sell_skip(p).state = p.state
        BY <1>2, <1>3, PositionMethods, MethodStates
      <4>2. QED
        BY <3>2, <4>1, PutStates DEF SameState
    <3>3. QED
        BY <2>2, <3>1, <3>2
  <2>5. t.pc # "report"
    BY <2>1
  <2>6. QED
    BY <1>4, <2>1, <2>3, <2>4, <2>5, Advance, Becoming
<1>7. CASE FailZero(w)
  <2>1. /\ t.pc # "report" /\ closes' = closes /\ Become(w, Idle)
        /\ Put(t.group, mark_failed(p)) /\ Follows(t, Idle)
    BY <1>7 DEF FailZero, Follows
  <2>2. t.group \in Groups /\ p # Absent => /\ mark_failed(p) \in PositionRecord
                                            /\ mark_failed(p).state = "Failed"
    BY <1>2, <1>3, PositionMethods, MethodStates
  <2>3. SameState(g) \/ (positions'[g] # Absent /\ positions'[g].state = "Failed")
    BY <2>1, <2>2, PutStates
  <2>4. QED
    BY <1>4, <2>1, <2>3, Advance, Becoming
<1>8. CASE MarkSelling(w)
  <2>1. /\ t.pc = "mark" /\ closes' = closes /\ Put(t.group, mark_selling(p))
        /\ IF p # Absent /\ CanMarkSelling(p)
             THEN \E venue \in {"curve", "jupiter"} :
                    Become(w, [t EXCEPT !.pc = "send", !.attempt = 1,
                                        !.venue = venue])
             ELSE Become(w, Idle)
    BY <1>8 DEF MarkSelling
  <2>2. t.group \in Groups /\ p # Absent =>
            /\ mark_selling(p) \in PositionRecord
            /\ mark_selling(p).state = IF p.state \in Open THEN "Selling" ELSE p.state
    BY <1>2, <1>3, PositionMethods, MethodStates
  <2>3. /\ g # t.group \/ positions[g] = Absent => SameState(g)
        /\ g = t.group /\ positions[g] # Absent =>
             positions'[g] # Absent /\ positions'[g].state = mark_selling(p).state
    BY <2>1, <2>2, PutStates
  <2>4. CASE p # Absent /\ CanMarkSelling(p)
    <3>1. PICK venue : Become(w, [t EXCEPT !.pc = "send", !.attempt = 1, !.venue = venue])
        BY <2>1, <2>4
    <3> DEFINE u == [t EXCEPT !.pc = "send", !.attempt = 1, !.venue = venue]
    <3>2. u.pc = "send" /\ u.group = t.group /\ u.previous = t.previous
      <4> HIDE DEF t
      <4>1. QED
        BY <1>1 DEF Task
    <3>3. Become(w, u)
        BY <3>1
    <3> HIDE DEF u
    <3>4. OthersIdle(w) /\ worker'[w] = u
        BY <3>3, Becoming
    <3>5. CASE g = t.group
      <4>1. positions[g] # Absent /\ positions[g].state \in Open
        BY <2>4, <3>5 DEF CanMarkSelling, Open
      <4>2. positions'[g] # Absent /\ positions'[g].state = "Selling"
        BY <2>2, <2>3, <3>5, <4>1
      <4>3. t.pc \notin Holding /\ u.pc \in Holding \ {"report"}
        BY <2>1, <3>2 DEF Holding
      <4>4. QED
        BY <1>4, <2>1, <3>2, <3>3, <3>4, <3>5, <4>1, <4>2, <4>3, ClaimEffect
    <3>6. CASE g # t.group
      <4>1. SameState(g)
        BY <2>3, <3>6
      <4>2. /\ ClaimOf(worker'[w], g) = 0 /\ ClaimOf(worker[w], g) = 0
            /\ ReportOf(worker'[w], g) = 0 /\ ReportOf(worker[w], g) = 0
            /\ ~FoundClosed(w, g)'
        BY <3>2, <3>4, <3>6 DEF ClaimOf, ReportOf, FoundClosed
      <4>3. /\ ClaimOf(worker'[w], g) <= ClaimOf(worker[w], g)
            /\ ReportOf(worker'[w], g) >= ReportOf(worker[w], g)
        BY <4>2
      <4>4. QED
        BY <1>4, <2>1, <3>4, <4>1, <4>2, <4>3, SameStateEffect
    <3>7. QED
        BY <3>5, <3>6
  <2>5. CASE ~(p # Absent /\ CanMarkSelling(p))
    <3>1. Become(w, Idle) /\ Follows(t, Idle) /\ t.pc # "report"
        BY <2>1, <2>5 DEF Follows
    <3>2. SameState(g)
      <4>1. CASE g = t.group /\ positions[g] # Absent
        <5>1. p.state \notin Open
            BY <2>5, <4>1 DEF CanMarkSelling, Open
        <5>2. QED
            BY <2>2, <2>3, <4>1, <5>1 DEF SameState
      <4>2. QED
        BY <2>3, <4>1
    <3>3. QED
        BY <1>4, <2>1, <3>1, <3>2, Advance, Becoming
  <2>6. QED
    BY <2>4, <2>5
<1>9. CASE Settle(w)
  <2>1. t.pc = "success" /\ closes' = closes
    BY <1>9 DEF Settle
  <2>2. CASE t.expected = 0
    <3> DEFINE u == [t EXCEPT !.pc = "report"]
    <3>1. Put(t.group, mark_closed(p)) /\ Become(w, u)
        BY <1>9, <2>2, JumpIsBecome DEF Settle
    <3>2. u.pc = "report" /\ u.group = t.group /\ u.previous = t.previous
        BY JumpIsBecome
    <3> HIDE DEF u
    <3>3. OthersIdle(w) /\ worker'[w] = u
        BY <3>1, Becoming
    <3>4. t.group \in Groups /\ p # Absent =>
            /\ mark_closed(p) \in PositionRecord
            /\ mark_closed(p).state =
                    IF p.state = "Selling" THEN "Closed" ELSE p.state
        BY <1>2, <1>3, PositionMethods, MethodStates
    <3>5. /\ g # t.group \/ positions[g] = Absent => SameState(g)
          /\ g = t.group /\ positions[g] # Absent =>
                positions'[g] # Absent /\ positions'[g].state = mark_closed(p).state
        BY <3>1, <3>4, PutStates
    <3>6. /\ ClaimOf(worker'[w], g) = ClaimOf(worker[w], g)
          /\ ReportOf(worker[w], g) = 0
          /\ ReportOf(worker'[w], g) = IF g = t.group THEN 1 ELSE 0
          /\ FoundClosed(w, g)' => FoundClosed(w, g)
        BY <2>1, <3>2, <3>3 DEF ClaimOf, ReportOf, Holding, FoundClosed
    <3>7. Claimable(g)' = Claimable(g)
        BY <3>4, <3>5, ClaimableByState, SameStateFacts
           DEF Open, Claimable, CanMarkSelling
    <3>8. WasClosed(g)' => WasClosed(g) \/ ReportOf(worker'[w], g) = 1
        BY <3>5, <3>6, SameStateFacts
    <3>9. WasClosed(g) => \/ positions'[g] = Absent
                          \/ positions'[g].state \in {"Closed", "Failed"}
        BY <3>4, <3>5, SameStateFacts DEF WasClosed
    <3>10. NumbersOf(g)
        BY Numbers
    <3>11. /\ ClaimOf(worker'[w], g) + Claimable(g)'
                <= ClaimOf(worker[w], g) + Claimable(g)
           /\ ReportOf(worker'[w], g) >= ReportOf(worker[w], g)
        BY <3>6, <3>7, <3>10 DEF NumbersOf
    <3>12. QED
        BY <1>4, <2>1, <3>3, <3>6, <3>8, <3>9, <3>11, SettledEffect
  <2>3. CASE t.expected # 0
    <3> DEFINE u == [t EXCEPT !.pc = "settled"]
    <3>1. Put(t.group, apply_partial_sell(p, t.amount)) /\ Become(w, u)
        BY <1>9, <2>3, JumpIsBecome DEF Settle
    <3>2. u.pc = "settled" /\ u.group = t.group /\ u.previous = t.previous
        BY JumpIsBecome
    <3> HIDE DEF u
    <3>3. t.group \in Groups /\ p # Absent =>
            /\ apply_partial_sell(p, t.amount) \in PositionRecord
            /\ apply_partial_sell(p, t.amount).state \in {"Active", p.state}
        BY <1>2, <1>3, PositionMethods, MethodStates
    <3>4. /\ g # t.group \/ positions[g] = Absent => SameState(g)
          /\ g = t.group /\ positions[g] # Absent =>
                /\ positions'[g] # Absent
                /\ positions'[g].state = apply_partial_sell(p, t.amount).state
        BY <3>1, <3>3, PutStates
    <3>5. WasClosed(g)' => WasClosed(g)
        BY <3>3, <3>4, SameStateFacts DEF WasClosed
    <3>6. /\ Follows(t, u) /\ u.pc \notin Holding /\ t.pc \in Holding \ {"report"}
          /\ t.pc # "report"
        BY <2>1, <3>2 DEF Follows, Holding
    <3>7. QED
        BY <1>4, <2>1, <3>1, <3>4, <3>5, <3>6, Advance, Release, Becoming
  <2>4. QED
    BY <2>2, <2>3
<1>10. CASE Report(w)
  <2>1. /\ positions' = positions /\ Become(w, Idle)
        /\ closes' = IF t.pc = "report" THEN [closes EXCEPT ![t.group] = @ + 1]
                                        ELSE closes
        /\ t.pc \in {"report", "settled"}
    BY <1>10 DEF Report
  <2>2. SameState(g)
    BY <2>1 DEF SameState
  <2>3. CASE ~(t.pc = "report" /\ t.group = g)
    <3>1. closes'[g] = closes[g]
        BY <1>1, <2>1, <2>3
    <3>2. worker'[w] = Idle /\ OthersIdle(w)
        BY <2>1, Becoming
    <3>3. /\ ClaimOf(worker[w], g) \in Nat
          /\ ReportOf(worker[w], g) = 0
          /\ ClaimOf(worker'[w], g) = 0 /\ ReportOf(worker'[w], g) = 0
        BY <2>3, <3>2, IdleClaims DEF ClaimOf, ReportOf
    <3>4. ~FoundClosed(w, g)'
        BY <3>2, AutoSellAssumption DEF FoundClosed, Idle
    <3>5. /\ ClaimOf(worker'[w], g) <= ClaimOf(worker[w], g)
          /\ ReportOf(worker'[w], g) >= ReportOf(worker[w], g)
        BY <3>3
    <3>6. QED
        BY <1>4, <2>2, <3>1, <3>2, <3>4, <3>5, SameStateEffect
  <2>4. CASE t.pc = "report" /\ t.group = g
    <3>1. closes'[g] = closes[g] + 1 /\ closes[g] \in Nat
        BY <1>1, <2>1, <2>4
    <3>2. worker'[w] = Idle /\ OthersIdle(w)
        BY <2>1, Becoming
    <3>3. /\ ClaimOf(worker[w], g) = 1 /\ ReportOf(worker[w], g) = 1
          /\ ClaimOf(worker'[w], g) = 0 /\ ReportOf(worker'[w], g) = 0
        BY <2>4, <3>2, IdleClaims DEF ClaimOf, ReportOf, Holding
    <3>4. ~FoundClosed(w, g)'
        BY <3>2, AutoSellAssumption DEF FoundClosed, Idle
    <3>5. /\ Claimable(g)' = Claimable(g) /\ (WasClosed(g)' <=> WasClosed(g))
          /\ WasClosed(g) => positions'[g].state = "Closed"
        BY <2>2, SameStateFacts
    <3>6. NumbersOf(g)
        BY Numbers
    <3>7. PICK c \in Nat, k \in Nat, l \in Nat :
            c = closes[g] /\ k = Claimable(g) /\ l = Len(buys[g])
        BY <3>6 DEF NumbersOf
    <3>8. (c + 1) + 0 + k + l <= c + 1 + k + l /\ (c + 1) + 0 >= c + 1
        OBVIOUS
    <3>9. closes'[g] + ClaimOf(worker'[w], g) + Claimable(g)' + Len(buys[g])
            <= closes[g] + ClaimOf(worker[w], g) + Claimable(g) + Len(buys'[g])
        BY <1>4, <3>1, <3>3, <3>5, <3>7, <3>8
    <3>10. Settled(w, g)' >= Settled(w, g)
        BY <3>1, <3>3, <3>7, <3>8 DEF Settled
    <3>11. Len(buys'[g]) >= Len(buys[g])
        BY <1>4, <3>7
    <3>12. QED
        BY <3>2, <3>4, <3>5, <3>9, <3>10, <3>11 DEF Effect
  <2>5. QED
    BY <2>3, <2>4
<1>11. CASE GiveUp(w)
  <2>1. t.pc = "failure" /\ closes' = closes /\ Become(w, Idle)
    BY <1>11 DEF GiveUp
  <2>2. PICK q : /\ Put(t.group, q)
                 /\ q \in {suspend_auto_sell(p, t.previous),
                           restore_after_sell_attempt(p, t.previous)}
    BY <1>11 DEF GiveUp
  <2>3. t.group \in Groups /\ p # Absent =>
            q \in PositionRecord /\ q.state = t.previous
    BY <1>2, <1>3, <2>2, PositionMethods, MethodStates
  <2>4. /\ g # t.group \/ positions[g] = Absent => SameState(g)
        /\ g = t.group /\ positions[g] # Absent =>
             positions'[g] # Absent /\ positions'[g].state = q.state
    BY <2>2, <2>3, PutStates
  <2>5. g = t.group => (WasClosed(g)' => WasClosed(g) \/ FoundClosed(w, g))
    BY <2>3, <2>4, SameStateFacts DEF WasClosed, FoundClosed
  <2>6. /\ Follows(t, Idle) /\ Idle.pc \notin Holding /\ t.pc \in Holding \ {"report"}
        /\ t.pc # "report"
    BY <2>1 DEF Follows, Holding, Idle
  <2>7. QED
    BY <1>4, <2>1, <2>4, <2>5, <2>6, Advance, Release, Becoming
<1>12. QED
    BY <1>5, <1>6, <1>7, <1>8, <1>9, <1>10, <1>11 DEF Work

\* What each step of a partial sale does to them.
LEMMA PartialEffects ==
    ASSUME TInv, TInv', PartialWork, NEW g \in Groups
    PROVE  OthersIdle(Bot) /\ Effect(Bot, g)
<1> DEFINE t == worker[Bot]
           p == positions[t.group]
<1>1. /\ positions \in Map /\ t \in Task /\ worker \in [Workers -> Task]
      /\ Bot \in Workers
    BY DEF TInv, TypeOK, Map, Workers
<1>2. t.group \in Groups /\ p # Absent => p \in PositionRecord
    BY <1>1 DEF Map
<1>3. 0 \in Tokens /\ t.previous \in PositionState /\ t.amount \in Tokens
    BY <1>1, PositionAssumption DEF Task, Tokens
<1>4. UNCHANGED buys /\ UNCHANGED closes
    BY DEF PartialWork, MarkPartial, SendPartial, EndPartial
<1>5. CASE MarkPartial
  <2>1. /\ t.pc = "partial_mark" /\ Put(t.group, mark_selling(p))
        /\ IF p # Absent /\ CanMarkSelling(p) THEN Jump(Bot, "partial_send")
                                              ELSE Become(Bot, Idle)
    BY <1>5 DEF MarkPartial
  <2>2. t.group \in Groups /\ p # Absent =>
            /\ mark_selling(p) \in PositionRecord
            /\ mark_selling(p).state = IF p.state \in Open THEN "Selling" ELSE p.state
    BY <1>2, <1>3, PositionMethods, MethodStates
  <2>3. /\ g # t.group \/ positions[g] = Absent => SameState(g)
        /\ g = t.group /\ positions[g] # Absent =>
             positions'[g] # Absent /\ positions'[g].state = mark_selling(p).state
    BY <2>1, <2>2, PutStates
  <2>4. CASE p # Absent /\ CanMarkSelling(p)
    <3> DEFINE u == [t EXCEPT !.pc = "partial_send"]
    <3>1. Become(Bot, u)
        BY <1>1, <2>1, <2>4, JumpIsBecome
    <3>2. u.pc = "partial_send" /\ u.group = t.group /\ u.previous = t.previous
        BY <1>1, JumpIsBecome
    <3> HIDE DEF u
    <3>3. OthersIdle(Bot) /\ worker'[Bot] = u
        BY <1>1, <3>1, Becoming
    <3>4. CASE g = t.group
      <4>1. positions[g] # Absent /\ positions[g].state \in Open
        BY <2>4, <3>4 DEF CanMarkSelling, Open
      <4>2. positions'[g] # Absent /\ positions'[g].state = "Selling"
        BY <2>2, <2>3, <3>4, <4>1
      <4>3. t.pc \notin Holding /\ u.pc \in Holding \ {"report"}
        BY <2>1, <3>2 DEF Holding
      <4>4. QED
        BY <1>1, <1>4, <3>1, <3>2, <3>3, <3>4, <4>1, <4>2, <4>3, ClaimEffect
    <3>5. CASE g # t.group
      <4>1. SameState(g)
        BY <2>3, <3>5
      <4>2. /\ ClaimOf(worker'[Bot], g) = 0 /\ ClaimOf(worker[Bot], g) = 0
            /\ ReportOf(worker'[Bot], g) = 0 /\ ReportOf(worker[Bot], g) = 0
            /\ ~FoundClosed(Bot, g)'
        BY <3>2, <3>3, <3>5 DEF ClaimOf, ReportOf, FoundClosed
      <4>3. /\ ClaimOf(worker'[Bot], g) <= ClaimOf(worker[Bot], g)
            /\ ReportOf(worker'[Bot], g) >= ReportOf(worker[Bot], g)
        BY <4>2
      <4>4. QED
        BY <1>1, <1>4, <3>3, <4>1, <4>2, <4>3, SameStateEffect
    <3>6. QED
        BY <3>4, <3>5
  <2>5. CASE ~(p # Absent /\ CanMarkSelling(p))
    <3>1. Become(Bot, Idle) /\ Follows(t, Idle) /\ t.pc # "report"
        BY <2>1, <2>5 DEF Follows
    <3>2. SameState(g)
      <4>1. CASE g = t.group /\ positions[g] # Absent
        <5>1. p.state \notin Open
            BY <2>5, <4>1 DEF CanMarkSelling, Open
        <5>2. QED
            BY <2>2, <2>3, <4>1, <5>1 DEF SameState
      <4>2. QED
        BY <2>3, <4>1
    <3>3. QED
        BY <1>1, <1>4, <3>1, <3>2, Advance, Becoming
  <2>6. QED
    BY <2>4, <2>5
<1>6. CASE SendPartial
  <2>1. PICK pc \in {"partial_apply", "partial_restore"} : Jump(Bot, pc)
    BY <1>6 DEF SendPartial
  <2> DEFINE u == [t EXCEPT !.pc = pc]
  <2>2. /\ Become(Bot, u)
        /\ u.pc = pc /\ u.group = t.group /\ u.previous = t.previous
    BY <1>1, <2>1, JumpIsBecome
  <2> HIDE DEF u
  <2>3. t.pc = "partial_send" /\ positions' = positions
    BY <1>6 DEF SendPartial
  <2>4. Follows(t, u) /\ t.pc # "report" /\ SameState(g)
    BY <2>2, <2>3 DEF Follows, Holding, SameState
  <2>5. QED
    BY <1>1, <1>4, <2>2, <2>4, Advance, Becoming
<1>7. CASE EndPartial
  <2>1. t.pc \in {"partial_apply", "partial_restore"} /\ Become(Bot, Idle)
    BY <1>7 DEF EndPartial
  <2>2. PICK q : /\ Put(t.group, q)
                 /\ q \in {apply_partial_sell(p, t.amount),
                           restore_after_sell_attempt(p, t.previous)}
    BY <1>7 DEF EndPartial
  <2>3. t.group \in Groups /\ p # Absent =>
            q \in PositionRecord /\ q.state \in {"Active", p.state, t.previous}
    BY <1>2, <1>3, <2>2, PositionMethods, MethodStates
  <2>4. /\ g # t.group \/ positions[g] = Absent => SameState(g)
        /\ g = t.group /\ positions[g] # Absent =>
             positions'[g] # Absent /\ positions'[g].state = q.state
    BY <2>2, <2>3, PutStates
  <2>5. g = t.group => (WasClosed(g)' => WasClosed(g) \/ FoundClosed(Bot, g))
    BY <2>3, <2>4, SameStateFacts DEF WasClosed, FoundClosed
  <2>6. /\ Follows(t, Idle) /\ Idle.pc \notin Holding /\ t.pc \in Holding \ {"report"}
        /\ t.pc # "report"
    BY <2>1 DEF Follows, Holding, Idle
  <2>7. QED
    BY <1>1, <1>4, <2>1, <2>2, <2>4, <2>5, <2>6, Advance, Release, Becoming
<1>8. QED
    BY <1>5, <1>6, <1>7 DEF PartialWork

\* Whatever step is taken, some task accounts for it.
LEMMA StepEffects ==
    ASSUME TInv, TInv', [Next]_vars, NEW g \in Groups
    PROVE  \E w \in Workers : OthersIdle(w) /\ Effect(w, g)
<1>1. Loop \in Workers /\ Bot \in Workers
    BY DEF Workers
<1>2. ASSUME UNCHANGED <<positions, worker, closes, buys>>
      PROVE  \E w \in Workers : OthersIdle(w) /\ Effect(w, g)
    BY <1>1, <1>2, QuietEffects
<1>3. CASE \E h \in Groups : Buying(h)
    BY <1>1, <1>3, BuyEffects
<1>4. CASE \E h \in Groups : Asking(h)
    BY <1>2, <1>4 DEF Asking, PriceExit, LifetimeExit, FollowExit, SellAll, Ask
<1>5. CASE BeginSignal \/ \E h \in Groups : Commanding(h)
    BY <1>5, BeginEffects
<1>6. CASE AtaUpdate \/ Prune \/ UNCHANGED vars
    BY <1>2, <1>6 DEF AtaUpdate, Prune, vars
<1>7. CASE Monitor
    BY <1>1, <1>7, MonitorEffects
<1>8. CASE PartialWork
    BY <1>1, <1>8, PartialEffects
<1>9. CASE \E w \in Workers : Work(w)
    BY <1>9, WorkEffects
<1>10. CASE \E x \in txs : SellLands(x) \/ SellExpires(x)
    BY <1>2, <1>10 DEF SellLands, SellExpires
<1>11. QED
    BY <1>3, <1>4, <1>5, <1>6, <1>7, <1>8, <1>9, <1>10 DEF Next

\* No accounts are open at the start.
LEMMA InitSafe == Init => Safe
<1> SUFFICES ASSUME Init, NEW g \in Groups
             PROVE  SafeFor(g)
    BY SafeForAll
<1>1. /\ worker[Loop] = Idle /\ worker[Bot] = Idle
      /\ positions[g] = Absent /\ closes[g] = 0 /\ Len(buys[g]) = 0
    BY DEF Init, Workers
<1>2. /\ Claim(Loop, g) = 0 /\ Claim(Bot, g) = 0 /\ Claimable(g) = 0
    BY <1>1, IdleClaims DEF Claim, Claimable
<1>3. ~WasClosed(g) /\ \A v \in Workers : ~FoundClosed(v, g)
    BY <1>1, AutoSellAssumption DEF WasClosed, FoundClosed, Workers, Idle
<1>4. QED
    BY <1>1, <1>2, <1>3 DEF SafeFor

\* Every step keeps the accounts balanced.
LEMMA StepSafe ==
    ASSUME TInv, TInv', Safe, [Next]_vars
    PROVE  Safe'
<1>1. ASSUME NEW g \in Groups
      PROVE  SafeFor(g)'
    BY SafeForAll, StepEffects, Balanced
<1>2. (\A g \in Groups : SafeFor(g))'
    BY <1>1
<1>3. Safe' <=> (\A g \in Groups : SafeFor(g))'
    BY SafeForAll, PTL
<1>4. QED
    BY <1>2, <1>3

\* The inductive invariant.
LEMMA AutoSellInvariant == Spec => []IInv
<1>1. Init => IInv
    BY InitTypes, InitSafe DEF IInv, Safe
<1>2. IInv /\ [Next]_vars => IInv'
    BY StepTypes, StepSafe DEF IInv, Safe
<1>3. QED
    BY <1>1, <1>2, PTL DEF Spec

\* No order of signals, commands, retries, late landings, put-back states and
\* failures sells one buy out twice, whatever the number of groups, buys,
\* signals and retries.
THEOREM AutoSellClaims == Spec => []ClaimsBounded
<1>1. IInv => ClaimsBounded
    BY DEF IInv
<1>2. QED
    BY <1>1, AutoSellInvariant, PTL

\* A position that was closed stays sold until its group buys again.
THEOREM AutoSellClosed == Spec => ClosedStaysClosed
<1> DEFINE Kept(g) ==
        (/\ positions[g] # Absent /\ positions[g].state = "Closed"
         /\ Len(buys'[g]) = 1)
            => \/ positions'[g] = Absent
               \/ positions'[g].state \in {"Closed", "Failed"}
<1>1. ASSUME IInv, IInv', [Next]_vars, NEW g \in Groups
      PROVE  Kept(g)
  <2>1. TInv /\ TInv' /\ SafeFor(g)
    BY <1>1, SafeForAll DEF IInv, Safe
  <2>2. PICK w \in Workers : OthersIdle(w) /\ Effect(w, g)
    BY <1>1, <2>1, StepEffects
  <2>3. NumbersOf(g) /\ NumbersOf(g)'
    BY <2>1, Numbers, NumbersNext
  <2>4. SUFFICES ASSUME WasClosed(g), Len(buys'[g]) = 1,
                        \/ ClaimOf(worker[w], g) = 1 /\ ReportOf(worker[w], g) = 0
                        \/ Len(buys'[g]) > Len(buys[g])
                 PROVE  FALSE
    BY <2>2 DEF Effect, WasClosed
  <2>5. PICK v \in Workers : v # w /\ {v, w} = {Loop, Bot}
    BY AutoSellAssumption DEF Workers
  <2>6. PICK c \in Nat, l \in Nat, k \in Nat, a \in Nat, b \in Nat, r \in Nat, s \in Nat :
          /\ c = closes[g] /\ l = Len(buys[g]) /\ k = Claimable(g)
          /\ a = ClaimOf(worker[w], g) /\ b = ClaimOf(worker[v], g)
          /\ r = ReportOf(worker[w], g) /\ s = ReportOf(worker[v], g)
    BY <2>3, <2>5 DEF NumbersOf
  <2>7. r <= a /\ s <= b /\ l <= 1
    BY <2>2, <2>3, <2>4, <2>5, <2>6 DEF NumbersOf, Effect
  <2>8. c + a + b + k <= l /\ c + r + s >= 1
    <3>1. (w = Loop /\ v = Bot) \/ (w = Bot /\ v = Loop)
        BY <2>5, AutoSellAssumption
    <3>2. CASE w = Loop /\ v = Bot
        BY <2>1, <2>4, <2>6, <3>2 DEF SafeFor, Claim, Sold
    <3>3. CASE w = Bot /\ v = Loop
      <4>1. c + b + a + k <= l /\ c + s + r >= 1
        BY <2>1, <2>4, <2>6, <3>3 DEF SafeFor, Claim, Sold
      <4>2. QED
        BY <4>1
    <3>4. QED
        BY <3>1, <3>2, <3>3
  <2>9. (a = 1 /\ r = 0) \/ l < 1
    BY <2>4, <2>6
  <2>10. QED
    BY <2>7, <2>8, <2>9
<1>2. IInv /\ IInv' /\ [Next]_vars =>
        [\A g \in Groups :
            (/\ positions[g] # Absent /\ positions[g].state = "Closed"
             /\ Len(buys'[g]) = 1)
                => \/ positions'[g] = Absent
                   \/ positions'[g].state \in {"Closed", "Failed"}]_vars
    BY <1>1
<1>3. QED
    BY <1>2, AutoSellInvariant, PTL DEF Spec, ClosedStaysClosed

-----------------------------------------------------------------------------
(* The sellers implement SellRights.                                       *)

\* A step has nothing to do with any group but g.
Elsewhere(g) ==
    \A h \in Groups \ {g} :
        /\ positions'[h] = positions[h]
        /\ Len(buys'[h]) = Len(buys[h])
        /\ closes'[h] = closes[h]
        /\ \A w \in Workers : ClaimOf(worker'[w], h) = ClaimOf(worker[w], h)

\* get_mut and a method touch no other key.
LEMMA PutElsewhere ==
    ASSUME TInv, NEW g, NEW q, Put(g, q)
    PROVE  \A h \in Groups \ {g} : positions'[h] = positions[h]
BY DEF TInv, TypeOK, Put

\* A task that has to do with g only, or with nothing, before and after.
LEMMA ClaimsElsewhere ==
    ASSUME TInv, NEW w \in Workers, NEW g, NEW u, Become(w, u),
           worker[w].group \in {g, Absent}, u.group \in {g, Absent}
    PROVE  \A h \in Groups \ {g} : \A v \in Workers :
                ClaimOf(worker'[v], h) = ClaimOf(worker[v], h)
<1> SUFFICES ASSUME NEW h \in Groups \ {g}, NEW v \in Workers
             PROVE  ClaimOf(worker'[v], h) = ClaimOf(worker[v], h)
    OBVIOUS
<1>1. worker'[w] = u /\ (v # w => worker'[v] = worker[v])
    BY Becoming DEF OthersIdle
<1>2. worker[w].group # h /\ u.group # h
    BY AutoSellAssumption
<1>3. QED
    BY <1>1, <1>2 DEF ClaimOf

\* A buy and its confirmation have to do with one group.
LEMMA BuyElsewhere ==
    ASSUME TInv, NEW g \in Groups, Buying(g)
    PROVE  Elsewhere(g)
<1>1. UNCHANGED <<worker, closes>>
    BY DEF Buying, Buy, BuyLands, BuyFails, ConfirmSees, ConfirmIsLate,
           ConfirmReadsTransaction, ConfirmFails, ConfirmSucceeds
<1>2. buys \in [Groups -> Seq(BuyRecord)] /\ positions \in Map
    BY DEF TInv, TypeOK, Map
<1>3. CASE Buy(g)
  <2>1. \A h \in Groups \ {g} : positions'[h] = positions[h] /\ buys'[h] = buys[h]
    BY <1>2, <1>3 DEF Buy, Map
  <2>2. QED
    BY <1>1, <2>1 DEF Elsewhere
<1>4. ASSUME NEW i \in 1 .. Len(buys[g]),
             \/ BuyLands(g, i) \/ BuyFails(g, i) \/ ConfirmSees(g, i)
             \/ ConfirmIsLate(g, i) \/ ConfirmReadsTransaction(g, i)
             \/ ConfirmFails(g, i) \/ ConfirmSucceeds(g, i)
      PROVE  Elsewhere(g)
  <2>1. UNCHANGED positions \/ \E q : Put(g, q)
    BY <1>4 DEF BuyLands, BuyFails, ConfirmSees, ConfirmIsLate, ConfirmReadsTransaction,
       ConfirmFails, ConfirmSucceeds
  <2>2. \E b : SetBuy(g, i, b)
    BY <1>4 DEF BuyLands, BuyFails, ConfirmSees, ConfirmIsLate, ConfirmReadsTransaction,
       ConfirmFails, ConfirmSucceeds
  <2>3. \A h \in Groups : Len(buys'[h]) = Len(buys[h])
    BY <1>2, <2>2 DEF SetBuy
  <2>4. QED
    BY <1>1, <2>1, <2>3, PutElsewhere DEF Elsewhere
<1>5. QED
    BY <1>3, <1>4 DEF Buying

\* A step of a task has to do with the group of the task.
LEMMA WorkElsewhere ==
    ASSUME TInv, NEW w \in Workers, Work(w)
    PROVE  Elsewhere(worker[w].group)
<1> DEFINE t == worker[w]
           p == positions[t.group]
<1>1. t \in Task /\ closes \in [Groups -> Nat] /\ Idle.group = Absent
    BY DEF TInv, TypeOK, Idle
<1>2. UNCHANGED buys
    BY DEF Work, ReadBalance, FailZero, MarkSelling, SendSell, SendFallback, SeesSold,
           SeesError, SeesNothing, Settle, Report, GiveUp
<1>3. UNCHANGED positions \/ \E q : Put(t.group, q)
    BY DEF Work, ReadBalance, FailZero, MarkSelling, SendSell, SendFallback, SeesSold,
           SeesError, SeesNothing, Settle, Report, GiveUp
<1>4. \A h \in Groups \ {t.group} : closes'[h] = closes[h]
    BY <1>1 DEF Work, ReadBalance, FailZero, MarkSelling, SendSell, SendFallback,
       SeesSold, SeesError, SeesNothing, Settle, Report, GiveUp
<1>5. PICK u : Become(w, u) /\ u.group \in {t.group, Absent}
  <2>1. \A pc : Jump(w, pc) => \E u : Become(w, u) /\ u.group \in {t.group, Absent}
    BY JumpIsBecome
  <2>2. /\ NextAttempt(t).group = t.group
        /\ OnChainError(t).group = t.group
        /\ [t EXCEPT !.pc = "fallback", !.venue = "instead"].group = t.group
        /\ [t EXCEPT !.pc = "fallback", !.venue = "after"].group = t.group
    BY <1>1 DEF Task, NextAttempt, OnChainError
  <2>3. /\ \A a, e : [t EXCEPT !.pc = "mark", !.have = 0, !.amount = a,
                                !.expected = e].group = t.group
        /\ \A v : [t EXCEPT !.pc = "send", !.attempt = 1, !.venue = v].group = t.group
    BY <1>1 DEF Task
  <2>4. CASE ReadBalance(w)
    <3>1. \/ \E a, e : Become(w, [t EXCEPT !.pc = "mark", !.have = 0, !.amount = a,
                                           !.expected = e])
          \/ Jump(w, "zero") \/ Become(w, Idle)
        BY <2>4 DEF ReadBalance
    <3>2. QED
        BY <1>1, <2>1, <2>3, <3>1
  <2>5. CASE FailZero(w) \/ Report(w) \/ GiveUp(w)
    BY <1>1, <2>5 DEF FailZero, Report, GiveUp
  <2>6. CASE MarkSelling(w)
    BY <1>1, <2>3, <2>6 DEF MarkSelling
  <2>7. CASE SendSell(w) \/ SendFallback(w) \/ SeesSold(w) \/ SeesError(w) \/ SeesNothing(w)
    BY <2>1, <2>2, <2>7 DEF SendSell, SendFallback, SeesSold, SeesError, SeesNothing
  <2>8. CASE Settle(w)
    BY <2>1, <2>8 DEF Settle
  <2>9. QED
    BY <2>4, <2>5, <2>6, <2>7, <2>8 DEF Work
<1>6. \A h \in Groups \ {t.group} : positions'[h] = positions[h]
    BY <1>3, PutElsewhere
<1>7. \A h \in Groups \ {t.group} : \A v \in Workers :
            ClaimOf(worker'[v], h) = ClaimOf(worker[v], h)
    BY <1>5, ClaimsElsewhere
<1>8. QED
    BY <1>2, <1>4, <1>6, <1>7 DEF Elsewhere

\* So does a step of a partial sale.
LEMMA PartialElsewhere ==
    ASSUME TInv, PartialWork
    PROVE  Elsewhere(worker[Bot].group)
<1> DEFINE t == worker[Bot]
<1>1. Idle.group = Absent /\ Bot \in Workers
    BY DEF Idle, Workers
<1>2. UNCHANGED <<buys, closes>>
    BY DEF PartialWork, MarkPartial, SendPartial, EndPartial
<1>3. UNCHANGED positions \/ \E q : Put(t.group, q)
    BY DEF PartialWork, MarkPartial, SendPartial, EndPartial
<1>4. PICK u : Become(Bot, u) /\ u.group \in {t.group, Absent}
  <2>1. \A pc : Jump(Bot, pc) => \E u : Become(Bot, u) /\ u.group \in {t.group, Absent}
    BY <1>1, JumpIsBecome
  <2>2. QED
    BY <1>1, <2>1 DEF PartialWork, MarkPartial, SendPartial, EndPartial
<1>5. \A h \in Groups \ {t.group} : positions'[h] = positions[h]
    BY <1>3, PutElsewhere
<1>6. \A h \in Groups \ {t.group} : \A v \in Workers :
            ClaimOf(worker'[v], h) = ClaimOf(worker[v], h)
    BY <1>1, <1>4, ClaimsElsewhere
<1>7. QED
    BY <1>2, <1>5, <1>6 DEF Elsewhere

\* A task begins with one group.
LEMMA BeginElsewhere ==
    ASSUME TInv, BeginSignal \/ \E g \in Groups : Commanding(g)
    PROVE  \E g : Elsewhere(g)
<1>1. UNCHANGED <<positions, buys, closes>>
    BY DEF BeginSignal, Commanding, BeginManual, BeginPartial
<1>2. \/ UNCHANGED worker
      \/ \E w \in Workers : \E u : worker[w] = Idle /\ Become(w, u)
  <2>1. Loop \in Workers /\ Bot \in Workers
    BY DEF Workers
  <2>2. QED
    BY <2>1 DEF BeginSignal, Commanding, BeginManual, BeginPartial
<1>3. CASE UNCHANGED worker
    BY <1>1, <1>3 DEF Elsewhere
<1>4. ASSUME NEW w \in Workers, NEW u, worker[w] = Idle, Become(w, u)
      PROVE  Elsewhere(u.group)
  <2>1. worker[w].group \in {u.group, Absent} /\ u.group \in {u.group, Absent}
    BY <1>4 DEF Idle
  <2>2. \A h \in Groups \ {u.group} : \A v \in Workers :
            ClaimOf(worker'[v], h) = ClaimOf(worker[v], h)
    BY <1>4, <2>1, ClaimsElsewhere
  <2>3. QED
    BY <1>1, <2>2 DEF Elsewhere
<1>5. QED
    BY <1>2, <1>3, <1>4

\* The monitor looks at one position at a time.
LEMMA MonitorElsewhere ==
    ASSUME TInv, Monitor
    PROVE  \E g : Elsewhere(g)
<1>1. UNCHANGED <<worker, buys, closes>>
    BY DEF Monitor, FallbackAsks, Reap, FallbackFails, FallbackHangs
<1>2. CASE UNCHANGED positions \/ \E g, q : Put(g, q)
    BY <1>1, <1>2, PutElsewhere DEF Elsewhere
<1>3. ASSUME NEW g \in Groups, Reap(g)
      PROVE  Elsewhere(g)
    BY <1>1, <1>3 DEF Reap, Elsewhere, TInv, TypeOK
<1>4. QED
    BY <1>2, <1>3 DEF Monitor, FallbackAsks, FallbackFails, FallbackHangs

\* Every step has to do with one group, or with none.
LEMMA StepElsewhere ==
    ASSUME TInv, [Next]_vars
    PROVE  \E g : Elsewhere(g)
<1>1. CASE UNCHANGED <<positions, worker, closes, buys>>
    BY <1>1 DEF Elsewhere
<1>2. CASE \E g \in Groups : Buying(g)
    BY <1>2, BuyElsewhere
<1>3. CASE BeginSignal \/ \E g \in Groups : Commanding(g)
    BY <1>3, BeginElsewhere
<1>4. CASE Monitor
    BY <1>4, MonitorElsewhere
<1>5. CASE PartialWork
    BY <1>5, PartialElsewhere
<1>6. CASE \E w \in Workers : Work(w)
    BY <1>6, WorkElsewhere
<1>7. CASE \/ \E g \in Groups : Asking(g)
           \/ AtaUpdate \/ Prune \/ UNCHANGED vars
           \/ \E x \in txs : SellLands(x) \/ SellExpires(x)
  <2>1. UNCHANGED <<positions, worker, closes, buys>>
    BY <1>7 DEF Asking, PriceExit, LifetimeExit, FollowExit, SellAll, Ask, AtaUpdate,
       Prune, vars, SellLands, SellExpires
  <2>2. QED
    BY <1>1, <2>1
<1>8. QED
    BY <1>2, <1>3, <1>4, <1>5, <1>6, <1>7 DEF Next

\* What a step can do to the rights of one group.
Buys(g) ==
    /\ bought'[g] = bought[g] + 1 /\ claimable'[g] = 1
    /\ claimed'[g] = claimed[g] /\ closes'[g] = closes[g]

Claims(g) ==
    /\ claimable[g] = 1 /\ claimable'[g] = 0 /\ claimed'[g] = claimed[g] + 1
    /\ bought'[g] = bought[g] /\ closes'[g] = closes[g]

PutsBack(g) ==
    /\ claimed[g] > 0 /\ claimed'[g] = claimed[g] - 1 /\ claimable'[g] \in 0 .. 1
    /\ bought'[g] = bought[g] /\ closes'[g] = closes[g]

SellsOut(g) ==
    /\ claimed[g] > 0 /\ claimed'[g] = claimed[g] - 1 /\ closes'[g] = closes[g] + 1
    /\ bought'[g] = bought[g] /\ claimable'[g] = claimable[g]

Loses(g) ==
    /\ claimable'[g] = 0
    /\ bought'[g] = bought[g] /\ claimed'[g] = claimed[g] /\ closes'[g] = closes[g]

Keeps(g) ==
    /\ claimable'[g] = claimable[g] /\ claimed'[g] = claimed[g]
    /\ bought'[g] = bought[g] /\ closes'[g] = closes[g]

\* The rights of a group in the words of the balance.
LEMMA RightsOf ==
    ASSUME NEW g \in Groups
    PROVE  /\ bought[g] = Len(buys[g]) /\ bought'[g] = Len(buys'[g])
           /\ claimable[g] = Claimable(g) /\ claimable'[g] = Claimable(g)'
           /\ claimed[g] = ClaimOf(worker[Loop], g) + ClaimOf(worker[Bot], g)
           /\ claimed'[g] = ClaimOf(worker'[Loop], g) + ClaimOf(worker'[Bot], g)
BY DEF bought, claimable, claimed, Claim

\* The number of buys grows with a new position only, the number of closes
\* with the report of a task that held one.
LEMMA BoughtOrSold ==
    ASSUME TInv, TInv', [Next]_vars, NEW g \in Groups
    PROVE  \/ Len(buys'[g]) = Len(buys[g]) /\ closes'[g] = closes[g]
           \/ /\ Len(buys'[g]) = Len(buys[g]) + 1 /\ UNCHANGED <<worker, closes>>
              /\ positions'[g] # Absent /\ positions'[g].state = "Confirming"
           \/ \E w \in Workers :
                /\ UNCHANGED <<positions, buys>> /\ closes'[g] = closes[g] + 1
                /\ ClaimOf(worker[w], g) = 1 /\ worker'[w] = Idle /\ OthersIdle(w)
<1>1. /\ buys \in [Groups -> Seq(BuyRecord)] /\ positions \in Map
      /\ closes \in [Groups -> Nat]
    BY DEF TInv, TypeOK, Map
<1>2. CASE \E h \in Groups : Buy(h)
  <2>1. PICK h \in Groups : Buy(h)
    BY <1>2
  <2>2. PICK estimate \in Estimates :
          /\ positions' = [positions EXCEPT ![h] =
                mark_confirming(mark_submitted(NewPosition(estimate, CachedBefore)))]
          /\ buys' = [buys EXCEPT ![h] =
                Append(@, [tx |-> "sent", estimate |-> estimate,
                           pre |-> CachedBefore, post |-> 0,
                           task |-> "poll", seen |-> 0])]
    BY <2>1 DEF Buy
  <2>3. UNCHANGED <<worker, closes>>
    BY <2>1 DEF Buy
  <2>4. CASE g # h
    BY <1>1, <2>2, <2>3, <2>4
  <2>5. CASE g = h
    <3>1. estimate \in Tokens /\ CachedBefore \in Tokens
        BY BalanceTypes, AutoSellAssumption DEF TInv, TypeOK
    <3>2. positions'[g].state = "Confirming" /\ positions'[g] # Absent
        BY <1>1, <2>2, <2>5, <3>1, OpenedPosition, AutoSellAssumption DEF Map
    <3>3. Len(buys'[g]) = Len(buys[g]) + 1
        BY <1>1, <2>2, <2>5
    <3>4. QED
        BY <2>3, <3>2, <3>3
  <2>6. QED
    BY <2>4, <2>5
<1>3. CASE \E w \in Workers : Report(w)
  <2>1. PICK w \in Workers : Report(w)
    BY <1>3
  <2>2. /\ UNCHANGED <<positions, buys>> /\ Become(w, Idle)
        /\ closes' = IF worker[w].pc = "report"
                       THEN [closes EXCEPT ![worker[w].group] = @ + 1] ELSE closes
    BY <2>1 DEF Report
  <2>3. CASE worker[w].pc = "report" /\ worker[w].group = g
    <3>1. closes'[g] = closes[g] + 1 /\ ClaimOf(worker[w], g) = 1
        BY <1>1, <2>2, <2>3 DEF ClaimOf, Holding
    <3>2. QED
        BY <2>2, <3>1, Becoming
  <2>4. CASE ~(worker[w].pc = "report" /\ worker[w].group = g)
    BY <1>1, <2>2, <2>4
  <2>5. QED
    BY <2>3, <2>4
<1>4. CASE \E h \in Groups : Buying(h) /\ ~Buy(h)
  <2>1. PICK h \in Groups : Buying(h) /\ ~Buy(h)
    BY <1>4
  <2>2. UNCHANGED closes /\ \E i, b : SetBuy(h, i, b)
    BY <2>1 DEF Buying, BuyLands, BuyFails, ConfirmSees, ConfirmIsLate,
       ConfirmReadsTransaction, ConfirmFails, ConfirmSucceeds
  <2>3. Len(buys'[g]) = Len(buys[g])
    BY <1>1, <2>2 DEF SetBuy
  <2>4. QED
    BY <2>2, <2>3
<1>5. CASE \E w \in Workers : Work(w) /\ ~Report(w)
  <2>1. UNCHANGED <<buys, closes>>
    BY <1>5 DEF Work, ReadBalance, FailZero, MarkSelling, SendSell, SendFallback, SeesSold,
       SeesError, SeesNothing, Settle, GiveUp
  <2>2. QED
    BY <2>1
<1>6. CASE \/ \E h \in Groups : Asking(h) \/ Commanding(h)
           \/ AtaUpdate \/ Prune \/ Monitor \/ BeginSignal \/ PartialWork \/ UNCHANGED vars
           \/ \E x \in txs : SellLands(x) \/ SellExpires(x)
  <2>1. UNCHANGED <<buys, closes>>
    BY <1>6 DEF Asking, PriceExit, LifetimeExit, FollowExit, SellAll, Ask, Commanding,
       BeginManual, BeginPartial, AtaUpdate, Prune, Monitor, FallbackAsks, Reap,
       FallbackFails, FallbackHangs, BeginSignal, PartialWork, MarkPartial, SendPartial,
       EndPartial, vars, SellLands, SellExpires
  <2>2. QED
    BY <2>1
<1>7. QED
  <2>1. (\E h \in Groups : Buying(h)) =>
            \/ \E h \in Groups : Buy(h)
            \/ \E h \in Groups : Buying(h) /\ ~Buy(h)
    OBVIOUS
  <2>2. (\E w \in Workers : Work(w)) =>
            \/ \E w \in Workers : Report(w)
            \/ \E w \in Workers : Work(w) /\ ~Report(w)
    OBVIOUS
  <2>3. QED
    BY <1>2, <1>3, <1>4, <1>5, <1>6, <2>1, <2>2 DEF Next

\* Every step treats the rights of a group in one of these ways.
LEMMA RightsStep ==
    ASSUME TInv, TInv', [Next]_vars, NEW g \in Groups
    PROVE  Buys(g) \/ Claims(g) \/ PutsBack(g) \/ SellsOut(g) \/ Loses(g) \/ Keeps(g)
<1>1. NumbersOf(g) /\ NumbersOf(g)'
    BY Numbers, NumbersNext
<1>2. Loop \in Workers /\ Bot \in Workers /\ Loop # Bot
      /\ \A w \in Workers : w = Loop \/ w = Bot
    BY AutoSellAssumption DEF Workers
<1>3. /\ closes[g] \in Nat /\ Len(buys[g]) \in Nat
      /\ closes'[g] \in Nat /\ Len(buys'[g]) \in Nat
      /\ Claimable(g) \in 0 .. 1 /\ Claimable(g)' \in 0 .. 1
      /\ \A w \in Workers : ClaimOf(worker[w], g) \in 0 .. 1
      /\ \A w \in Workers : ClaimOf(worker'[w], g) \in 0 .. 1
    BY <1>1 DEF NumbersOf
<1>4. CASE Len(buys'[g]) = Len(buys[g]) /\ closes'[g] = closes[g]
  <2>1. PICK w \in Workers : OthersIdle(w) /\ Effect(w, g)
    BY StepEffects
  <2>2. PICK v \in Workers : v # w /\ {v, w} = {Loop, Bot}
    BY <1>2
  <2>3. ClaimOf(worker'[v], g) = ClaimOf(worker[v], g)
    BY <2>1, <2>2 DEF OthersIdle
  <2>4. closes'[g] + ClaimOf(worker'[w], g) + Claimable(g)' + Len(buys[g])
            <= closes[g] + ClaimOf(worker[w], g) + Claimable(g) + Len(buys'[g])
    BY <2>1 DEF Effect
  <2>5. PICK a \in 0 .. 1, b \in 0 .. 1, k \in 0 .. 1, a1 \in 0 .. 1, k1 \in 0 .. 1 :
            /\ a = ClaimOf(worker[w], g) /\ b = ClaimOf(worker[v], g)
            /\ k = Claimable(g) /\ a1 = ClaimOf(worker'[w], g) /\ k1 = Claimable(g)'
    BY <1>3
  <2>6. a1 + k1 <= a + k
    <3>1. PICK c \in Nat, l \in Nat : c = closes[g] /\ l = Len(buys[g])
        BY <1>3
    <3>2. c + a1 + k1 + l <= c + a + k + l
        BY <1>4, <2>4, <2>5, <3>1
    <3>3. QED
        BY <3>2
  <2>7. claimed[g] = a + b /\ claimed'[g] = a1 + b
    <3>1. (w = Loop /\ v = Bot) \/ (w = Bot /\ v = Loop)
        BY <1>2, <2>2
    <3>2. QED
        BY <2>3, <2>5, <3>1, RightsOf
  <2>8. /\ claimable[g] = k /\ claimable'[g] = k1
        /\ bought'[g] = bought[g] /\ closes'[g] = closes[g]
    BY <1>4, <2>5, RightsOf
  <2>9. CASE a1 = a + 1
    <3>1. k = 1 /\ k1 = 0 /\ claimed'[g] = claimed[g] + 1
        BY <2>6, <2>7, <2>9
    <3>2. QED
        BY <2>8, <3>1 DEF Claims
  <2>10. CASE a1 = a - 1
    <3>1. claimed[g] > 0 /\ claimed'[g] = claimed[g] - 1
        BY <2>7, <2>10
    <3>2. QED
        BY <2>8, <3>1 DEF PutsBack
  <2>11. CASE a1 = a
    <3>1. claimed'[g] = claimed[g] /\ (k1 = k \/ k1 = 0)
        BY <2>6, <2>7, <2>11
    <3>2. QED
        BY <2>8, <3>1 DEF Loses, Keeps
  <2>12. QED
    BY <2>9, <2>10, <2>11
<1>5. CASE /\ Len(buys'[g]) = Len(buys[g]) + 1 /\ UNCHANGED <<worker, closes>>
           /\ positions'[g] # Absent /\ positions'[g].state = "Confirming"
  <2>1. Claimable(g)' = 1
    BY <1>5 DEF Claimable, CanMarkSelling
  <2>2. QED
    BY <1>5, <2>1, RightsOf DEF Buys
<1>6. ASSUME NEW w \in Workers, UNCHANGED <<positions, buys>>, closes'[g] = closes[g] + 1,
             ClaimOf(worker[w], g) = 1, worker'[w] = Idle, OthersIdle(w)
      PROVE  SellsOut(g)
  <2>1. PICK v \in Workers : v # w /\ {v, w} = {Loop, Bot}
    BY <1>2
  <2>2. /\ ClaimOf(worker'[v], g) = ClaimOf(worker[v], g)
        /\ ClaimOf(worker'[w], g) = 0
    BY <1>6, <2>1, IdleClaims DEF OthersIdle
  <2>3. PICK b \in 0 .. 1 : b = ClaimOf(worker[v], g)
    BY <1>3
  <2>4. claimed[g] = b + 1 /\ claimed'[g] = b
    <3>1. (w = Loop /\ v = Bot) \/ (w = Bot /\ v = Loop)
        BY <1>2, <2>1
    <3>2. QED
        BY <1>6, <2>2, <2>3, <3>1, RightsOf
  <2>5. Claimable(g)' = Claimable(g)
    BY <1>6 DEF Claimable
  <2>6. QED
    BY <1>6, <2>4, <2>5, RightsOf DEF SellsOut
<1>7. QED
    BY <1>4, <1>5, <1>6, BoughtOrSold

\* A function that changes at one point only.
LEMMA OneChanges ==
    ASSUME NEW G, NEW f, NEW e, f = [h \in G |-> f[h]], e = [h \in G |-> e[h]],
           NEW g \in G, \A h \in G \ {g} : e[h] = f[h]
    PROVE  e = [f EXCEPT ![g] = e[g]]
OBVIOUS

\* Every step is one of SellRights, or changes nothing there.
LEMMA StepOfRights ==
    ASSUME TInv, TInv', [Next]_vars
    PROVE  [Rights!Next]_(Rights!vars)
<1>1. PICK g : Elsewhere(g)
    BY StepElsewhere
<1>2. \A h \in Groups \ {g} :
        /\ bought'[h] = bought[h] /\ claimable'[h] = claimable[h]
        /\ claimed'[h] = claimed[h] /\ closes'[h] = closes[h]
  <2>1. ASSUME NEW h \in Groups \ {g}
        PROVE  /\ Len(buys'[h]) = Len(buys[h]) /\ Claimable(h)' = Claimable(h)
               /\ closes'[h] = closes[h]
               /\ ClaimOf(worker'[Loop], h) = ClaimOf(worker[Loop], h)
               /\ ClaimOf(worker'[Bot], h) = ClaimOf(worker[Bot], h)
    BY <1>1 DEF Elsewhere, Claimable, Workers
  <2>2. QED
    BY <2>1, RightsOf
<1>3. /\ bought = [h \in Groups |-> bought[h]] /\ bought' = [h \in Groups |-> bought'[h]]
      /\ claimable = [h \in Groups |-> claimable[h]]
      /\ claimable' = [h \in Groups |-> claimable'[h]]
      /\ claimed = [h \in Groups |-> claimed[h]]
      /\ claimed' = [h \in Groups |-> claimed'[h]]
    BY DEF bought, claimable, claimed
<1>4. /\ closes = [h \in Groups |-> closes[h]] /\ closes' = [h \in Groups |-> closes'[h]]
    BY DEF TInv, TypeOK
<1>5. CASE g \notin Groups
  <2>1. UNCHANGED <<bought, claimable, claimed, closes>>
    BY <1>2, <1>3, <1>4, <1>5
  <2>2. QED
    BY <2>1 DEF Rights!vars
<1>6. CASE g \in Groups
  <2>1. /\ bought' = [bought EXCEPT ![g] = bought'[g]]
        /\ claimable' = [claimable EXCEPT ![g] = claimable'[g]]
        /\ claimed' = [claimed EXCEPT ![g] = claimed'[g]]
        /\ closes' = [closes EXCEPT ![g] = closes'[g]]
    BY <1>2, <1>3, <1>4, <1>6, OneChanges
  <2>2. /\ bought'[g] = bought[g] => bought' = bought
        /\ claimable'[g] = claimable[g] => claimable' = claimable
        /\ claimed'[g] = claimed[g] => claimed' = claimed
        /\ closes'[g] = closes[g] => closes' = closes
    BY <1>2, <1>3, <1>4
  <2>3. CASE Buys(g)
    BY <1>6, <2>1, <2>2, <2>3 DEF Buys, Rights!Next, Rights!Buy
  <2>4. CASE Claims(g)
    BY <1>6, <2>1, <2>2, <2>4 DEF Claims, Rights!Next, Rights!Claim
  <2>5. CASE PutsBack(g)
    BY <1>6, <2>1, <2>2, <2>5 DEF PutsBack, Rights!Next, Rights!PutBack
  <2>6. CASE SellsOut(g)
    BY <1>6, <2>1, <2>2, <2>6 DEF SellsOut, Rights!Next, Rights!SellOut
  <2>7. CASE Loses(g)
    BY <1>6, <2>1, <2>2, <2>7 DEF Loses, Rights!Next, Rights!Lose
  <2>8. CASE Keeps(g)
    BY <2>2, <2>8 DEF Keeps, Rights!vars
  <2>9. QED
    BY <1>6, <2>3, <2>4, <2>5, <2>6, <2>7, <2>8, RightsStep
<1>7. QED
    BY <1>5, <1>6

\* The sellers implement SellRights: no order of signals, commands, retries,
\* late landings and failures makes a right that no buy gave, gives it to two
\* tasks, or reports a sale that no claim preceded.
THEOREM AutoSellRights == Spec => IsSellRights
<1>1. Init => Rights!Init
  <2> SUFFICES ASSUME Init
               PROVE  Rights!Init
    OBVIOUS
  <2>1. worker[Loop] = Idle /\ worker[Bot] = Idle
    BY DEF Init, Workers
  <2>2. bought = [g \in Groups |-> 0]
    BY DEF Init, bought
  <2>3. claimable = [g \in Groups |-> 0]
    BY DEF Init, claimable, Claimable
  <2>4. claimed = [g \in Groups |-> 0]
    BY <2>1, IdleClaims DEF claimed, Claim
  <2>5. QED
    BY <2>2, <2>3, <2>4 DEF Init, Rights!Init
<1>2. IInv /\ IInv' /\ [Next]_vars => [Rights!Next]_(Rights!vars)
    BY StepOfRights DEF IInv
<1>3. QED
    BY <1>1, <1>2, AutoSellInvariant, PTL DEF Spec, IsSellRights, Rights!Spec

-----------------------------------------------------------------------------
(* Active means that the buy landed, and Closed that it was sold, where one *)
(* group uses the mint and the user sells all or nothing.                   *)

\* Some buy reached the chain.
Bought == \E g \in Groups : \E i \in 1 .. Len(buys[g]) : buys[g][i].tx = "landed"

\* Until then no task has found a balance, or a closed position.
CleanTask(t) == t.pc \in {"idle", "balance", "zero"} /\ t.previous # "Closed"

\* Until then every position waits for its confirmation, or has failed.
Unconfirmed(g) == positions[g] # Absent => positions[g].state \in {"Confirming", "Failed"}

Clean == (\A w \in Workers : CleanTask(worker[w])) /\ (\A g \in Groups : Unconfirmed(g))

\* Nothing was bought and nobody believes so.
Untouched ==
    /\ ata = 0 /\ cache \in {0, Absent}
    /\ \A g \in Groups : \A i \in 1 .. Len(buys[g]) : buys[g][i].task # "assign"
    /\ Clean

\* A position that a method leaves unconfirmed keeps the map unconfirmed.
LEMMA PutUnconfirmed ==
    ASSUME TInv, \A g \in Groups : Unconfirmed(g), NEW h, NEW q, Put(h, q),
           h \in Groups /\ positions[h] # Absent =>
                q \in PositionRecord /\ q.state \in {"Confirming", "Failed"}
    PROVE  \A g \in Groups : Unconfirmed(g)'
BY PutStates DEF Unconfirmed, SameState

\* The tasks stay clean when one becomes a clean task.
LEMMA BecomeClean ==
    ASSUME TInv, \A w \in Workers : CleanTask(worker[w]),
           NEW w \in Workers, NEW u, Become(w, u), CleanTask(u)
    PROVE  \A v \in Workers : CleanTask(worker'[v])
BY DEF TInv, TypeOK, Become

\* An idle task is clean.
LEMMA IdleClean == CleanTask(Idle)
BY DEF CleanTask, Idle

\* The buys and the confirm tasks of an untouched mint: only a landing ends
\* that.
LEMMA UntouchedBuying ==
    ASSUME TInv, Untouched, NEW h \in Groups, Buying(h)
    PROVE  Clean' /\ (Untouched' \/ Bought')
<1>1. /\ buys \in [Groups -> Seq(BuyRecord)] /\ positions \in Map
      /\ ata = 0 /\ cache \in {0, Absent} /\ Clean
      /\ \A g \in Groups : \A i \in 1 .. Len(buys[g]) : buys[g][i].task # "assign"
    BY DEF TInv, TypeOK, Map, Untouched
<1>2. worker' = worker
    BY DEF Buying, Buy, BuyLands, BuyFails, ConfirmSees, ConfirmIsLate,
           ConfirmReadsTransaction, ConfirmFails, ConfirmSucceeds
<1>3. ASSUME NEW i \in 1 .. Len(buys[h])
      PROVE  buys[h][i] \in BuyRecord
    BY <1>1
<1>4. CASE Buy(h)
  <2>1. PICK estimate \in Estimates :
          /\ positions' = [positions EXCEPT ![h] =
                mark_confirming(mark_submitted(NewPosition(estimate, CachedBefore)))]
          /\ buys' = [buys EXCEPT ![h] =
                Append(@, [tx |-> "sent", estimate |-> estimate,
                           pre |-> CachedBefore, post |-> 0,
                           task |-> "poll", seen |-> 0])]
    BY <1>4 DEF Buy
  <2> DEFINE q == mark_confirming(mark_submitted(NewPosition(estimate, CachedBefore)))
             b == [tx |-> "sent", estimate |-> estimate, pre |-> CachedBefore,
                   post |-> 0, task |-> "poll", seen |-> 0]
  <2>2. estimate \in Tokens /\ CachedBefore \in Tokens
    BY AutoSellAssumption, BalanceTypes DEF TInv, TypeOK
  <2>3. q.state = "Confirming" /\ q \in PositionRecord
    BY <2>2, OpenedPosition
  <2>4. positions' = [positions EXCEPT ![h] = q]
    BY <2>1
  <2>5. buys' = [buys EXCEPT ![h] = Append(@, b)] /\ b.task = "poll"
    BY <2>1
  <2> HIDE DEF q, b
  <2>6. \A g \in Groups : Unconfirmed(g)'
    BY <1>1, <2>3, <2>4 DEF Map, Clean, Unconfirmed
  <2>7. ASSUME NEW g \in Groups, NEW j \in 1 .. Len(buys'[g])
        PROVE  buys'[g][j].task # "assign"
    <3>1. CASE g # h
        BY <1>1, <2>5, <2>7, <3>1
    <3>2. CASE g = h
      <4>1. buys'[g] = Append(buys[g], b) /\ buys[g] \in Seq(BuyRecord)
        BY <1>1, <2>5, <3>2
      <4>2. Len(buys[g]) \in Nat /\ Len(buys'[g]) = Len(buys[g]) + 1
        BY <4>1
      <4>3. CASE j = Len(buys[g]) + 1
        BY <2>5, <4>1, <4>3
      <4>4. CASE j \in 1 .. Len(buys[g])
        BY <1>1, <4>1, <4>4
      <4>5. QED
        BY <2>7, <4>2, <4>3, <4>4
    <3>3. QED
        BY <3>1, <3>2
  <2>8. ata' = ata /\ cache' = cache
    BY <1>4 DEF Buy
  <2>9. Untouched'
    BY <1>1, <1>2, <2>6, <2>7, <2>8 DEF Untouched, Clean
  <2>10. QED
    BY <2>9 DEF Untouched
<1>5. ASSUME NEW i \in 1 .. Len(buys[h]), NEW b \in BuyRecord, SetBuy(h, i, b),
             b.task # "assign", ata' = ata, cache' = cache,
             \A g \in Groups : Unconfirmed(g)'
      PROVE  Untouched'
  <2>1. \A g \in Groups : \A j \in 1 .. Len(buys'[g]) : buys'[g][j].task # "assign"
    BY <1>1, <1>5, SetBuyEffect
  <2>2. QED
    BY <1>1, <1>2, <1>5, <2>1 DEF Untouched, Clean
<1>6. positions' = positions => \A g \in Groups : Unconfirmed(g)'
    BY <1>1 DEF Clean, Unconfirmed
<1>7. ASSUME NEW i \in 1 .. Len(buys[h]), BuyLands(h, i)
      PROVE  Clean' /\ Bought'
  <2>1. PICK fill \in Fills :
            SetBuy(h, i, [buys[h][i] EXCEPT
                !.tx = "landed",
                !.post = IF buys[h][i].task \in {"poll", "late"} THEN ata + fill ELSE 0])
    BY <1>7 DEF BuyLands
  <2> DEFINE post == IF buys[h][i].task \in {"poll", "late"} THEN ata + fill ELSE 0
             b == [buys[h][i] EXCEPT !.tx = "landed", !.post = post]
  <2>2. b.tx = "landed"
    BY <1>3 DEF BuyRecord
  <2>3. buys' = [buys EXCEPT ![h][i] = b]
    BY <2>1 DEF SetBuy
  <2> HIDE DEF post, b
  <2>4. buys'[h] = [buys[h] EXCEPT ![i] = b] /\ buys[h] \in Seq(BuyRecord)
    BY <1>1, <2>3
  <2>5. i \in 1 .. Len(buys'[h]) /\ buys'[h][i] = b
    BY <2>4
  <2>6. Bought'
    BY <2>2, <2>5 DEF Bought
  <2>7. positions' = positions
    BY <1>7 DEF BuyLands
  <2>8. QED
    BY <1>1, <1>2, <1>6, <2>6, <2>7 DEF Clean
<1>8. ASSUME NEW i \in 1 .. Len(buys[h]), BuyFails(h, i)
      PROVE  Untouched'
  <2> DEFINE b == [buys[h][i] EXCEPT !.tx = "failed"]
  <2>1. b \in BuyRecord /\ b.task = buys[h][i].task
    BY <1>3 DEF BuyRecord
  <2>2. SetBuy(h, i, b) /\ positions' = positions /\ ata' = ata /\ cache' = cache
    BY <1>8 DEF BuyFails
  <2> HIDE DEF b
  <2>3. QED
    BY <1>1, <1>5, <1>6, <2>1, <2>2
<1>9. ASSUME NEW i \in 1 .. Len(buys[h]), ConfirmSees(h, i)
      PROVE  FALSE
  <2>1. PICK balance \in {ata} \cup ({cache} \ {Absent}) : balance > buys[h][i].pre
    BY <1>9 DEF ConfirmSees, Grown
  <2>2. balance = 0
    BY <1>1, <2>1
  <2>3. buys[h][i].pre \in Nat
    BY <1>3, PositionAssumption DEF BuyRecord, Tokens
  <2>4. QED
    BY <2>1, <2>2, <2>3
<1>10. ASSUME NEW i \in 1 .. Len(buys[h]), ConfirmIsLate(h, i)
       PROVE  Untouched'
  <2> DEFINE b == [buys[h][i] EXCEPT !.task = "late"]
  <2>1. b \in BuyRecord /\ b.task # "assign"
    BY <1>3 DEF BuyRecord
  <2>2. SetBuy(h, i, b) /\ positions' = positions /\ ata' = ata /\ cache' = cache
    BY <1>10 DEF ConfirmIsLate
  <2> HIDE DEF b
  <2>3. QED
    BY <1>5, <1>6, <2>1, <2>2
<1>11. ASSUME NEW i \in 1 .. Len(buys[h]), ConfirmReadsTransaction(h, i)
       PROVE  Clean' /\ Bought'
  <2> DEFINE b == [buys[h][i] EXCEPT !.task = "assign", !.seen = buys[h][i].post,
                                     !.post = 0]
  <2>1. b.tx = "landed"
    BY <1>3, <1>11 DEF BuyRecord, ConfirmReadsTransaction
  <2>2. buys' = [buys EXCEPT ![h][i] = b] /\ positions' = positions
    BY <1>11 DEF SetBuy, ConfirmReadsTransaction
  <2> HIDE DEF b
  <2>3. buys'[h] = [buys[h] EXCEPT ![i] = b] /\ buys[h] \in Seq(BuyRecord)
    BY <1>1, <2>2
  <2>4. i \in 1 .. Len(buys'[h]) /\ buys'[h][i] = b
    BY <2>3
  <2>5. Bought'
    BY <2>1, <2>4 DEF Bought
  <2>6. QED
    BY <1>1, <1>2, <1>6, <2>2, <2>5 DEF Clean
<1>12. ASSUME NEW i \in 1 .. Len(buys[h]), ConfirmFails(h, i)
       PROVE  Untouched'
  <2>1. /\ SetBuy(h, i, Done(buys[h][i])) /\ Put(h, mark_failed(positions[h]))
        /\ ata' = ata /\ cache' = cache
    BY <1>12 DEF ConfirmFails
  <2>2. Done(buys[h][i]) \in BuyRecord /\ Done(buys[h][i]).task # "assign"
    BY <1>3, PositionAssumption DEF BuyRecord, Done, Tokens
  <2>3. positions[h] # Absent => /\ mark_failed(positions[h]) \in PositionRecord
                                 /\ mark_failed(positions[h]).state = "Failed"
    BY <1>1, PositionMethods, MethodStates, PositionAssumption
       DEF Map, Tokens, PositionState
  <2>4. \A g \in Groups : Unconfirmed(g)'
    BY <1>1, <2>1, <2>3, PutUnconfirmed DEF Clean
  <2>5. QED
    BY <1>5, <2>1, <2>2, <2>4
<1>13. ASSUME NEW i \in 1 .. Len(buys[h]), ConfirmSucceeds(h, i)
       PROVE  FALSE
    BY <1>1, <1>13 DEF ConfirmSucceeds
<1>14. Untouched' => Clean'
    BY DEF Untouched
<1>15. QED
    BY <1>4, <1>7, <1>8, <1>9, <1>10, <1>11, <1>12, <1>13, <1>14 DEF Buying

\* A worker of an untouched mint finds nothing to sell.
LEMMA UntouchedWork ==
    ASSUME TInv, Untouched, NEW w \in Workers, Work(w)
    PROVE  Untouched'
<1> DEFINE t == worker[w]
           p == positions[t.group]
<1>1. /\ positions \in Map /\ t \in Task
      /\ ata = 0 /\ cache \in {0, Absent} /\ Clean
    BY DEF TInv, TypeOK, Map, Untouched
<1>2. CleanTask(t) /\ t.pc \in {"idle", "balance", "zero"}
    BY <1>1 DEF Clean, CleanTask
<1>3. t.group \in Groups /\ p # Absent =>
            p \in PositionRecord /\ p.state \in {"Confirming", "Failed"}
    BY <1>1 DEF Map, Clean, Unconfirmed
<1>4. ASSUME ata' = ata, cache' = cache, buys' = buys,
             \A v \in Workers : CleanTask(worker'[v]),
             \A g \in Groups : Unconfirmed(g)'
      PROVE  Untouched'
    BY <1>4 DEF Untouched, Clean
<1>5. 0 \in Tokens /\ "Pending" \in PositionState
    BY PositionAssumption DEF Tokens, PositionState
<1>6. ReadBalance(w) \/ FailZero(w)
    BY <1>2 DEF Work, MarkSelling, SendSell, SendFallback, SeesSold, SeesError,
                SeesNothing, Settle, Report, GiveUp
<1>7. CASE ReadBalance(w)
  <2>1. ASSUME NEW balance \in KnownBalance
        PROVE  ToSell(t.have, balance) = 0
    <3>1. balance = 0
        BY <1>1, AutoSellAssumption DEF KnownBalance, RpcBalance
    <3>2. t.have \in Nat
        BY <1>1, PositionAssumption DEF Task, Tokens
    <3>3. QED
        BY <3>1, <3>2 DEF ToSell, MinOf
  <2>2. /\ Put(t.group, record_zero_balance_sell_skip(p))
        /\ Jump(w, "zero") \/ Become(w, Idle)
        /\ ata' = ata /\ cache' = cache /\ buys' = buys
    BY <1>7, <2>1 DEF ReadBalance
  <2>3. t.group \in Groups /\ p # Absent =>
            /\ record_zero_balance_sell_skip(p) \in PositionRecord
            /\ record_zero_balance_sell_skip(p).state = p.state
    BY <1>3, <1>5, PositionMethods, MethodStates
  <2>4. \A g \in Groups : Unconfirmed(g)'
    BY <1>1, <1>3, <2>2, <2>3, PutUnconfirmed DEF Clean
  <2>5. PICK u : Become(w, u) /\ CleanTask(u)
    <3> DEFINE v == [t EXCEPT !.pc = "zero"]
    <3>1. /\ v.pc = "zero" /\ v.previous = t.previous
          /\ Jump(w, "zero") => Become(w, v)
        BY JumpIsBecome
    <3> HIDE DEF v
    <3>2. CleanTask(v)
        BY <1>2, <3>1 DEF CleanTask
    <3>3. QED
        BY <2>2, <3>1, <3>2, IdleClean
  <2>6. QED
    BY <1>1, <1>4, <2>2, <2>4, <2>5, BecomeClean DEF Clean
<1>8. CASE FailZero(w)
  <2>1. /\ Put(t.group, mark_failed(p)) /\ Become(w, Idle)
        /\ ata' = ata /\ cache' = cache /\ buys' = buys
    BY <1>8 DEF FailZero
  <2>2. t.group \in Groups /\ p # Absent =>
            mark_failed(p) \in PositionRecord /\ mark_failed(p).state = "Failed"
    BY <1>3, <1>5, PositionMethods, MethodStates
  <2>3. \A g \in Groups : Unconfirmed(g)'
    BY <1>1, <2>1, <2>2, PutUnconfirmed DEF Clean
  <2>4. QED
    BY <1>1, <1>4, <2>1, <2>3, BecomeClean, IdleClean DEF Clean
<1>9. QED
    BY <1>6, <1>7, <1>8

\* A task of an untouched mint begins clean, and only by a whole sale.
LEMMA UntouchedBegin ==
    ASSUME TInv, Untouched, Percents \subseteq {100},
           BeginSignal \/ \E h \in Groups : Commanding(h)
    PROVE  Untouched'
<1>1. positions \in Map /\ Clean
    BY DEF TInv, TypeOK, Map, Untouched
<1>2. ASSUME NEW h, NEW reason, positions[h] # Absent, h \in Groups
      PROVE  CleanTask(Snapshot(h, reason))
  <2>1. positions[h].state # "Closed"
    BY <1>1, <1>2 DEF Clean, Unconfirmed
  <2>2. QED
    BY <2>1 DEF Snapshot, Idle, CleanTask
<1>3. ASSUME NEW w \in Workers, NEW u, Become(w, u), CleanTask(u)
      PROVE  \A v \in Workers : CleanTask(worker'[v])
    BY <1>1, <1>3, BecomeClean DEF Clean
<1>4. /\ positions' = positions /\ ata' = ata /\ cache' = cache /\ buys' = buys
    BY DEF BeginSignal, Commanding, BeginManual, BeginPartial
<1>5. CASE BeginSignal
  <2>1. Head(signals) \in Signal
    BY <1>5 DEF BeginSignal, TInv, TypeOK
  <2>2. Head(signals).group \in Groups
    BY <2>1 DEF Signal
  <2>3. \/ worker' = worker
        \/ /\ positions[Head(signals).group] # Absent
           /\ Become(Loop, Snapshot(Head(signals).group, Head(signals).reason))
    BY <1>5 DEF BeginSignal
  <2>4. \A v \in Workers : CleanTask(worker'[v])
    BY <1>1, <1>2, <1>3, <2>2, <2>3 DEF Clean, Workers
  <2>5. QED
    BY <1>1, <1>4, <2>4 DEF Untouched, Clean, Unconfirmed
<1>6. ASSUME NEW h \in Groups, BeginManual(h)
      PROVE  Untouched'
  <2>1. positions[h] # Absent /\ Become(Bot, Snapshot(h, "Manual"))
    BY <1>6 DEF BeginManual
  <2>2. \A v \in Workers : CleanTask(worker'[v])
    BY <1>2, <1>3, <2>1 DEF Workers
  <2>3. QED
    BY <1>1, <1>4, <2>2 DEF Untouched, Clean, Unconfirmed
<1>7. QED
    BY <1>5, <1>6 DEF Commanding

\* So the reaper and the fallback monitor.
LEMMA UntouchedMonitor ==
    ASSUME TInv, Untouched, Monitor
    PROVE  Untouched'
<1>1. /\ positions \in Map /\ Clean /\ fallback \in Confirmation \cup {Absent}
    BY DEF TInv, TypeOK, Map, Untouched
<1>2. worker' = worker /\ ata' = ata /\ cache' = cache /\ buys' = buys
    BY DEF Monitor, FallbackAsks, Reap, FallbackFails, FallbackHangs
<1>3. ASSUME \A g \in Groups : Unconfirmed(g)'
      PROVE  Untouched'
    BY <1>2, <1>3 DEF Untouched, Clean
<1>4. CASE (\E h \in Groups : FallbackAsks(h)) \/ FallbackHangs
  <2>1. positions' = positions
    BY <1>4 DEF FallbackAsks, FallbackHangs
  <2>2. QED
    BY <1>1, <1>3, <2>1 DEF Clean, Unconfirmed
<1>5. ASSUME NEW h \in Groups, Reap(h)
      PROVE  Untouched'
  <2>1. positions' = [positions EXCEPT ![h] = Absent]
    BY <1>5 DEF Reap
  <2>2. \A g \in Groups : Unconfirmed(g)'
    BY <1>1, <2>1 DEF Map, Clean, Unconfirmed
  <2>3. QED
    BY <1>3, <2>2
<1>6. CASE FallbackFails
  <2> DEFINE h == fallback.group
  <2>1. h \in Groups /\ Put(h, mark_failed(positions[h]))
    BY <1>1, <1>6 DEF FallbackFails, Confirmation
  <2>2. positions[h] # Absent => /\ mark_failed(positions[h]) \in PositionRecord
                                 /\ mark_failed(positions[h]).state = "Failed"
    BY <1>1, <2>1, PositionMethods, MethodStates, PositionAssumption
       DEF Map, Tokens, PositionState
  <2> HIDE DEF h
  <2>3. \A g \in Groups : Unconfirmed(g)'
    BY <1>1, <2>1, <2>2, PutUnconfirmed DEF Clean
  <2>4. QED
    BY <1>3, <2>3
<1>7. QED
    BY <1>4, <1>5, <1>6 DEF Monitor

\* An untouched mint stays so until a buy lands, and even that step leaves the
\* tasks and the positions clean.
LEMMA UntouchedStep ==
    ASSUME TInv, Untouched, Percents \subseteq {100}, [Next]_vars
    PROVE  Clean' /\ (Untouched' \/ Bought')
<1>1. Untouched' => Clean'
    BY DEF Untouched
<1>2. ASSUME UNCHANGED <<positions, worker, buys>>, ata' = 0, cache' \in {0, Absent}
      PROVE  Untouched'
    BY <1>2 DEF Untouched, Clean, CleanTask, Unconfirmed
<1>3. ata = 0 /\ cache \in {0, Absent}
    BY DEF Untouched
<1>4. CASE \E h \in Groups : Asking(h)
  <2>1. /\ UNCHANGED <<positions, worker, buys>>
        /\ ata' = ata /\ cache' = cache
    BY <1>4 DEF Asking, PriceExit, LifetimeExit, FollowExit, SellAll, Ask
  <2>2. QED
    BY <1>1, <1>2, <1>3, <2>1
<1>5. CASE AtaUpdate \/ Prune \/ UNCHANGED vars
  <2>1. /\ UNCHANGED <<positions, worker, buys>>
        /\ ata' = ata /\ cache' \in {cache, ata, Absent}
    BY <1>5 DEF AtaUpdate, Prune, vars
  <2>2. QED
    BY <1>1, <1>2, <1>3, <2>1
<1>6. CASE PartialWork
  <2>1. Bot \in Workers /\ Clean
    BY DEF Workers, Untouched
  <2>2. worker[Bot].pc \in {"idle", "balance", "zero"}
    BY <2>1 DEF Clean, CleanTask
  <2>3. QED
    BY <1>6, <2>2 DEF PartialWork, MarkPartial, SendPartial, EndPartial
<1>7. ASSUME NEW x \in txs, SellLands(x) \/ SellExpires(x)
      PROVE  Untouched'
  <2>1. x.amount \in Nat
    BY PositionAssumption DEF TInv, TypeOK, SellTx, Tokens
  <2>2. ata' = 0 /\ cache' = cache /\ UNCHANGED <<positions, worker, buys>>
    BY <1>3, <1>7, <2>1 DEF SellLands, SellExpires
  <2>3. QED
    BY <1>2, <1>3, <2>2
<1>8. QED
    BY <1>1, <1>4, <1>5, <1>6, <1>7, UntouchedBuying, UntouchedBegin, UntouchedMonitor,
       UntouchedWork DEF Next

\* Nobody else changes the record of the buys.
LEMMA OnlyBuying ==
    ASSUME [Next]_vars
    PROVE  buys' = buys \/ \E h \in Groups : Buying(h)
BY DEF Next, Asking, PriceExit, LifetimeExit, FollowExit, SellAll, Ask,
       Commanding, BeginManual, BeginPartial, AtaUpdate, Prune, Monitor,
       FallbackAsks, Reap, FallbackFails, FallbackHangs, BeginSignal,
       PartialWork, MarkPartial, SendPartial, EndPartial, Work, ReadBalance,
       FailZero, MarkSelling, SendSell, SendFallback, SeesSold, SeesError,
       SeesNothing, Settle, Report, GiveUp, SellLands, SellExpires, vars

\* What landed stays landed.
LEMMA BoughtStays ==
    ASSUME TInv, Bought, [Next]_vars
    PROVE  Bought'
<1>0. PICK g \in Groups : \E i \in 1 .. Len(buys[g]) : buys[g][i].tx = "landed"
    BY DEF Bought
<1>1. PICK i \in 1 .. Len(buys[g]) : buys[g][i].tx = "landed"
    BY <1>0
<1>2. /\ buys \in [Groups -> Seq(BuyRecord)] /\ buys[g] \in Seq(BuyRecord)
    BY DEF TInv, TypeOK
<1>3. ASSUME i \in 1 .. Len(buys'[g]), buys'[g][i].tx = "landed"
      PROVE  Bought'
    BY <1>3 DEF Bought
<1>4. CASE buys' = buys
    BY <1>1, <1>3, <1>4
<1>5. ASSUME NEW h \in Groups, NEW j \in 1 .. Len(buys[h]), NEW b, SetBuy(h, j, b),
             buys[h][j].tx = "landed" => b.tx = "landed"
      PROVE  Bought'
  <2>1. CASE h # g
    BY <1>1, <1>2, <1>3, <1>5, <2>1 DEF SetBuy
  <2>2. CASE h = g
    <3>1. buys'[g] = [buys[g] EXCEPT ![j] = b]
        BY <1>2, <1>5, <2>2 DEF SetBuy
    <3>2. i \in 1 .. Len(buys'[g]) /\ buys'[g][i] = IF i = j THEN b ELSE buys[g][i]
        BY <1>1, <1>2, <3>1
    <3>3. QED
        BY <1>1, <1>3, <1>5, <2>2, <3>2
  <2>3. QED
    BY <2>1, <2>2
<1>6. ASSUME NEW h \in Groups, Buy(h)
      PROVE  Bought'
  <2>1. \E b : buys' = [buys EXCEPT ![h] = Append(@, b)]
    BY <1>6 DEF Buy
  <2>2. i \in 1 .. Len(buys'[g]) /\ buys'[g][i] = buys[g][i]
    BY <1>1, <1>2, <2>1
  <2>3. QED
    BY <1>1, <1>3, <2>2
<1>7. ASSUME NEW h \in Groups, Buying(h)
      PROVE  Bought'
  <2>1. ASSUME NEW j \in 1 .. Len(buys[h])
        PROVE  buys[h][j] \in BuyRecord
    BY <1>2
  <2>2. ASSUME NEW j \in 1 .. Len(buys[h]), NEW post
        PROVE  [buys[h][j] EXCEPT !.tx = "landed", !.post = post].tx = "landed"
    BY <2>1 DEF BuyRecord
  <2>3. ASSUME NEW j \in 1 .. Len(buys[h]), NEW seen
        PROVE  /\ [buys[h][j] EXCEPT !.task = "assign", !.seen = seen, !.post = 0].tx
                    = buys[h][j].tx
               /\ [buys[h][j] EXCEPT !.task = "late"].tx = buys[h][j].tx
               /\ Done(buys[h][j]).tx = buys[h][j].tx
    BY <2>1 DEF BuyRecord, Done
  <2>4. ASSUME NEW j \in 1 .. Len(buys[h]), BuyLands(h, j)
        PROVE  Bought'
    BY <1>5, <2>2, <2>4 DEF BuyLands
  <2>5. ASSUME NEW j \in 1 .. Len(buys[h]), BuyFails(h, j)
        PROVE  Bought'
    BY <1>5, <2>5 DEF BuyFails
  <2>6. ASSUME NEW j \in 1 .. Len(buys[h]),
               \/ ConfirmSees(h, j) \/ ConfirmIsLate(h, j)
               \/ ConfirmReadsTransaction(h, j)
               \/ ConfirmFails(h, j) \/ ConfirmSucceeds(h, j)
        PROVE  Bought'
    BY <1>5, <2>3, <2>6 DEF ConfirmSees, ConfirmIsLate, ConfirmReadsTransaction,
                            ConfirmFails, ConfirmSucceeds
  <2>7. QED
    BY <1>6, <1>7, <2>4, <2>5, <2>6 DEF Buying
<1>8. QED
    BY <1>4, <1>7, OnlyBuying

\* Every mint is untouched, or bought.
LEMMA AutoSellBought ==
    ASSUME Percents \subseteq {100}
    PROVE  Spec => [](TInv /\ (Bought \/ Untouched))
<1>1. Init => TInv /\ Untouched
  <2>1. Init => TInv
    BY InitTypes
  <2>2. Init => Untouched
    BY IdleClean DEF Init, Untouched, Clean, Unconfirmed
  <2>3. QED
    BY <2>1, <2>2
<1>2. TInv /\ (Bought \/ Untouched) /\ [Next]_vars => (TInv /\ (Bought \/ Untouched))'
    BY StepTypes, UntouchedStep, BoughtStays
<1>3. QED
    BY <1>1, <1>2, PTL DEF Spec

\* A position becomes Active only after a buy has landed, whatever the stream,
\* the queries, the retries and the put-back states do: true of a mint that
\* one group buys and whose sales are whole ones.
THEOREM AutoSellActive ==
    ASSUME NEW g, Groups = {g}, Percents \subseteq {100}
    PROVE  Spec => []ActiveMeansLanded
<1>1. Bought => ActiveMeansLanded
    BY DEF Bought, ActiveMeansLanded
<1>2. Untouched => ActiveMeansLanded
    BY DEF Untouched, Clean, Unconfirmed, ActiveMeansLanded
<1>3. QED
    BY <1>1, <1>2, AutoSellBought, PTL

\* A task that is about to trust an empty cache, that has seen the whole
\* balance sold, or that found the position closed, is right: the wallet is
\* empty.
TaskSure(t, cached, held) ==
    /\ t.pc \in {"mark", "send", "wait", "fallback"} /\ cached = 0 => held = 0
    /\ t.pc = "success" /\ t.expected = 0 => held = 0
    /\ t.previous = "Closed" => held = 0

Closed(g) == positions[g] # Absent /\ positions[g].state = "Closed"

Sure ==
    /\ \A w \in Workers : TaskSure(worker[w], cache, ata)
    /\ \A g \in Groups : Closed(g) => ata = 0

OneBuy == \A g \in Groups : Len(buys[g]) <= 1

\* With no task at work and no position closed there is nothing to be wrong
\* about.
LEMMA CleanIsSure == Clean => Sure
BY DEF Clean, CleanTask, Unconfirmed, Sure, TaskSure, Closed

\* An idle task is sure of nothing.
LEMMA IdleSure == \A cached, held : TaskSure(Idle, cached, held)
BY DEF TaskSure, Idle

\* A task that goes on without settling is as sure as before.
LEMMA SureFollows ==
    ASSUME NEW t, NEW u, TaskSure(t, cache, ata), u.previous = t.previous,
           u.pc # "success",
           u.pc \in {"mark", "send", "wait", "fallback"}
                => t.pc \in {"mark", "send", "wait", "fallback"}
    PROVE  TaskSure(u, cache, ata)
BY DEF TaskSure

\* A wallet that stays empty, and a cache that is kept, refreshed or dropped,
\* prove no task wrong.
LEMMA SureKept ==
    ASSUME NEW t, TaskSure(t, cache, ata), ata = 0 => ata' = 0,
           cache' \in {cache, ata, Absent}
    PROVE  TaskSure(t, cache', ata')
BY AutoSellAssumption, PositionAssumption DEF TaskSure, Tokens

\* What a step has to show.
LEMMA SureStep ==
    ASSUME TInv, Sure, ata = 0 => ata' = 0, cache' \in {cache, ata, Absent},
           NEW w \in Workers,
           \/ UNCHANGED worker
           \/ \E u : Become(w, u) /\ TaskSure(u, cache, ata),
           \A g \in Groups : Closed(g)' => ata = 0
    PROVE  Sure'
<1>1. ASSUME NEW v \in Workers
      PROVE  TaskSure(worker'[v], cache', ata')
  <2>1. TaskSure(worker'[v], cache, ata)
    BY DEF Sure, TInv, TypeOK, Become
  <2>2. QED
    BY <2>1, SureKept
<1>2. QED
    BY <1>1 DEF Sure

\* get_mut and a method that closes nothing that is not sold.
LEMMA PutSure ==
    ASSUME TInv, Sure, NEW h, NEW q, Put(h, q),
           h \in Groups /\ positions[h] # Absent =>
                q \in PositionRecord /\ (q.state = "Closed" => ata = 0)
    PROVE  \A g \in Groups : Closed(g)' => ata = 0
<1>1. ASSUME NEW g \in Groups, Closed(g)'
      PROVE  ata = 0
  <2>1. CASE g = h
    <3>1. positions[g] # Absent
        BY <1>1, <2>1, PutEffect DEF TInv, TypeOK, Map, Closed
    <3>2. positions'[g].state = q.state
        BY <2>1, <3>1, PutStates
    <3>3. QED
        BY <1>1, <2>1, <3>1, <3>2 DEF Closed
  <2>2. CASE g # h
    <3>1. Closed(g)
        BY <1>1, <2>2, PutStates DEF Closed, SameState
    <3>2. QED
        BY <3>1 DEF Sure
  <2>3. QED
    BY <2>1, <2>2
<1>2. QED
    BY <1>1

\* When the only buy has landed no other buy is sent or lands.
LEMMA BoughtOnce ==
    ASSUME NEW g, Groups = {g}, MaxBuys <= 1, TInv, OneBuy, Bought
    PROVE  /\ ~Buy(g)
           /\ \A i \in 1 .. Len(buys[g]) : ~BuyLands(g, i)
<1>1. buys[g] \in Seq(BuyRecord) /\ Len(buys[g]) <= 1 /\ Len(buys[g]) \in Nat
    BY DEF TInv, TypeOK, OneBuy
<1>2. PICK i \in 1 .. Len(buys[g]) : buys[g][i].tx = "landed"
    BY DEF Bought
<1>3. Len(buys[g]) = 1 /\ i = 1
  <2>1. \A n \in Nat : \A j \in 1 .. n : n <= 1 => n = 1 /\ j = 1
    OBVIOUS
  <2>2. QED
    BY <1>1, <2>1
<1>4. ~Buy(g)
    BY <1>3, AutoSellAssumption DEF Buy
<1>5. ASSUME NEW j \in 1 .. Len(buys[g]), BuyLands(g, j)
      PROVE  FALSE
  <2>1. j = i
    BY <1>1, <1>3
  <2>2. QED
    BY <1>2, <1>5, <2>1 DEF BuyLands
<1>6. QED
    BY <1>4, <1>5

\* The buys stay as few as the bound allows.
LEMMA OneBuyStays ==
    ASSUME MaxBuys <= 1, TInv, OneBuy, [Next]_vars
    PROVE  OneBuy'
<1>1. buys \in [Groups -> Seq(BuyRecord)]
    BY DEF TInv, TypeOK
<1>2. CASE buys' = buys
    BY <1>2 DEF OneBuy
<1>3. ASSUME NEW h \in Groups, Buy(h)
      PROVE  OneBuy'
  <2>1. PICK b : buys' = [buys EXCEPT ![h] = Append(@, b)]
    BY <1>3 DEF Buy
  <2>2. Len(buys[h]) \in Nat /\ Len(buys[h]) < MaxBuys
    BY <1>1, <1>3 DEF Buy
  <2>3. buys'[h] = Append(buys[h], b) /\ \A g \in Groups : g # h => buys'[g] = buys[g]
    BY <1>1, <2>1
  <2>4. Len(buys'[h]) = Len(buys[h]) + 1
    BY <1>1, <2>3
  <2>5. Len(buys'[h]) <= 1
    BY <2>2, <2>4, AutoSellAssumption
  <2>6. QED
    BY <2>3, <2>5 DEF OneBuy
<1>4. ASSUME NEW h \in Groups, NEW i \in 1 .. Len(buys[h]), NEW b, SetBuy(h, i, b)
      PROVE  OneBuy'
  <2>1. /\ buys'[h] = [buys[h] EXCEPT ![i] = b]
        /\ \A g \in Groups : g # h => buys'[g] = buys[g]
    BY <1>1, <1>4 DEF SetBuy
  <2>2. Len(buys'[h]) = Len(buys[h])
    BY <1>1, <2>1
  <2>3. QED
    BY <2>1, <2>2 DEF OneBuy
<1>5. ASSUME NEW h \in Groups, Buying(h)
      PROVE  OneBuy'
    BY <1>3, <1>4, <1>5
       DEF Buying, BuyLands, BuyFails, ConfirmSees, ConfirmIsLate,
           ConfirmReadsTransaction, ConfirmFails, ConfirmSucceeds
<1>6. QED
    BY <1>2, <1>5, OnlyBuying

\* The steps of a buy close nothing.
LEMMA SureBuying ==
    ASSUME NEW g, Groups = {g}, MaxBuys <= 1, TInv, OneBuy, Bought, Sure, Buying(g)
    PROVE  Sure'
<1>1. positions \in Map /\ g \in Groups /\ Loop \in Workers
    BY DEF TInv, TypeOK, Map, Workers
<1>2. PICK i \in 1 .. Len(buys[g]) :
          \/ BuyFails(g, i) \/ ConfirmSees(g, i) \/ ConfirmIsLate(g, i)
          \/ ConfirmReadsTransaction(g, i) \/ ConfirmFails(g, i) \/ ConfirmSucceeds(g, i)
    BY BoughtOnce DEF Buying
<1>3. worker' = worker /\ ata' = ata /\ cache' = cache
    BY <1>2 DEF BuyFails, ConfirmSees, ConfirmIsLate, ConfirmReadsTransaction,
                ConfirmFails, ConfirmSucceeds
<1>4. \A h \in Groups : Closed(h)' => ata = 0
  <2>1. CASE positions' = positions
    BY <2>1 DEF Closed, Sure
  <2>2. CASE ConfirmFails(g, i)
    <3>1. Put(g, mark_failed(positions[g]))
        BY <2>2 DEF ConfirmFails
    <3>2. positions[g] # Absent => /\ mark_failed(positions[g]) \in PositionRecord
                                   /\ mark_failed(positions[g]).state = "Failed"
        BY <1>1, PositionMethods, MethodStates, PositionAssumption
           DEF Map, Tokens, PositionState
    <3>3. QED
        BY <3>1, <3>2, PutSure
  <2>3. CASE ConfirmSucceeds(g, i)
    <3> DEFINE a == Assigned(buys[g][i])
    <3>1. Put(g, mark_active(positions[g], a))
        BY <2>3 DEF ConfirmSucceeds
    <3>2. a \in Tokens
        BY <1>1, <2>3, AssignedType DEF ConfirmSucceeds
    <3> HIDE DEF a
    <3>3. positions[g] # Absent =>
            /\ mark_active(positions[g], a) \in PositionRecord
            /\ mark_active(positions[g], a).state \in {"Active", positions[g].state}
        BY <1>1, <3>2, PositionMethods, MethodStates DEF Map, PositionState
    <3>4. positions[g] # Absent /\ mark_active(positions[g], a).state = "Closed"
                => ata = 0
        BY <1>1, <3>3 DEF Sure, Closed
    <3>5. QED
        BY <3>1, <3>3, <3>4, PutSure
  <2>4. QED
    BY <1>2, <2>1, <2>2, <2>3
       DEF BuyFails, ConfirmSees, ConfirmIsLate, ConfirmReadsTransaction
<1>5. QED
    BY <1>1, <1>3, <1>4, SureStep

\* A task begins with what the position says.
LEMMA SureBegin ==
    ASSUME TInv, Sure, BeginSignal \/ \E h \in Groups : Commanding(h)
    PROVE  Sure'
<1>1. Loop \in Workers /\ Bot \in Workers /\ positions \in Map
    BY DEF Workers, TInv, TypeOK, Map
<1>2. /\ positions' = positions /\ ata' = ata /\ cache' = cache
    BY DEF BeginSignal, Commanding, BeginManual, BeginPartial
<1>3. \A h \in Groups : Closed(h)' => ata = 0
    BY <1>2 DEF Closed, Sure
<1>4. ASSUME NEW h \in Groups, NEW reason, positions[h] # Absent
      PROVE  /\ TaskSure(Snapshot(h, reason), cache, ata)
             /\ Snapshot(h, reason).previous = "Closed" => ata = 0
  <2>1. /\ Snapshot(h, reason).pc = "balance"
        /\ Snapshot(h, reason).previous = positions[h].state
    BY DEF Snapshot, Idle
  <2>2. Snapshot(h, reason).previous = "Closed" => ata = 0
    BY <1>4, <2>1 DEF Sure, Closed
  <2>3. QED
    BY <2>1, <2>2 DEF TaskSure
<1>5. CASE BeginSignal
  <2>1. Head(signals) \in Signal
    BY <1>5 DEF BeginSignal, TInv, TypeOK
  <2>2. Head(signals).group \in Groups
    BY <2>1 DEF Signal
  <2>3. \/ UNCHANGED worker
        \/ /\ positions[Head(signals).group] # Absent
           /\ Become(Loop, Snapshot(Head(signals).group, Head(signals).reason))
    BY <1>5 DEF BeginSignal
  <2>4. UNCHANGED worker \/ \E u : Become(Loop, u) /\ TaskSure(u, cache, ata)
    BY <1>4, <2>2, <2>3
  <2>5. QED
    BY <1>1, <1>2, <1>3, <2>4, SureStep
<1>6. ASSUME NEW h \in Groups, BeginManual(h)
      PROVE  Sure'
  <2>1. positions[h] # Absent /\ Become(Bot, Snapshot(h, "Manual"))
    BY <1>6 DEF BeginManual
  <2>2. \E u : Become(Bot, u) /\ TaskSure(u, cache, ata)
    BY <1>4, <2>1
  <2>3. QED
    BY <1>1, <1>2, <1>3, <2>2, SureStep
<1>7. ASSUME NEW h \in Groups, NEW percent \in Percents, BeginPartial(h, percent)
      PROVE  Sure'
  <2> DEFINE t == Snapshot(h, "Manual")
             u == [t EXCEPT !.pc = "partial_mark", !.have = 0,
                            !.amount = (t.have * percent) \div 100]
  <2>1. positions[h] # Absent /\ Become(Bot, u)
    BY <1>7 DEF BeginPartial
  <2>2. t \in Task /\ TaskSure(t, cache, ata)
    BY <1>1, <1>4, <2>1, SnapshotTask DEF Reasons
  <2>3. u.pc = "partial_mark" /\ u.previous = t.previous
    <3> HIDE DEF t
    <3>1. QED
        BY <2>2 DEF Task
  <2> HIDE DEF u
  <2>4. TaskSure(u, cache, ata)
    BY <2>2, <2>3, SureFollows
  <2>5. QED
    BY <1>1, <1>2, <1>3, <2>1, <2>4, SureStep
<1>8. QED
    BY <1>5, <1>6, <1>7 DEF Commanding

\* The reaper and the fallback monitor drop and fail.
LEMMA SureMonitor ==
    ASSUME TInv, Sure, Monitor
    PROVE  Sure'
<1>1. /\ positions \in Map /\ Loop \in Workers
      /\ fallback \in Confirmation \cup {Absent}
    BY DEF TInv, TypeOK, Map, Workers
<1>2. worker' = worker /\ ata' = ata /\ cache' = cache
    BY DEF Monitor, FallbackAsks, Reap, FallbackFails, FallbackHangs
<1>3. CASE (\E h \in Groups : FallbackAsks(h)) \/ FallbackHangs
  <2>1. positions' = positions
    BY <1>3 DEF FallbackAsks, FallbackHangs
  <2>2. QED
    BY <1>1, <1>2, <2>1, SureStep DEF Closed, Sure
<1>4. ASSUME NEW h \in Groups, Reap(h)
      PROVE  Sure'
  <2>1. positions' = [positions EXCEPT ![h] = Absent]
    BY <1>4 DEF Reap
  <2>2. \A g \in Groups : Closed(g)' => ata = 0
    BY <1>1, <2>1 DEF Map, Closed, Sure
  <2>3. QED
    BY <1>1, <1>2, <2>2, SureStep
<1>5. CASE FallbackFails
  <2> DEFINE h == fallback.group
  <2>1. h \in Groups /\ Put(h, mark_failed(positions[h]))
    BY <1>1, <1>5 DEF FallbackFails, Confirmation
  <2>2. positions[h] # Absent => /\ mark_failed(positions[h]) \in PositionRecord
                                 /\ mark_failed(positions[h]).state = "Failed"
    BY <1>1, <2>1, PositionMethods, MethodStates, PositionAssumption
       DEF Map, Tokens, PositionState
  <2> HIDE DEF h
  <2>3. \A g \in Groups : Closed(g)' => ata = 0
    BY <2>1, <2>2, PutSure
  <2>4. QED
    BY <1>1, <1>2, <2>3, SureStep
<1>6. QED
    BY <1>3, <1>4, <1>5 DEF Monitor

\* A worker closes a position only when it has seen the wallet empty.
LEMMA SureWork ==
    ASSUME TInv, Sure, ~RpcFails, NEW w \in Workers, Work(w)
    PROVE  Sure'
<1> DEFINE t == worker[w]
           p == positions[t.group]
<1>1. /\ positions \in Map /\ t \in Task /\ TaskSure(t, cache, ata)
      /\ ata \in Tokens /\ cache \in Tokens \cup {Absent}
    BY DEF TInv, TypeOK, Map, Sure
<1>2. t.group \in Groups /\ p # Absent => p \in PositionRecord
    BY <1>1 DEF Map
<1>3. /\ 0 \in Tokens /\ t.previous \in PositionState /\ t.amount \in Tokens
      /\ t.have \in Nat
    BY <1>1, PositionAssumption DEF Task, Tokens
<1>4. ata' = ata /\ cache' \in {cache, Absent}
    BY DEF Work, ReadBalance, FailZero, MarkSelling, SendSell, SendFallback, SeesSold,
           SeesError, SeesNothing, Settle, Report, GiveUp
<1>5. ASSUME NEW u, Become(w, u), TaskSure(u, cache, ata),
             \A g \in Groups : Closed(g)' => ata = 0
      PROVE  Sure'
    BY <1>4, <1>5, SureStep
<1>6. positions' = positions => \A g \in Groups : Closed(g)' => ata = 0
    BY DEF Closed, Sure
<1>7. t.group \in Groups /\ p # Absent /\ p.state = "Closed" => ata = 0
    BY DEF Sure, Closed
<1>8. CASE SendSell(w) \/ SendFallback(w) \/ SeesError(w) \/ SeesNothing(w)
  <2>1. t.pc \in {"send", "fallback", "wait"} /\ positions' = positions
    BY <1>8 DEF SendSell, SendFallback, SeesError, SeesNothing
  <2>2. ASSUME NEW u, u.previous = t.previous, u.pc # "success"
        PROVE  TaskSure(u, cache, ata)
    <3> HIDE DEF t
    <3>1. QED
        BY <1>1, <2>1, <2>2, SureFollows
  <2>3. /\ NextAttempt(t).previous = t.previous /\ NextAttempt(t).pc # "success"
        /\ OnChainError(t).previous = t.previous /\ OnChainError(t).pc # "success"
        /\ [t EXCEPT !.pc = "fallback", !.venue = "instead"].previous = t.previous
        /\ [t EXCEPT !.pc = "fallback", !.venue = "instead"].pc # "success"
        /\ [t EXCEPT !.pc = "fallback", !.venue = "after"].previous = t.previous
        /\ [t EXCEPT !.pc = "fallback", !.venue = "after"].pc # "success"
    <3> HIDE DEF t
    <3>1. QED
        BY <1>1 DEF Task, NextAttempt, OnChainError
  <2>4. Jump(w, "wait") => \E u : Become(w, u) /\ TaskSure(u, cache, ata)
    BY <2>2, JumpIsBecome
  <2>5. \E u : Become(w, u) /\ TaskSure(u, cache, ata)
    BY <1>8, <2>2, <2>3, <2>4 DEF SendSell, SendFallback, SeesError, SeesNothing
  <2>6. QED
    BY <1>5, <1>6, <2>1, <2>5
<1>9. CASE SeesSold(w)
  <2> DEFINE u == [t EXCEPT !.pc = "success"]
  <2>1. /\ t.pc = "wait" /\ positions' = positions
        /\ \E balance \in RpcBalance \cup ({cache} \ {Absent}) : Arrived(balance, t)
    BY <1>9 DEF SeesSold
  <2>2. Become(w, u) /\ u.pc = "success" /\ u.previous = t.previous
    BY <1>9, JumpIsBecome DEF SeesSold
  <2>3. u.expected = t.expected
    <3> HIDE DEF t
    <3>1. QED
        BY <1>1 DEF Task
  <2>4. ASSUME t.expected = 0
        PROVE  ata = 0
    <3>1. PICK balance \in RpcBalance \cup ({cache} \ {Absent}) : balance <= 0
        BY <2>1, <2>4 DEF Arrived
    <3>2. balance = ata \/ (balance = cache /\ cache \in Tokens)
        BY <1>1, <3>1 DEF RpcBalance
    <3>3. balance \in Nat
        BY <1>1, <3>2, PositionAssumption DEF Tokens
    <3>4. balance = 0
        BY <3>1, <3>3
    <3>5. QED
        BY <1>1, <2>1, <3>2, <3>4 DEF TaskSure
  <2> HIDE DEF u
  <2>5. TaskSure(u, cache, ata)
    BY <1>1, <2>2, <2>3, <2>4 DEF TaskSure
  <2>6. QED
    BY <1>5, <1>6, <2>1, <2>2, <2>5
<1>10. CASE ReadBalance(w)
  <2>1. PICK balance \in KnownBalance :
          LET amount == ToSell(t.have, balance)
          IN  IF amount > 0
                THEN /\ Become(w, [t EXCEPT !.pc = "mark", !.have = 0,
                                            !.amount = amount,
                                            !.expected = balance - amount])
                     /\ UNCHANGED positions
                ELSE /\ Put(t.group, record_zero_balance_sell_skip(p))
                     /\ Jump(w, "zero") \/ Become(w, Idle)
    BY <1>10 DEF ReadBalance
  <2> DEFINE amount == ToSell(t.have, balance)
             u == [t EXCEPT !.pc = "mark", !.have = 0, !.amount = amount,
                            !.expected = balance - amount]
  <2>2. CASE amount > 0
    <3>1. Become(w, u) /\ positions' = positions
        BY <2>1, <2>2
    <3>2. u.pc = "mark" /\ u.previous = t.previous
      <4> HIDE DEF t, amount
      <4>1. QED
        BY <1>1 DEF Task
    <3>3. balance # 0
        BY <1>3, <2>2 DEF ToSell, MinOf
    <3>4. cache # 0
        BY <1>1, <1>3, <3>3, AutoSellAssumption DEF KnownBalance
    <3> HIDE DEF u
    <3>5. TaskSure(u, cache, ata)
        BY <1>1, <3>2, <3>4 DEF TaskSure
    <3>6. QED
        BY <1>5, <1>6, <3>1, <3>5
  <2>3. CASE ~(amount > 0)
    <3> DEFINE v == [t EXCEPT !.pc = "zero"]
    <3>1. /\ Put(t.group, record_zero_balance_sell_skip(p))
          /\ Jump(w, "zero") \/ Become(w, Idle)
        BY <2>1, <2>3
    <3>2. t.group \in Groups /\ p # Absent =>
            /\ record_zero_balance_sell_skip(p) \in PositionRecord
            /\ record_zero_balance_sell_skip(p).state = p.state
        BY <1>2, <1>3, PositionMethods, MethodStates
    <3>3. \A g \in Groups : Closed(g)' => ata = 0
        BY <1>7, <3>1, <3>2, PutSure
    <3>4. /\ v.pc = "zero" /\ v.previous = t.previous
          /\ Jump(w, "zero") => Become(w, v)
        BY JumpIsBecome
    <3> HIDE DEF v
    <3>5. TaskSure(v, cache, ata)
        BY <1>1, <3>4, SureFollows
    <3>6. QED
        BY <1>5, <3>1, <3>3, <3>4, <3>5, IdleSure
  <2>4. QED
    BY <2>2, <2>3
<1>11. CASE FailZero(w)
  <2>1. Put(t.group, mark_failed(p)) /\ Become(w, Idle)
    BY <1>11 DEF FailZero
  <2>2. t.group \in Groups /\ p # Absent =>
            mark_failed(p) \in PositionRecord /\ mark_failed(p).state = "Failed"
    BY <1>2, <1>3, PositionMethods, MethodStates
  <2>3. \A g \in Groups : Closed(g)' => ata = 0
    BY <2>1, <2>2, PutSure
  <2>4. QED
    BY <1>5, <2>1, <2>3, IdleSure
<1>12. CASE MarkSelling(w)
  <2>1. /\ t.pc = "mark" /\ Put(t.group, mark_selling(p))
        /\ \/ \E venue \in {"curve", "jupiter"} :
                Become(w, [t EXCEPT !.pc = "send", !.attempt = 1, !.venue = venue])
           \/ Become(w, Idle)
    BY <1>12 DEF MarkSelling
  <2>2. t.group \in Groups /\ p # Absent =>
            /\ mark_selling(p) \in PositionRecord
            /\ mark_selling(p).state \in {"Selling", p.state}
    BY <1>2, <1>3, PositionMethods, MethodStates
  <2>3. \A g \in Groups : Closed(g)' => ata = 0
    BY <1>7, <2>1, <2>2, PutSure
  <2>4. ASSUME NEW venue
        PROVE  TaskSure([t EXCEPT !.pc = "send", !.attempt = 1, !.venue = venue],
                        cache, ata)
    <3> DEFINE u == [t EXCEPT !.pc = "send", !.attempt = 1, !.venue = venue]
    <3>1. u.pc = "send" /\ u.previous = t.previous
      <4> HIDE DEF t
      <4>1. QED
        BY <1>1 DEF Task
    <3> HIDE DEF u
    <3>2. TaskSure(u, cache, ata)
        BY <1>1, <2>1, <3>1, SureFollows
    <3>3. QED
        BY <3>2 DEF u
  <2>5. QED
    BY <1>5, <2>1, <2>3, <2>4, IdleSure
<1>13. CASE Settle(w)
  <2>1. t.pc = "success"
    BY <1>13 DEF Settle
  <2>2. PICK pc, q :
            /\ pc \in {"report", "settled"}
            /\ Jump(w, pc) /\ Put(t.group, q)
            /\ \/ t.expected = 0 /\ q = mark_closed(p)
               \/ q = apply_partial_sell(p, t.amount)
    BY <1>13 DEF Settle
  <2>3. t.expected = 0 => ata = 0
    BY <1>1, <2>1 DEF TaskSure
  <2>4. t.group \in Groups /\ p # Absent =>
            q \in PositionRecord /\ (q.state = "Closed" => ata = 0)
    <3>1. t.group \in Groups /\ p # Absent =>
            /\ mark_closed(p) \in PositionRecord
            /\ apply_partial_sell(p, t.amount) \in PositionRecord
            /\ apply_partial_sell(p, t.amount).state \in {"Active", p.state}
        BY <1>2, <1>3, PositionMethods, MethodStates
    <3>2. QED
        BY <1>7, <2>2, <2>3, <3>1
  <2>5. \A g \in Groups : Closed(g)' => ata = 0
    BY <2>2, <2>4, PutSure
  <2> DEFINE u == [t EXCEPT !.pc = pc]
  <2>6. Become(w, u) /\ u.pc = pc /\ u.previous = t.previous
    BY <2>2, JumpIsBecome
  <2> HIDE DEF u
  <2>7. TaskSure(u, cache, ata)
    BY <1>1, <2>2, <2>6, SureFollows
  <2>8. QED
    BY <1>5, <2>5, <2>6, <2>7
<1>14. CASE Report(w)
  <2>1. positions' = positions /\ Become(w, Idle)
    BY <1>14 DEF Report
  <2>2. QED
    BY <1>5, <1>6, <2>1, IdleSure
<1>15. CASE GiveUp(w)
  <2>1. Become(w, Idle)
    BY <1>15 DEF GiveUp
  <2>2. PICK q : /\ Put(t.group, q)
                 /\ q \in {suspend_auto_sell(p, t.previous),
                           restore_after_sell_attempt(p, t.previous)}
    BY <1>15 DEF GiveUp
  <2>3. t.group \in Groups /\ p # Absent =>
            q \in PositionRecord /\ q.state = t.previous
    BY <1>2, <1>3, <2>2, PositionMethods, MethodStates
  <2>4. t.previous = "Closed" => ata = 0
    BY <1>1 DEF TaskSure
  <2>5. \A g \in Groups : Closed(g)' => ata = 0
    BY <2>2, <2>3, <2>4, PutSure
  <2>6. QED
    BY <1>5, <2>1, <2>5, IdleSure
<1>16. QED
    BY <1>8, <1>9, <1>10, <1>11, <1>12, <1>13, <1>14, <1>15 DEF Work

\* The position of a partial sale is put back as it was found, or sold on.
LEMMA SurePartial ==
    ASSUME TInv, Sure, PartialWork
    PROVE  Sure'
<1> DEFINE t == worker[Bot]
           p == positions[t.group]
<1>1. /\ positions \in Map /\ t \in Task /\ Bot \in Workers
    BY DEF TInv, TypeOK, Map, Workers
<1>2. TaskSure(t, cache, ata)
    BY <1>1 DEF Sure
<1>3. t.group \in Groups /\ p # Absent => p \in PositionRecord
    BY <1>1 DEF Map
<1>4. t.previous \in PositionState /\ t.amount \in Tokens
    BY <1>1 DEF Task
<1>5. ata' = ata /\ cache' = cache
    BY DEF PartialWork, MarkPartial, SendPartial, EndPartial
<1>6. ASSUME NEW u, Become(Bot, u), TaskSure(u, cache, ata),
             \A g \in Groups : Closed(g)' => ata = 0
      PROVE  Sure'
    BY <1>1, <1>5, <1>6, SureStep
<1>7. ASSUME NEW pc, Jump(Bot, pc), pc \in Holding,
             pc \notin {"send", "wait", "fallback", "success"},
             \A g \in Groups : Closed(g)' => ata = 0
      PROVE  Sure'
  <2> DEFINE u == [t EXCEPT !.pc = pc]
  <2>1. Become(Bot, u) /\ u.pc = pc /\ u.previous = t.previous
    BY <1>1, <1>7, JumpIsBecome
  <2> HIDE DEF u
  <2>2. TaskSure(u, cache, ata)
    BY <1>2, <1>7, <2>1, SureFollows DEF Holding
  <2>3. QED
    BY <1>6, <1>7, <2>1, <2>2
<1>8. CASE MarkPartial
  <2>1. /\ Put(t.group, mark_selling(p))
        /\ Jump(Bot, "partial_send") \/ Become(Bot, Idle)
    BY <1>8 DEF MarkPartial
  <2>2. t.group \in Groups /\ p # Absent =>
            /\ mark_selling(p) \in PositionRecord
            /\ mark_selling(p).state \in {"Selling", p.state}
            /\ p.state = "Closed" => ata = 0
    BY <1>1, <1>3, <1>4, PositionMethods, MethodStates DEF Sure, Closed
  <2>3. \A g \in Groups : Closed(g)' => ata = 0
    BY <2>1, <2>2, PutSure
  <2>4. QED
    BY <1>6, <1>7, <2>1, <2>3, IdleSure DEF Holding
<1>9. CASE SendPartial
  <2>1. /\ Jump(Bot, "partial_apply") \/ Jump(Bot, "partial_restore")
        /\ positions' = positions
    BY <1>9 DEF SendPartial
  <2>2. \A g \in Groups : Closed(g)' => ata = 0
    BY <2>1 DEF Closed, Sure
  <2>3. QED
    BY <1>7, <2>1, <2>2 DEF Holding
<1>10. CASE EndPartial
  <2>1. Become(Bot, Idle)
    BY <1>10 DEF EndPartial
  <2>2. PICK q : /\ Put(t.group, q)
                 /\ q \in {apply_partial_sell(p, t.amount),
                           restore_after_sell_attempt(p, t.previous)}
    BY <1>10 DEF EndPartial
  <2>3. t.group \in Groups /\ p # Absent =>
            /\ q \in PositionRecord /\ q.state \in {"Active", p.state, t.previous}
            /\ p.state = "Closed" => ata = 0
    BY <1>1, <1>3, <1>4, <2>2, PositionMethods, MethodStates DEF Sure, Closed
  <2>4. t.previous = "Closed" => ata = 0
    BY <1>2 DEF TaskSure
  <2>5. \A g \in Groups : Closed(g)' => ata = 0
    BY <2>2, <2>3, <2>4, PutSure
  <2>6. QED
    BY <1>6, <2>1, <2>5, IdleSure
<1>11. QED
    BY <1>8, <1>9, <1>10 DEF PartialWork

\* Every step keeps the tasks sure, once the only buy has landed.
LEMMA SureNext ==
    ASSUME NEW g, Groups = {g}, MaxBuys <= 1, ~RpcFails,
           TInv, OneBuy, Bought, Sure, [Next]_vars
    PROVE  Sure'
<1>1. Loop \in Workers
    BY DEF Workers
<1>2. ASSUME UNCHANGED <<positions, worker>>, ata = 0 => ata' = 0,
             cache' \in {cache, ata, Absent}
      PROVE  Sure'
    BY <1>1, <1>2, SureStep DEF Closed, Sure
<1>3. CASE \E h \in Groups : Buying(h)
    BY <1>3, SureBuying
<1>4. CASE \E h \in Groups : Asking(h)
  <2>1. UNCHANGED <<positions, worker>> /\ ata' = ata /\ cache' = cache
    BY <1>4 DEF Asking, PriceExit, LifetimeExit, FollowExit, SellAll, Ask
  <2>2. QED
    BY <1>2, <2>1
<1>5. CASE AtaUpdate \/ Prune \/ UNCHANGED vars
  <2>1. UNCHANGED <<positions, worker>> /\ ata' = ata /\ cache' \in {cache, ata, Absent}
    BY <1>5 DEF AtaUpdate, Prune, vars
  <2>2. QED
    BY <1>2, <2>1
<1>6. ASSUME NEW x \in txs, SellLands(x) \/ SellExpires(x)
      PROVE  Sure'
  <2>1. x.amount \in Nat
    BY PositionAssumption DEF TInv, TypeOK, SellTx, Tokens
  <2>2. UNCHANGED <<positions, worker>> /\ (ata = 0 => ata' = 0) /\ cache' = cache
    BY <1>6, <2>1 DEF SellLands, SellExpires
  <2>3. QED
    BY <1>2, <2>2
<1>7. QED
    BY <1>3, <1>4, <1>5, <1>6, SureBegin, SureMonitor, SureWork, SurePartial DEF Next

\* A position is Closed only when the wallet has none of its tokens left,
\* whatever the stream, the retries and the late transactions do: true of a
\* mint that one group buys once, whose sales are whole ones and whose balance
\* queries are answered.
THEOREM AutoSellSold ==
    ASSUME NEW g, Groups = {g}, Percents \subseteq {100}, MaxBuys <= 1, ~RpcFails
    PROVE  Spec => []ClosedMeansSold
<1> DEFINE Inv == TInv /\ OneBuy /\ Sure /\ (Bought \/ Untouched)
<1>1. Init => Inv
  <2>1. Init => TInv
    BY InitTypes
  <2>2. Init => Untouched
    BY IdleClean DEF Init, Untouched, Clean, Unconfirmed
  <2>3. Init => OneBuy
    BY DEF Init, OneBuy
  <2>4. Untouched => Sure
    BY CleanIsSure DEF Untouched
  <2>5. QED
    BY <2>1, <2>2, <2>3, <2>4
<1>2. Inv /\ [Next]_vars => Inv'
  <2>1. Clean' => Sure'
    BY CleanIsSure, PTL
  <2>2. QED
    BY <2>1, StepTypes, OneBuyStays, UntouchedStep, BoughtStays, SureNext
<1>3. Inv => ClosedMeansSold
    BY DEF Sure, Closed, ClosedMeansSold
<1>4. QED
    BY <1>1, <1>2, <1>3, PTL DEF Spec

=============================================================================
