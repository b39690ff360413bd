------------------------------ MODULE AutoSell ------------------------------
(***************************************************************************)
(* The life of the positions in one mint: the buys that open them, the     *)
(* confirm task of each buy (tx/confirm.rs), the monitors that ask for a   *)
(* sell and the fallback monitor (autosell/manager.rs), and the two tasks  *)
(* that sell (tx/sell_executor.rs): the sell loop, which takes the signals *)
(* of a channel one by one, and the Telegram bot, which sells in place.    *)
(*                                                                         *)
(* A position belongs to a (group, mint) pair, and all the groups share    *)
(* the one wallet, so one mint has one token account (ata), one entry in   *)
(* the balance cache, and one position per group.  Different mints share   *)
(* nothing, so one is modelled.                                            *)
(*                                                                         *)
(* A step is what a task does between two points where the others can run: *)
(* one access of the position map, one read of a balance, one send.        *)
(***************************************************************************)
EXTENDS Position, Sequences, FiniteSets

CONSTANTS
    Groups,              \* copy groups
    FollowGroups,        \* those whose sell mode is follow
    Loop, Bot,           \* the two selling tasks
    MAX_SELL_RETRIES,    \* 3 in sell_executor.rs
    Estimates,           \* token amounts the quote of a buy can promise
    Fills,               \* token amounts a landed buy can deliver
    Percents,            \* percentages the user sells with the bot
    MaxBuys,             \* bound on the buys of a group
    MaxQueue,            \* bound on the unread sell signals
    MaxInFlight,         \* bound on the sell transactions that may still land
    RpcFails,            \* can a balance query fail?
    ConfirmFallback,     \* does the run outlast confirm_timeout_secs?
    Absent               \* no position, no cached balance, nobody

ASSUME AutoSellAssumption ==
    /\ FollowGroups \subseteq Groups
    /\ Loop # Bot
    /\ Absent \notin Groups \cup {Loop, Bot}
    /\ Absent \notin Tokens
    /\ Absent \notin PositionRecord
    /\ MAX_SELL_RETRIES \in Nat \ {0}
    /\ Estimates \subseteq Tokens \ {0}
    /\ Fills \subseteq Tokens \ {0}
    /\ Percents \subseteq 1 .. 100
    /\ MaxBuys \in Nat
    /\ MaxQueue \in Nat
    /\ MaxInFlight \in Nat
    /\ RpcFails \in BOOLEAN
    /\ ConfirmFallback \in BOOLEAN

Workers == {Loop, Bot}

VARIABLES
    positions,   \* the DashMap, as seen from this mint: group -> position
    ata,         \* tokens of this mint the wallet holds on chain
    cache,       \* AtaBalanceCache: last balance the account stream gave
    buys,        \* group -> its buys so far, each with its confirm task
    txs,         \* sell transactions that may still land
    signals,     \* the sell signal channel, oldest first
    worker,      \* what each selling task is in the middle of
    fallback,    \* the confirm check the fallback monitor is awaiting
    hung,        \* group whose map shard is locked for ever, or Absent
    closes       \* group -> SellSuccess events that said fully_closed

vars == <<positions, ata, cache, buys, txs, signals, worker, fallback, hung, closes>>

Reasons == {"Auto", "Follow", "Manual"}

Signal == [group : Groups, reason : Reasons]

\* A confirm task polls for 10 seconds.  It assigns what it saw, or is late.
BuyRecord == [tx : {"sent", "landed", "failed"},
              estimate : Tokens, pre : Tokens, post : Tokens,
              task : {"poll", "late", "assign", "done"}, seen : Tokens]

\* The confirm task ends: what it knew is forgotten with it.
Done(b) == [tx |-> b.tx, estimate |-> 0, pre |-> 0, post |-> 0,
            task |-> "done", seen |-> 0]

\* A sell that was sent, by which attempt, and who still waits for it.
SellTx == [owner : Workers \cup {Absent}, amount : Tokens,
           attempt : 0 .. MAX_SELL_RETRIES]

\* Where a selling task stands.  Those of Holding have marked the position
\* Selling and have not settled it yet.
Holding == {"send", "wait", "fallback", "success", "report", "failure",
            "partial_send", "partial_apply", "partial_restore"}

Points == Holding \cup {"idle", "balance", "zero", "mark", "settled", "partial_mark"}

\* The venue of the transaction being waited for: the bonding curve, Jupiter
\* because the curve has migrated, or Jupiter as the fallback of a curve sell
\* that could not be sent ("instead") or failed on chain ("after").
Venues == {"curve", "jupiter", "instead", "after"}

Task == [pc : Points, group : Groups \cup {Absent}, reason : Reasons,
         previous : PositionState, have : Tokens, amount : Tokens,
         expected : Tokens, attempt : 0 .. MAX_SELL_RETRIES,
         venue : Venues, onchain_error : BOOLEAN]

Idle == [pc |-> "idle", group |-> Absent, reason |-> "Auto",
         previous |-> "Pending", have |-> 0, amount |-> 0, expected |-> 0,
         attempt |-> 0, venue |-> "curve", onchain_error |-> FALSE]

Confirmation == [group : Groups, balance : Tokens]

-----------------------------------------------------------------------------
(* The map and the balances.                                               *)

\* A guard held for ever on one shard stops whoever needs that shard, and
\* every iteration of the map.
Reachable(g) == hung # g
Scannable == hung = Absent

\* What get_mut then a method does: nothing when the key is gone.
Put(g, p) ==
    positions' = [positions EXCEPT ![g] = IF @ = Absent THEN Absent ELSE p]

open_position_count == Cardinality({g \in Groups :
                            positions[g] # Absent /\ IsOpen(positions[g])})

\* A failed balance query is read as zero (unwrap_or).
RpcBalance == {ata} \cup (IF RpcFails THEN {0} ELSE {})

\* The cache if it has the mint, else a query.
KnownBalance == IF cache # Absent THEN {cache} ELSE RpcBalance

MinOf(m, n) == IF m < n THEN m ELSE n

-----------------------------------------------------------------------------
(* Buying (the end of execute_buy in main.rs) and the confirm task.        *)

\* The balance before the buy is the cached one, or 0 when nothing is cached.
CachedBefore == IF cache = Absent THEN 0 ELSE cache

\* A buy that was sent opens the position, over whatever the key held.
Buy(g) ==
    /\ Len(buys[g]) < MaxBuys
    /\ Reachable(g)
    /\ \E estimate \in Estimates :
        /\ positions' = [positions EXCEPT ![g] =
                mark_confirming(mark_submitted(NewPosition(estimate, CachedBefore)))]
        /\ buys' = [buys EXCEPT ![g] =
                Append(@, [tx |-> "sent", estimate |-> estimate,
                           pre |-> CachedBefore, post |-> 0,
                           task |-> "poll", seen |-> 0])]
    /\ UNCHANGED <<ata, cache, txs, signals, worker, fallback, hung, closes>>

SetBuy(g, i, b) == buys' = [buys EXCEPT ![g][i] = b]

\* The chain executes the buy, or refuses it, or neither.
BuyLands(g, i) ==
    /\ buys[g][i].tx = "sent"
    /\ \E fill \in Fills :
        /\ ata + fill <= MaxTokens
        /\ ata' = ata + fill
        /\ SetBuy(g, i, [buys[g][i] EXCEPT
                !.tx = "landed",
                !.post = IF buys[g][i].task \in {"poll", "late"}
                           THEN ata + fill ELSE 0])
    /\ UNCHANGED <<positions, cache, txs, signals, worker, fallback, hung, closes>>

BuyFails(g, i) ==
    /\ buys[g][i].tx = "sent"
    /\ SetBuy(g, i, [buys[g][i] EXCEPT !.tx = "failed"])
    /\ UNCHANGED <<positions, ata, cache, txs, signals, worker, fallback, hung, closes>>

\* The account stream delivers the balance; until then the cache is stale.
\* The mint is tracked from the prefetch of a signal on, which any smart
\* wallet may cause at any time.
AtaUpdate ==
    /\ cache' = ata
    /\ UNCHANGED <<positions, ata, buys, txs, signals, worker, fallback, hung, closes>>

\* A mint with no open position that no signal touches for two minutes is
\* untracked, and its cached balance goes with it.
Prune ==
    /\ Scannable
    /\ open_position_count = 0
    /\ cache' = Absent
    /\ UNCHANGED <<positions, ata, buys, txs, signals, worker, fallback, hung, closes>>

GrownOrEqual(balance, pre) == balance >= pre

Grown(balance, pre) == balance > pre

\* A poll finds more tokens than before the buy, in the cache or by a query.
\* (A failed query is no observation here.)
ConfirmSees(g, i) ==
    /\ buys[g][i].task = "poll"
    /\ \E balance \in {ata} \cup ({cache} \ {Absent}) :
        /\ Grown(balance, buys[g][i].pre)
        /\ SetBuy(g, i, [buys[g][i] EXCEPT !.task = "assign", !.seen = balance,
                                           !.post = 0])
    /\ UNCHANGED <<positions, ata, cache, txs, signals, worker, fallback, hung, closes>>

\* The ten seconds are over and the last poll saw no growth.
ConfirmIsLate(g, i) ==
    LET pre == buys[g][i].pre
    IN  /\ buys[g][i].task = "poll"
        /\ cache # Absent => ~Grown(cache, pre)
        /\ RpcFails \/ ~Grown(ata, pre)
        /\ SetBuy(g, i, [buys[g][i] EXCEPT !.task = "late"])
        /\ UNCHANGED <<positions, ata, cache, txs, signals, worker, fallback, hung, closes>>

\* The signature was seen in time: the balances of the transaction itself
\* are asked for.
ConfirmReadsTransaction(g, i) ==
    /\ buys[g][i].task = "late"
    /\ buys[g][i].tx = "landed"
    /\ Grown(buys[g][i].post, buys[g][i].pre)
    /\ SetBuy(g, i, [buys[g][i] EXCEPT !.task = "assign", !.seen = buys[g][i].post,
                                       !.post = 0])
    /\ UNCHANGED <<positions, ata, cache, txs, signals, worker, fallback, hung, closes>>

\* confirm_failed: the transaction failed on chain, or the task is late (the
\* buy may have landed since).  The state of the position is not looked at.
ConfirmFails(g, i) ==
    /\ \/ buys[g][i].task = "poll" /\ buys[g][i].tx = "failed"
       \/ buys[g][i].task = "late"
    /\ Reachable(g)
    /\ Put(g, mark_failed(positions[g]))
    /\ SetBuy(g, i, Done(buys[g][i]))
    /\ UNCHANGED <<ata, cache, txs, signals, worker, fallback, hung, closes>>

\* confirm_success: the growth of the balance when this is the only open
\* position of the mint, else the estimate; never 0.
Assigned(b) ==
    IF open_position_count <= 1 THEN b.seen - b.pre ELSE b.estimate

ConfirmSucceeds(g, i) ==
    /\ buys[g][i].task = "assign"
    /\ Scannable
    /\ Put(g, mark_active(positions[g], Assigned(buys[g][i])))
    /\ SetBuy(g, i, Done(buys[g][i]))
    /\ UNCHANGED <<ata, cache, txs, signals, worker, fallback, hung, closes>>

-----------------------------------------------------------------------------
(* The fallback monitor.                                                   *)

\* A position still unconfirmed after confirm_timeout_secs: ask for the
\* balance.  The position is looked at now and changed after the answer.
FallbackAsks(g) ==
    /\ ConfirmFallback
    /\ fallback = Absent
    /\ Reachable(g)
    /\ positions[g] # Absent
    /\ positions[g].state \in {"Submitted", "Confirming"}
    /\ \E balance \in RpcBalance :
        fallback' = [group |-> g, balance |-> balance]
    /\ UNCHANGED <<positions, ata, cache, buys, txs, signals, worker, hung, closes>>

\* No growth: failed, whatever the position has become meanwhile.
FallbackFails ==
    /\ fallback # Absent
    /\ hung = Absent
    /\ LET g == fallback.group
       IN  /\ positions[g] = Absent
              \/ ~Grown(fallback.balance, positions[g].pre_buy_ata_balance)
           /\ Put(g, mark_failed(positions[g]))
    /\ fallback' = Absent
    /\ UNCHANGED <<ata, cache, buys, txs, signals, worker, hung, closes>>

\* Growth: the count of open positions iterates the map while the guard of
\* get_mut is held, and the monitor waits for itself.
FallbackHangs ==
    /\ fallback # Absent
    /\ hung = Absent
    /\ LET g == fallback.group
       IN  /\ positions[g] # Absent
           /\ Grown(fallback.balance, positions[g].pre_buy_ata_balance)
           /\ hung' = g
    /\ UNCHANGED <<positions, ata, cache, buys, txs, signals, worker, fallback, closes>>

\* The scan ends by dropping what was closed or failed a minute ago.
Reap(g) ==
    /\ fallback = Absent
    /\ Scannable
    /\ positions[g] # Absent
    /\ ~IsOpen(positions[g])
    /\ positions' = [positions EXCEPT ![g] = Absent]
    /\ UNCHANGED <<ata, cache, buys, txs, signals, worker, fallback, hung, closes>>

-----------------------------------------------------------------------------
(* Who asks for a sell.                                                    *)

Ask(g, reason) ==
    /\ Reachable(g)
    /\ positions[g] # Absent
    /\ Len(signals) < MaxQueue
    /\ signals' = Append(signals, [group |-> g, reason |-> reason])
    /\ UNCHANGED <<positions, ata, cache, buys, txs, worker, fallback, hung, closes>>

\* Stop loss, take profit or trailing stop: only Active, at every price
\* update, however often it has been tried.
PriceExit(g) ==
    /\ g \notin FollowGroups
    /\ positions[g] # Absent /\ positions[g].state = "Active"
    /\ Ask(g, "Auto")

Retriable(p) == can_sell(p) /\ ~max_sell_attempts_reached(p)

\* Maximum holding time, in any mode.
LifetimeExit(g) ==
    /\ positions[g] # Absent /\ Retriable(positions[g])
    /\ Ask(g, "Auto")

\* The target wallet sold (main loop).
FollowExit(g) ==
    /\ g \in FollowGroups
    /\ positions[g] # Absent /\ Retriable(positions[g])
    /\ Ask(g, "Follow")

\* /sellall queues a signal for every listed position.
SellAll(g) ==
    /\ Scannable
    /\ positions[g] # Absent /\ IsListed(positions[g])
    /\ Ask(g, "Manual")

-----------------------------------------------------------------------------
(* handle_sell_signal, step by step.                                       *)

Become(w, task) == worker' = [worker EXCEPT ![w] = task]

Jump(w, pc) == worker' = [worker EXCEPT ![w].pc = pc]

\* A task starts from a copy of the position it may act on later.
Snapshot(g, reason) ==
    [Idle EXCEPT !.pc = "balance", !.group = g, !.reason = reason,
                 !.previous = positions[g].state,
                 !.have = positions[g].token_amount]

\* The sell loop takes the next signal.  It ignores a position that is gone,
\* and one whose accounts it does not know (no sell snapshot, no prefetch).
BeginSignal ==
    /\ worker[Loop] = Idle
    /\ signals # <<>>
    /\ LET s == Head(signals)
       IN  /\ Reachable(s.group)
           /\ \/ UNCHANGED worker
              \/ /\ positions[s.group] # Absent
                 /\ Become(Loop, Snapshot(s.group, s.reason))
    /\ signals' = Tail(signals)
    /\ UNCHANGED <<positions, ata, cache, buys, txs, fallback, hung, closes>>

\* The bot sells 100% of a position that has tokens.
BeginManual(g) ==
    /\ 100 \in Percents
    /\ worker[Bot] = Idle
    /\ Reachable(g)
    /\ positions[g] # Absent /\ positions[g].token_amount > 0
    /\ Become(Bot, Snapshot(g, "Manual"))
    /\ UNCHANGED <<positions, ata, cache, buys, txs, signals, fallback, hung, closes>>

ToSellUncapped(have, balance) == IF have > 0 THEN have ELSE balance

\* The amount is at most what the wallet seems to hold.  A position that
\* knows no amount of its own sells all there is.
ToSell(have, balance) == IF have > 0 THEN MinOf(have, balance) ELSE balance

ReadBalance(w) ==
    LET t == worker[w]
        p == positions[t.group]
    IN  /\ t.pc = "balance"
        /\ \E balance \in KnownBalance :
            LET amount == ToSell(t.have, balance)
            IN  IF amount > 0
                  THEN /\ Become(w, [t EXCEPT !.pc = "mark", !.have = 0, !.amount = amount,
                                              !.expected = balance - amount])
                       /\ UNCHANGED positions
                  ELSE /\ Reachable(t.group)
                       /\ Put(t.group, record_zero_balance_sell_skip(p))
                       /\ IF p # Absent /\ p.zero_balance_sell_skips + 1
                                             >= MAX_ZERO_BALANCE_SKIPS
                            THEN Jump(w, "zero")
                            ELSE Become(w, Idle)
        /\ UNCHANGED <<ata, cache, buys, txs, signals, fallback, hung, closes>>

\* confirm_failed, after too many signals that found nothing to sell.
FailZero(w) ==
    LET t == worker[w]
    IN  /\ t.pc = "zero"
        /\ Reachable(t.group)
        /\ Put(t.group, mark_failed(positions[t.group]))
        /\ Become(w, Idle)
        /\ UNCHANGED <<ata, cache, buys, txs, signals, fallback, hung, closes>>

\* mark_selling claims the position, then the route is chosen once for all
\* the attempts.
MarkSelling(w) ==
    LET t == worker[w]
        p == positions[t.group]
    IN  /\ t.pc = "mark"
        /\ Reachable(t.group)
        /\ IF p # Absent /\ CanMarkSelling(p)
             THEN \E venue \in {"curve", "jupiter"} :
                    Become(w, [t EXCEPT !.pc = "send", !.attempt = 1,
                                        !.venue = venue])
             ELSE Become(w, Idle)
        /\ Put(t.group, mark_selling(p))
        /\ UNCHANGED <<ata, cache, buys, txs, signals, fallback, hung, closes>>

aggressive_follow(t) == t.group \in FollowGroups /\ t.reason = "Follow"

NextAttemptForever(t) ==
    [t EXCEPT !.pc = "send", !.venue = IF @ = "jupiter" THEN @ ELSE "curve"]

\* What follows an attempt that gave no answer: the next, or giving up.
NextAttempt(t) ==
    IF t.attempt < MAX_SELL_RETRIES
      THEN [t EXCEPT !.pc = "send", !.attempt = @ + 1,
                     !.venue = IF @ = "jupiter" THEN @ ELSE "curve"]
      ELSE [t EXCEPT !.pc = "failure"]

\* A failure on chain ends the loop of attempts.
OnChainError(t) == [t EXCEPT !.pc = "failure", !.onchain_error = TRUE]

\* Nobody watches the transactions of w any longer, but they may land.
Orphaned(w) == {IF x.owner = w THEN [x EXCEPT !.owner = Absent] ELSE x : x \in txs}

Sent(owner, left, t) ==
    /\ Cardinality(left) < MaxInFlight
    /\ txs' = left \cup {[owner |-> owner, amount |-> t.amount, attempt |-> t.attempt]}

\* The transaction of an attempt is built and sent, or that fails and, on
\* the curve, Jupiter is asked instead.
SendSell(w) ==
    LET t == worker[w]
    IN  /\ t.pc = "send"
        /\ \/ Sent(w, Orphaned(w), t) /\ Jump(w, "wait")
           \/ /\ Become(w, IF t.venue = "jupiter" \/ aggressive_follow(t)
                             THEN NextAttempt(t)
                             ELSE [t EXCEPT !.pc = "fallback", !.venue = "instead"])
              /\ UNCHANGED txs
        /\ UNCHANGED <<positions, ata, cache, buys, signals, fallback, hung, closes>>

SendFallback(w) ==
    LET t == worker[w]
    IN  /\ t.pc = "fallback"
        /\ \/ Sent(w, Orphaned(w), t) /\ Jump(w, "wait")
           \/ /\ Become(w, IF t.venue = "after" THEN OnChainError(t) ELSE NextAttempt(t))
              /\ UNCHANGED txs
        /\ UNCHANGED <<positions, ata, cache, buys, signals, fallback, hung, closes>>

ArrivedEarly(balance, t) == balance <= t.expected + t.amount

Arrived(balance, t) == balance <= t.expected

\* wait_sell_confirm, first outcome: the wallet is seen to hold no more than
\* expected.  The signature is not needed.
SeesSold(w) ==
    LET t == worker[w]
    IN  /\ t.pc = "wait"
        /\ \E balance \in RpcBalance \cup ({cache} \ {Absent}) : Arrived(balance, t)
        /\ Jump(w, "success")
        /\ UNCHANGED <<positions, ata, cache, buys, txs, signals, fallback, hung, closes>>

\* Second: the transaction failed on chain.
SeesError(w) ==
    LET t == worker[w]
    IN  /\ t.pc = "wait"
        /\ \E x \in txs : x.owner = w /\ txs' = txs \ {x}
        /\ Become(w, IF t.venue = "curve" /\ ~aggressive_follow(t)
                       THEN [t EXCEPT !.pc = "fallback", !.venue = "after"]
                       ELSE OnChainError(t))
        /\ UNCHANGED <<positions, ata, cache, buys, signals, fallback, hung, closes>>

\* Third: time is up.
SeesNothing(w) ==
    LET t == worker[w]
    IN  /\ t.pc = "wait"
        /\ Become(w, IF t.venue = "after" THEN OnChainError(t) ELSE NextAttempt(t))
        /\ UNCHANGED <<positions, ata, cache, buys, txs, signals, fallback, hung, closes>>

\* Closed when the wallet was to hold nothing more, else reduced.
Settle(w) ==
    LET t == worker[w]
        p == positions[t.group]
    IN  /\ t.pc = "success"
        /\ Reachable(t.group)
        /\ IF t.expected = 0
             THEN Put(t.group, mark_closed(p)) /\ Jump(w, "report")
             ELSE Put(t.group, apply_partial_sell(p, t.amount)) /\ Jump(w, "settled")
        /\ UNCHANGED <<ata, cache, buys, txs, signals, fallback, hung, closes>>

\* cleanup_mint_if_unused and the SellSuccess event.
Report(w) ==
    LET t == worker[w]
    IN  /\ t.pc \in {"report", "settled"}
        /\ Scannable
        /\ cache' = IF open_position_count = 0 THEN Absent ELSE cache
        /\ closes' = IF t.pc = "report" THEN [closes EXCEPT ![t.group] = @ + 1]
                                        ELSE closes
        /\ txs' = Orphaned(w)
        /\ Become(w, Idle)
        /\ UNCHANGED <<positions, ata, buys, signals, fallback, hung>>

\* The old state is put back; an automatic sell that failed on chain or too
\* often is not asked for again.
GiveUp(w) ==
    LET t == worker[w]
        p == positions[t.group]
    IN  /\ t.pc = "failure"
        /\ Reachable(t.group)
        /\ IF /\ t.reason # "Manual"
              /\ t.onchain_error \/ (p # Absent /\ max_sell_attempts_reached(p))
             THEN Put(t.group, suspend_auto_sell(p, t.previous))
             ELSE Put(t.group, restore_after_sell_attempt(p, t.previous))
        /\ txs' = Orphaned(w)
        /\ Become(w, Idle)
        /\ UNCHANGED <<ata, cache, buys, signals, fallback, hung, closes>>

-----------------------------------------------------------------------------
(* handle_partial_sell: less than 100%, sent and believed.                 *)

BeginPartial(g, percent) ==
    /\ worker[Bot] = Idle
    /\ Reachable(g)
    /\ positions[g] # Absent /\ positions[g].token_amount > 0
    /\ LET t == Snapshot(g, "Manual")
       IN  Become(Bot, [t EXCEPT !.pc = "partial_mark", !.have = 0,
                                 !.amount = (t.have * percent) \div 100])
    /\ UNCHANGED <<positions, ata, cache, buys, txs, signals, fallback, hung, closes>>

MarkPartial ==
    LET t == worker[Bot]
        p == positions[t.group]
    IN  /\ t.pc = "partial_mark"
        /\ Reachable(t.group)
        /\ IF p # Absent /\ CanMarkSelling(p) THEN Jump(Bot, "partial_send")
                                              ELSE Become(Bot, Idle)
        /\ Put(t.group, mark_selling(p))
        /\ UNCHANGED <<ata, cache, buys, txs, signals, fallback, hung, closes>>

SendPartial ==
    LET t == worker[Bot]
    IN  /\ t.pc = "partial_send"
        /\ \/ Sent(Absent, txs, t) /\ Jump(Bot, "partial_apply")
           \/ Jump(Bot, "partial_restore") /\ UNCHANGED txs
        /\ UNCHANGED <<positions, ata, cache, buys, signals, fallback, hung, closes>>

\* The result of apply_partial_sell is not looked at.
EndPartial ==
    LET t == worker[Bot]
        p == positions[t.group]
    IN  /\ Reachable(t.group)
        /\ \/ t.pc = "partial_apply" /\ Put(t.group, apply_partial_sell(p, t.amount))
           \/ /\ t.pc = "partial_restore"
              /\ Put(t.group, restore_after_sell_attempt(p, t.previous))
        /\ Become(Bot, Idle)
        /\ UNCHANGED <<ata, cache, buys, txs, signals, fallback, hung, closes>>

\* The chain executes a sell: only from tokens the wallet has.
SellLands(x) ==
    /\ x.amount <= ata
    /\ ata' = ata - x.amount
    /\ txs' = txs \ {x}
    /\ UNCHANGED <<positions, cache, buys, signals, worker, fallback, hung, closes>>

\* Its blockhash expires, or it fails with nobody watching.
SellExpires(x) ==
    /\ x.owner = Absent
    /\ txs' = txs \ {x}
    /\ UNCHANGED <<positions, ata, cache, buys, signals, worker, fallback, hung, closes>>

-----------------------------------------------------------------------------
Init ==
    /\ positions = [g \in Groups |-> Absent]
    /\ ata = 0
    /\ cache = Absent
    /\ buys = [g \in Groups |-> <<>>]
    /\ txs = {}
    /\ signals = <<>>
    /\ worker = [w \in Workers |-> Idle]
    /\ fallback = Absent
    /\ hung = Absent
    /\ closes = [g \in Groups |-> 0]

Buying(g) ==
    \/ Buy(g)
    \/ \E i \in 1 .. Len(buys[g]) :
            \/ BuyLands(g, i) \/ BuyFails(g, i)
            \/ ConfirmSees(g, i) \/ ConfirmIsLate(g, i) \/ ConfirmReadsTransaction(g, i)
            \/ ConfirmFails(g, i) \/ ConfirmSucceeds(g, i)

Monitor == (\E g \in Groups : FallbackAsks(g) \/ Reap(g)) \/ FallbackFails \/ FallbackHangs

Asking(g) == PriceExit(g) \/ LifetimeExit(g) \/ FollowExit(g) \/ SellAll(g)

Commanding(g) == BeginManual(g) \/ \E percent \in Percents \ {100} : BeginPartial(g, percent)

Work(w) ==
    \/ ReadBalance(w) \/ FailZero(w) \/ MarkSelling(w)
    \/ SendSell(w) \/ SendFallback(w)
    \/ SeesSold(w) \/ SeesError(w) \/ SeesNothing(w)
    \/ Settle(w) \/ Report(w) \/ GiveUp(w)

PartialWork == MarkPartial \/ SendPartial \/ EndPartial

Next ==
    \/ \E g \in Groups : Buying(g) \/ Asking(g) \/ Commanding(g)
    \/ AtaUpdate \/ Prune \/ Monitor \/ BeginSignal \/ PartialWork
    \/ \E w \in Workers : Work(w)
    \/ \E x \in txs : SellLands(x) \/ SellExpires(x)

Spec == Init /\ [][Next]_vars

\* The tasks run on the scheduler: one that can take a step does so in the
\* end.  Nothing forces a buy, a command, the chain or the account stream.
FairSpec ==
    /\ Spec
    /\ \A w \in Workers : WF_vars(Work(w))
    /\ WF_vars(PartialWork) /\ WF_vars(BeginSignal)
    /\ WF_vars(FallbackFails) /\ WF_vars(FallbackHangs)

-----------------------------------------------------------------------------
(* Properties.                                                             *)

TypeOK ==
    /\ positions \in [Groups -> PositionRecord \cup {Absent}]
    /\ ata \in Tokens
    /\ cache \in Tokens \cup {Absent}
    /\ buys \in [Groups -> Seq(BuyRecord)]
    /\ txs \subseteq SellTx
    /\ signals \in Seq(Signal)
    /\ worker \in [Workers -> Task]
    /\ fallback \in Confirmation \cup {Absent}
    /\ hung \in Groups \cup {Absent}
    /\ closes \in [Groups -> Nat]

\* 1 when task t has claimed the position of g and not settled it.
ClaimOf(t, g) == IF t.pc \in Holding /\ t.group = g THEN 1 ELSE 0

Claim(w, g) == ClaimOf(worker[w], g)

\* 1 when the position of g could be claimed.
Claimable(g) ==
    IF positions[g] # Absent /\ CanMarkSelling(positions[g]) THEN 1 ELSE 0

\* Every buy is sold out at most once.  The full closes reported for a
\* group, the tasks that are selling its position and the position itself
\* when it can be claimed are never more than the buys that opened it: no
\* order of signals, commands, retries, put-back states and failures makes
\* two sells of what was bought once.
ClaimsBounded ==
    \A g \in Groups :
        closes[g] + Claim(Loop, g) + Claim(Bot, g) + Claimable(g) <= Len(buys[g])

\* The rights to sell of each group, and where they lie.
bought == [g \in Groups |-> Len(buys[g])]
claimable == [g \in Groups |-> Claimable(g)]
claimed == [g \in Groups |-> Claim(Loop, g) + Claim(Bot, g)]

\* The sellers implement SellRights: a right to sell comes from a buy only, is
\* claimed by one task at a time, and a sale is reported only by the task that
\* claimed it, whatever signals, commands, retries and failures come between.
Rights == INSTANCE SellRights
    WITH bought <- bought, open <- claimable, claimed <- claimed, sold <- closes

IsSellRights == Rights!Spec

\* A position that was closed stays sold: while its group does not buy the
\* mint again, it can only fail or be dropped.
ClosedStaysClosed ==
    [][\A g \in Groups :
        (/\ positions[g] # Absent /\ positions[g].state = "Closed"
         /\ Len(buys'[g]) = 1)
            => \/ positions'[g] = Absent
               \/ positions'[g].state \in {"Closed", "Failed"}]_vars

\* The comment on Active: the buy was confirmed on chain.
ActiveMeansLanded ==
    \A g \in Groups :
        positions[g] # Absent /\ positions[g].state = "Active"
            => \E i \in 1 .. Len(buys[g]) : buys[g][i].tx = "landed"

\* The comment on mark_closed: closed means that the sale succeeded, so that
\* a wallet whose every buy was closed holds nothing.
ClosedMeansSold ==
    (\A g \in Groups : positions[g] # Absent /\ positions[g].state = "Closed")
        => ata = 0

\* A selling task always comes back for the next signal or command.
WorkersReturn == \A w \in Workers : worker[w] # Idle ~> worker[w] = Idle

\* What the fallback monitor is for: it settles the position it asked about.
FallbackSettles == fallback # Absent ~> fallback = Absent

=============================================================================
