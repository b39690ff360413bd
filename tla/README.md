# A TLA+ model of copy-trader v1.6.63

copy-trader follows "smart wallets" on Solana: it decodes their trades from a gRPC
stream, waits until enough wallets of a group agree on a token, buys it, and sells it
again on a price, time or follow rule. It is one Rust process of many tokio tasks that
share concurrent maps (DashMap), unbounded channels and caches, controlled from
Telegram. This directory models its control logic in TLA+, checks the models with TLC
and proves the central properties with TLAPS. Source paths below are relative to
`src/copy-trader-v1.6.63/src/`.

## 1. Inventory

| Component | State it keeps | Operations | Talks to |
|---|---|---|---|
| Trade stream (`grpc/subscriber.rs`) | target wallets, notifier, the filter last sent | `update_target_wallets`, `subscribe`, decoding | sync task (wallets), main loop (channel of trades) |
| Main loop (`main.rs`) | signature cache, `is_running` | skip copies, match groups, warm caches, vote, reject, follow-sell | engine, buy tasks, sell channel |
| Consensus engine (`consensus/engine.rs`) | one entry of votes per (group, mint) | `submit_signal`, `reject_signal`, `revoke_signal`, cleanup | trigger channel |
| Prefetch cache (`processor/prefetch.rs`) | the best account list seen of every mint | `prefetch_token`, clean-up | main loop (writer), buy path and sell executor (readers) |
| Buy path (`main.rs`: `spawn_buy_execution`, `execute_buy`) | dedup map, two semaphores, curve fetches | permit, claim, wait for data, choose a route, build, send, release | caches, auto-sell manager, sender |
| Pump.fun processor (`processor/pumpfun.rs`) | none | quotes, account lists of buys and sales, validation | buy path, sell executor |
| Auto-sell manager, confirm task, sell executor (`autosell/`, `tx/confirm.rs`, `tx/sell_executor.rs`) | positions by (group, mint) | confirm, price/time exits, sell with retries, partial sells, fallback check | chain, balance cache, sell channel, bot |
| Account subscriber (`grpc/account_subscriber.rs`) | account maps, balances, curves | track, untrack, prune, resubscribe | stream, buy path, price monitor, sell executor |
| Groups (`groups.rs`) | groups, selection, blocklist, 0slot flag; `copy_groups.json` | edit, save, load | bot (writer), every other task (reader) |
| Telegram bot (`telegram.rs`) | update offset | polling, commands, buttons, notifications | groups, sell executor, statistics |
| Statistics (`group_stats.rs`) | summaries; `group_stats.json`, `group_trade_history.jsonl` | count events, record closed trades, rewrite the file | bot |
| Positions file (`autosell/persistence.rs`), other processors (`processor/`), sender, builder, Jupiter, blockhash, config, utils | data | data transformation and I/O | the paths above |

What is hard here is not in one function: votes, copies and failures of the same
transaction arrive in any order; positions are changed by four tasks, each of which acts
on a snapshot taken earlier; all groups share one token account per mint; the caches an
order is built from are replaced under it; two monitors see the price at different
times; claims and votes expire by clocks; the user edits groups under all of this; a
restart can come at any time. `PROJECT.json` lists these hazards at their lines, with the
properties that cover them or the reason why none does.

What makes each component correct, in one line each:

- engine: a trigger names a live quorum of distinct wallets, no quorum is missed, no key
  is blocked for ever;
- buy path: one buy at a time per (group, mint), every task ends, the key comes free;
- orders: whatever a target sent, a buy names the derived accounts and none of the
  target's, a sale sells what its buy bought, amounts are exactly what the curve gives;
- selling: nothing bought once is sold out twice, a closed position stays closed, active
  means landed and closed means sold, every sale ends;
- exits: the peak is the position's own, a loss or an overstay comes before the sell loop
  without the account stream;
- account subscription: growth is subscribed, the subscriber never sleeps through work, a
  cached balance has a feed;
- groups and intake: edits survive a restart and reach the stream, a refuted vote stays
  out;
- bot: an update is confirmed only after it was handled, handled once per life of the
  process, statistics agree with the history, updates and events do not starve each other.

## 2. Modules

Code names are kept. A definition whose name extends or varies another one's and which
stands before it (`PriorBySignature` before `Prior`, `ByStage` before `Skipped`,
`SwapAtSpot` before `Swap`, ...) is a plausible wrong version, there to show that some
property tells the two apart; nothing else uses it.

**Consensus** — `entries` is the DashMap, `triggers` the unbounded channel. `Submit` is
`submit_signal` as a whole: creation of the entry with the quorum and timeout of its
first signal, pruning, upgrade-or-push, tally, trigger. Each method holds the entry's
lock throughout, so it is one step. `Instant`s are ages that `Tick` advances and that saturate.

**Position** — the transitions of `position.rs` as operators on a record; a transition
with a guard has the guard as an operator of its own. **AutoSell** extends it: the end of `execute_buy`, the confirm task of every
buy, the monitors, the sell loop and the bot as a second seller. A step is one access of
the map, one balance read or one send; everything a task remembers between two steps is
in its record in `worker` or `buys`. `ata` is the balance on chain, `cache` what the
account stream said last. One mint is modelled, since different mints share nothing here.
**SellRights** is what the two sellers promise together: a buy gives a right to sell out
once, which lies with the position or with the task that claimed it, is used up, put back
or lost, and never copied. `IsSellRights` is the refinement (`Rights == INSTANCE
SellRights WITH ...`: open is 1 while the position could be claimed, claimed counts the
tasks between `mark_selling` and settling, sold the full closes).

**Exits** also extends Position, with what AutoSell leaves to chance: the prices a
position keeps (`price`, the three price fields of `position.rs`), `check_exit_conditions`,
the price monitor with its queue of curve updates, the fallback monitor with the cached
curve, the confirmation that replaces cost and peak, and `update_entry_price`. The sell
loop appears only in the steps that touch the position (`MarkSelling`, `SaleSucceeds`,
`SaleFails`); how a sale gets there is AutoSell. Percentages are compared crosswise in integers.

**BuyLock** is the abstract promise of the dedup: a lock per key with a cooldown, or rather a
lease, because the sweeper drops a claim of 30 s whether its buy has returned or not. A holder that
keeps its key too long breaks it; until the last holder of a broken key has left, others may join and a
cooldown may be lost; then it is a lock again. **BuyGate** is the code: permits, `GroupMintClaim` with its two clocks, the sweeper, the
stages of `execute_buy` with their timeouts, background curve fetches and cache cleanup.
The history variable `outlasted` has the keys one of whose buys under way has reached the age `Stale`.
`DedupIsLock` states the refinement (`Lock == INSTANCE BuyLock WITH ...`: the holders are
the tasks between claim and return, the cooling time the claim's, `broken` is `outlasted`).

**Quotes** has the integer arithmetic of the bonding curve and of slippage with its
widths (u128 products for quotes, u64 products, which wrap, for slippage), and the
reference they are compared with: an amount is `Affordable` if the product of the reserves does
not fall. **Orders** extends it, for one mint: what targets can send (`Transactions`: who
pays, who trades, which Pump.fun instruction, called directly or by another program, landed
or not, with slots hidden in lookup tables or filled wrongly by a transaction that fails),
how it is decoded (`Trade`), which list stays in the prefetch cache, which of the three
routes a buy takes with the curve it finds (mirror, native, target), and the sale from what the position kept. Account
lists keep the code's slot numbers; an address is a tuple that says what it is derived from.

**Subscription** — the address maps, the balance cache and the subscribe loop, one step
per map access, because track and untrack do not exclude each other.

**Groups** has the groups and the methods of their manager as operators; **Control**
extends it with the bot's commands, the three moments of a save (memory changed, file
truncated, file written, or the write failed) and `Reload`; **TradeIntake** extends that
with the sync task, the trade stream, copies of transactions and the main loop up to the
call of the engine. `Submit`, `Reject` and `VoteEnds` are the interface to Consensus:
there they are the whole operation, here only whether the vote of a transaction stands.
A trade matched with groups works on the clones the code takes (`work.left`), so edits
after the match do not reach it.

**GroupStats** has the summaries as records with the ways in which they are brought up to
date, and `IsSummaryOf`, which says what a summary means without the order of events.
**Bot** extends it with the polling loop: the server's view of which updates are
confirmed, polls that select! drops and that may still arrive (`late`), the handler that
runs to the end, the writes of the statistics in their order, and ends of the process
at any step. What a command does to the groups is in Control.
**Delivery** is what the loop promises the user whatever happens on the way: updates are
carried out in the order they were sent, each at least once, and none is forgotten before.
`IsDelivery` is the refinement (`Delivered == INSTANCE Delivery WITH ...`: posted is the
inbox, done the last update carried out, kept the server's first unconfirmed number).
`ConfirmedWereHandled`, that what the server forgot was carried out, follows from it and
is a theorem (`BotConfirmed`).

MC modules hold only constants for TLC. `*Proofs` modules hold the theorems.

## 3. Runs

| Run | What it asks | Bounds |
|---|---|---|
| Consensus | types, `OneVotePerWallet`, `NoMissedQuorum`, `TriggerBackedByQuorum`, `TriggeredIsReleased` | 1 key, 3 wallets (a quorum of 2 can form twice), 2 signatures (an upgrade and a new transaction), a shape that counts and one that does not, lag up to the timeout, 1 unread trigger |
| AutoSell_claims | types, `ClaimsBounded`, `ClosedStaysClosed` | 1 follow group, 2 sellers, 1 buy, 1 retry, a partial and a full percentage, the fallback check enabled |
| AutoSell_amounts | `ActiveMeansLanded`, `ClosedMeansSold` where they hold, `IsSellRights`, `WorkersReturn` | 1 group that sells by price, amounts up to 2, estimates that differ from fills, 2 late transactions, 2 retries, so that the loop repeats |
| BuyGate | types, `OneBuyPerKey`, `DedupIsLock`, `BuysReturn`, `KeyReleased` | 2 slots for buys of one key, which are used again and again, 2 pools with 1 permit each (a buy waits for its permit or is refused), cooldown 2, `MaxBuy` = `Stale` = 2, so that a claim is swept under its buy and two buys overlap |
| Subscription | types, `BalanceIsFed`, `SubscriberWakes`, `GrowthIsNoticed` | 1 mint (2 accounts), a tracker, a cleaner and the pruner |
| TradeIntake | types, `Restartable`, `NoVoteForRefuted`, `HotEditsReachStream` | 2 wallets, 2 group ids, 2 saving commands, 1 transaction with any copies, crashes at any step |
| Orders | types, `ProgramIsMints`, `BuyIsStandard`, `SellsWhatWasBought`, `QuoteIsExact` | groups that buy on buys; a mint of the newer token program with all flags; a curve early, late and completed; a followed wallet and a stranger as payer or trader; slot 8, or slots 3, 4 and 8, hidden; slot 4 or 13 wrong; reserves up to 30, so that rounding happens |
| Exits | types, `PeakIsOwn`, `LossIsActedOn`, `LifetimeIsActedOn` | 1 position that sells by price or follows, prices 8, 10 and 14 (at the stop loss, at cost, above the target; 14 to 10 is a fall that trips the trailing stop), 2 price changes, 1 unread signal, 1 attempt before suspension |
| Bot | types, `IsDelivery`, `OncePerLife`, `StatsAreOfHistory`, `UpdatesAreHandled`, `EventsAreTaken` | 2 updates, 2 events (closed trades with two profits, failures), 1 end of the process, any number of failed or dropped polls |
| AutoSell_fallback, AutoSell_phantom, Orders_sell_program | see Findings; each is expected to be violated | the smallest instance that shows it |

The bounds are on counters the code leaves open (unread messages, buys of a group,
transactions in flight, saving commands, price changes, updates): every bound is a constant named in its module and
stands in a guard, so that a larger one only adds behaviours of the same kind. They are enough for the cases the
properties are about: two actors and one more, one retry, one restart between any two
steps. The theorems do not depend on them. Deadlock is checked except in the AutoSell and
Exits runs: there the system really stops, when no buy is left and the position has
ended, or when the map is locked for ever (first finding).

Where a run asks less than its names may suggest: `Restartable` exempts the window between truncation and
writing of `copy_groups.json` and writes that fail, in which the code does lose the groups. The AutoSell runs
have one buy per group, so a second buy that replaces a position is left to the theorems on claims and rights, and
`AutoSell_amounts` has `RpcFails = FALSE` (a failed balance query does break `ClosedMeansSold`).
`LossIsActedOn` and `LifetimeIsActedOn` suppose that the fallback task does not hang as in the first
finding, which happens in the confirmation of a `Submitted` position and stops that task for good; they are about `Active` positions,
the second one below the attempt cap. `UpdatesAreHandled` has a finite burst of events: that a
steady stream of them starves the polls is assumed away by strong fairness of `Receive`; that
dropped polls lose nothing is what is checked. `ProgramIsMints` in the run Orders supposes groups
that buy on buys and a slot 8 that is right or hidden.

In Orders nothing bounds the depth: any number of trades, orders and clean-ups can follow
each other, and the state space is finite because the caches are.

**Fairness.** Weak fairness only of what the runtime guarantees: a spawned task whose next step is possible goes
on (selling tasks, buy tasks, trackers, the subscribers, the bot's handlers), loops around a sleep go on (cleanup, sweeper,
pruner, sync task, fallback monitor), time passes. Nothing forces a wallet to trade, the chain to execute
a transaction, a user to act, or a connection to be made. `BuysReturn` rests on the timeouts of
the code, so no fairness is assumed of the curve fetch. In Exits nothing is assumed of the account
stream, the price monitor or the confirm task: the two liveness properties are about the
fallback alone. In Bot, strong fairness of `Answer`, `Receive` and `BeginEvent` says that a
poll that is sent again and again gets through in the end, and that tokio's select!, which picks at
random among the branches that are ready, takes an event in the end; both
liveness properties are conditional on the process staying up.

## 4. Proofs

All for every value of the constants allowed by the modules' ASSUMEs.

- **ConsensusProofs**: `ConsensusInvariant` proves the inductive invariant (types, finite
  vote sets, one vote per wallet, the flag agrees with the tally). Finiteness is needed
  because the quorum compares cardinalities. Upgrades replace all live votes of the wallet
  (`Prior`), so that `OneVotePerWallet` is preserved; the flag is only cleared together
  with a tally, which gives `NoMissedQuorum`. `ConsensusTriggerBacked` is an action
  property that follows from the invariant and the case of a step that sends.
- **AutoSellProofs**: `ClaimsBounded` is an accounting argument: closes, claims and
  claimability of a group never exceed its buys. It is not inductive by itself. The
  strengthening says what a seller remembers: a state to put back is an open one, a
  report of a close follows a claim. Each step is reduced to its `Effect` on the account of
  one group, and one lemma (`Balanced`) shows that the allowed effects keep the balance.
  `AutoSellRights` uses the same effects: a step concerns one group at most (`StepElsewhere`), only a buy
  raises the buys and only the report of a claiming task the closes (`BoughtOrSold`), and what is left of the
  balance is a claim, a return or a loss (`RightsStep`). `ClaimsBounded` bounds the sum; the refinement
  also excludes that a right comes back without a task that held it, as from a confirm task that is late. The run
  of `IsSellRights` has one seller with its retries (that of `ClaimsBounded` has two); the theorem has any number of
  groups and buys, and both sellers.
  `ActiveMeansLanded` rests on a dichotomy: a buy has landed (`Bought`), or the mint is
  `Untouched`: no balance, no task that found one, no position past its confirmation.
  Each step but a landing keeps it untouched. **Assumption**: one group, and no partial
  sales, which make an unconfirmed position Active. `ClosedMeansSold` adds what the
  selling tasks know (`Sure`): one that is about to trust an empty cache, has seen the
  balance sold or found the position closed faces an empty wallet, and once the only buy
  has landed an empty wallet stays empty. **Assumption**: also one buy and queries that
  do not fail; both assumptions are needed, as the findings and divergences below show.
- **BuyGateProofs**: `OneBuyPerKey` and the refinement of `BuyLock` share an invariant
  that ties every executing task of a key that is not outlasted to its claim and its age to the claim's
  (`Claimed`), with `WaitingIsYoung`: a task that waits for its permit or its claim has no age yet. Nothing is assumed
  of how long a buy takes, for the code bounds it by nothing near 30 s: the RPC
  client waits up to 30 s per call, of which `execute_buy` may make several. With a
  longer buy the sweeper frees the key, a second buy starts, and the first one's
  `finish(false)` removes the second one's claim, so that a third may start although the second is still young.
  What is proved is how far this goes: the key is `outlasted` by then, other keys are not touched, and once the
  overlapping buys have returned, test, claim and cooldown exclude each other as before.
- **SubscriptionProofs**: `BalanceIsFed`, strengthened by where an untracking task stands.
- **TradeIntakeProofs**: `NoVoteForRefuted` needs to know why a refuted transaction cannot come back: its landed
  copy is marked, and a copy in hand is that failed one; or nothing of it is left
  (`Settled`), and that failed copies are landed ones (`FailuresLanded`). `Restartable` rests on the lemmas that every command leaves a book
  whose selection exists (`EditedGroup`, `AddedGroup`, `DeletedGroup`) and that such a
  book loads as itself (`LoadsWhatIsSaved`).
- **OrdersProofs** begins with Quotes: the integer quote is exactly the border of what is affordable
  (`QuoteIsMost`, `QuoteIsBorder`), never empties the reserve, and a round trip brings no gain. The nonlinear
  facts are isolated in lemmas on quotient and remainder. `MinOutputsAgree` needs the
  amount times the basis points to fit in u64, and at most 10000 basis points; the code checks neither.
  `OrdersBuyIsStandard` needs no invariant: a buy is validated against,
  or made from, derived accounts in the one step that builds it, and the proof goes through
  the three routes slot by slot. `OrdersQuoteIsExact` needs `CopiesOfCurve`, the invariant that
  every cached or cloned curve is one the chain can have; then the lemmas on quotes apply. **Assumption**: the reserve of a curve times
  10000 fits in u64 (below 1.8 million SOL), and slippage settings are at most 100 %.
  `OrdersSellsWhatWasBought` and `OrdersTypeOK` share `OrderInv`. A cached entry may name wrong
  accounts, since a trade is decoded before it has succeeded; what saves the position is that the
  entry it keeps is the one its buy was built from, and that a buy of wrong accounts does not land. So the invariant
  follows an entry from the cache to the task and to the position, and says of each which buys it can have led to
  (`SentOfEntry`, `HeldOfEntry`, `OrderOfTask`).
  `OrdersPositionNamesMint` follows from the same invariant without assumptions: the cached entry may name any
  program (`Orders_sell_program`), and so may the buy that is sent, but a position is kept, and sold, under the mint's own.
- **ExitsProofs**: `PeakIsOwn` together with the types and `CostIsPrice` (the price a confirm task is about to assign is
  a price, never 0). The types have a point of their own: a curve without a price (0) never reaches the
  prices of a position, whoever writes them.
- **BotProofs**: a number is `Through` when everything below it has been carried out. Every poll
  that reached the server, or still may, carries such a number (`PollsThrough`), because a poll is
  waited for only with no update in hand and the offset then is `Through` (`InStep`). An answer is a
  run of updates from the offset, so none is skipped, and what a process has begun stays below its
  offset (`BegunOnce`). `BotIsDelivery` adds `Ordered`: whatever was carried out, or is in hand, has everything
  before it carried out. So the handled updates are the first ones (`DoneIs`), a finished one is the next or a
  repetition after a restart, and a number that is `Through` is at most one past them (`ThroughDone`). That the first of the remaining updates exists uses well-founded induction on
  the naturals (`Least`). The types of the statistics say that a trade is recorded only while its event is in
  hand. `BotStats`: the summaries in memory and in the file are `Sums` of some lines of the history, and a line that was
  written but not counted yet is left out of those in memory (`Pending`); without that a trade could be counted
  twice. `Sums` says what `IsSummaryOf` says with the net sum by name and the extremes by what they are. The net
  sum is a fold, a recursive function over the subsets of a set; that it is defined, that adding a trade adds its profit whichever trade the
  fold takes first, and that it depends on the profits only is shown by taking a smallest subset where it fails
  (`Smallest`), since the library's induction theorems cannot be instantiated. No assumption but those of `Bot`.

Only model-checked: the liveness properties (`TriggeredIsReleased`, `WorkersReturn`,
`BuysReturn`, `KeyReleased`, `SubscriberWakes`, `GrowthIsNoticed`,
`HotEditsReachStream`, `LossIsActedOn`, `LifetimeIsActedOn`, `UpdatesAreHandled`,
`EventsAreTaken`), which are out of TLAPS's reach, `ProgramIsMints`, which is about entries of the cache and
holds for targets that buy only, and `FallbackSettles`, which a run refutes.
Every other invariant and every action property of the passing runs, and the three refinements, are proved.

## 5. Findings

Each is shown by a run that is expected to fail; `PROJECT.json` quotes the sentence of
the repository it contradicts.

1. `AutoSell_fallback`: the fallback confirmation iterates over the position map while
   holding the guard of one of its entries (`autosell/manager.rs` 395-408): it blocks for
   ever, and with it whoever needs that shard.
2. `AutoSell_phantom`: two groups that buy one mint share the token account, and the
   landing of one buy confirms the other's position (`tx/confirm.rs` 193).
3. `Orders_sell_program`: the decoder takes slot 8 of every Pump.fun instruction for the
   token program (`grpc/subscriber.rs` 776). In a sale that slot is the creator's vault, so
   a group that buys when its target sells keeps an address that is no token program.

Further divergences have no run of their own. The model contains the steps of the first five:

- the refusal of `apply_partial_sell` is ignored (`tx/sell_executor.rs` 824) and the
  position stays `Selling` with no seller (AutoSell with `Percents = {50}`, `Estimates = Fills = {2}`,
  a position in `Selling` while no worker has a claim);
- a partial sale makes a position `Active` whose buy is not confirmed (`autosell/position.rs` 300), although
  `Active` is said to mean confirmed (22; `ActiveMeansLanded` with `Percents = {50}`);
- a failed balance query counts as zero tokens, so that an unsold position is closed
  (`tx/sell_executor.rs` 387; `ClosedMeansSold` with `RpcFails = TRUE`);
- the account subscription compares numbers of accounts, not accounts
  (`grpc/account_subscriber.rs` 331): of two mints, one tracked and the other untracked between two ticks,
  the new one is not subscribed to while the number stays (Subscription with two mints);
- the comment on `Confirming` (`autosell/position.rs` 21) and the log at 181 say that the stop loss is
  active; `can_check_stop_loss` (343) and `check_exit_conditions` allow it in `Active` only (Exits);
- "auto-sell suspended" (`autosell/manager.rs` 130, `tx/sell_executor.rs` 732) suspends the holding
  time and follow-sells; price exits do not look at the attempts;
- `Submitted` is said to mean sent over at least one channel (`position.rs` 19);
  `fire_and_forget` waits for none and never fails;
- a `Failed` position can be put back to an earlier state by `restore_after_sell_attempt`, although the
  diagram in `position.rs` 9-11 has no way back;
- `sell_slippage_bps` is said to be for sales (`config.rs` 39); `sell_standard` takes
  the slippage of buys (`pumpfun.rs` 917);
- `buy_from_cached_state` does not validate the amount as the two other routes do; sales of
  mayhem mints name the normal fee recipient; an unknown Pump.fun instruction counts as a buy;
- `load_positions` is said to restore positions at start-up (`autosell/persistence.rs` 80)
  and has no caller; an expiry test for triggered entries in the engine's cleanup (twice
  the timeout) can never hold after the pruning before it.

Hazards that no property can state because the code intends, or leaves open, what happens: an
entry keeps the quorum and timeout of its first signal (`engine.rs` 87); a failure after
the trigger makes room for a second one, which the dedup stops (`engine.rs` 251); a group
disabled after the trigger still buys (`main.rs` 567); a buy without a permit in 25 ms is dropped (`main.rs`
262); group ids are reused with what is kept under them (`groups.rs` 454, `group_stats.rs` 158); the
price monitor panics when a position is reaped between two accesses (`manager.rs` 288); settings
of slippage have no bound (`pumpfun.rs` 1188); a mirrored sale trusts slots 2 to 4 of a list that its buy may have
refused (`pumpfun.rs` 685); hidden slots leave the token program to a guess (`subscriber.rs` 832).

## 6. What is abstracted

- Signals, trades, curves and instructions are records of the bits the control looks at;
  amounts are small numbers where a property is about them. In AutoSell a price exit may
  ask at any time in the states where it is allowed; Exits has the prices.
- A curve moves between a few states with integer reserves; a floating-point price is an
  integer, and the target's price, which the code takes in f64, an integer division.
- Addresses derived from different seeds differ, and an address a target puts into a wrong
  slot is one of no known derivation.
- Settings of a group other than wallets, enabled, quorum and exit rules; the blocklist (no command
  changes it); settings that JSON has no number for (`nan`, `inf`) are excluded, although the bot accepts
  them and the file would no longer load (see the hazards).
- Of a trade in TradeIntake: buys of one mint; a copy comes only while its wallet is a
  target, and no copy comes after its signature was forgotten (10 s without a copy).
- A line of the trade history that is written in part counts as not written, and as the end of what
  `StatsAreOfHistory` promises (`unlisted`): the next line is joined to it. Nothing reads the history.
- A task that panics, memory exhaustion and clock jumps.

## 7. Not modelled

- PumpSwap and Raydium processors and the decoding for them: the stream accepts Pump.fun
  instructions only (`subscriber.rs` 577), and nobody asks the registry for a processor.
- The sender, the transaction builder, Jupiter, the blockhash cache, SOL price and token info: network I/O
  and pure construction; their outcomes are choices in the models.
- The positions file: written, never read.
- Menus and wording of the bot; parsing of the configuration; byte
  layouts of accounts and instructions.

What is left for a later extension: TradeIntake composed with Consensus instead of its
interface; the shard locks of the DashMap as such, to state the first finding and the reaper's race for
any number of shards.
