------------------------------- MODULE Orders -------------------------------
(***************************************************************************)
(* From a target's transaction to an instruction of our own, for one mint  *)
(* (grpc/subscriber.rs, processor/prefetch.rs, processor/pumpfun.rs,       *)
(* execute_buy in main.rs, try_pumpfun_sell in tx/sell_executor.rs).       *)
(*                                                                         *)
(* The account list of a decoded transaction is kept in the prefetch       *)
(* cache, where later transactions replace it, and mirrored by a buy if it *)
(* passes validation; otherwise the list is derived.  Meanwhile the curve  *)
(* moves on chain and its cached copy comes and goes.  An account is a     *)
(* tuple that says what it was derived from; lists are indexed from 0, as  *)
(* in the code.                                                            *)
(***************************************************************************)
EXTENDS Quotes, Sequences

CONSTANTS
    Wallets,        \* the target wallets
    Stranger,       \* a wallet that is not followed
    Me,             \* our wallet
    None,
    EntryModes,     \* entry modes of the groups: "smart_buy", "smart_sell"
    Hidden,         \* slots a transaction not yet executed may load by table
    Wrong,          \* slots a transaction that fails may fill wrongly
    Mints,          \* kinds of mints
    Curves,         \* states of a bonding curve
    TargetTokens,   \* what a target buys,
    TargetSol,      \*   and for how much at most
    BuyLamports, BuySlippage, SellSlippage,
    Holdings        \* amounts a position sells

VARIABLES
    mint,           \* its token program and what never changes of its curve
    curve,          \* the bonding curve on chain
    migrated,       \* its account belongs to another program
    bc_cache,       \* the cached copy of the curve
    prefetch,       \* the entry of the prefetch cache
    task,           \* execute_buy, then the position it opened
    order           \* the last instruction built for the buy or its position

vars == <<mint, curve, migrated, bc_cache, prefetch, task, order>>

-----------------------------------------------------------------------------
(* Accounts.                                                               *)

TOKEN == <<"token">>
TOKEN_2022 == <<"token_2022">>
Ata(owner, program) == <<"ata", owner, program>>
UserVolume(user) == <<"user_volume_accumulator", user>>
CREATOR_VAULT == <<"creator_vault">>
FEE_RECIPIENT == <<"fee">>
MAYHEM_FEE_RECIPIENT == <<"mayhem_fee">>

ZeroBased(list) == [i \in 0 .. Len(list) - 1 |-> list[i + 1]]

NoAccounts == [i \in {} |-> None]

ASSUME OrdersAssumption ==
    /\ Me \notin Wallets \cup {Stranger}
    /\ EntryModes \subseteq {"smart_buy", "smart_sell"}
    /\ \A m \in Mints :
          /\ m.token_program \in {TOKEN, TOKEN_2022}
          /\ {m.creator, m.is_mayhem_mode, m.is_cashback} \subseteq BOOLEAN
    /\ \A c \in Curves :
          /\ {c.virtual_token_reserves, c.virtual_sol_reserves,
              c.real_token_reserves} \subseteq U64s
          /\ c.complete \in BOOLEAN
          /\ c.virtual_sol_reserves * 10000 < U64   \* below 1.8 million SOL
    /\ None \notin Curves
    /\ TargetTokens \in U64s \ {0} /\ TargetSol \in U64s \ {0}
    /\ BuyLamports \in U64s /\ Holdings \subseteq U64s
    /\ BuySlippage \in 0 .. 10000 /\ SellSlippage \in 0 .. 10000

\* build_buy_account_keys_standard, with the fee recipient as a parameter.
BuyAccounts(user, program, fee) == ZeroBased(<<
    <<"global">>, fee, <<"mint">>, <<"bonding_curve">>,
    Ata("bonding_curve", program), Ata(user, program), <<"wallet", user>>,
    <<"system">>, program, CREATOR_VAULT, <<"event_authority">>, <<"pump">>,
    <<"global_volume_accumulator">>, UserVolume(user), <<"fee_config">>,
    <<"fee_program">>, <<"bonding_curve_v2">> >>)

BuySlots == 0 .. 16

select_fee_recipient(m) ==
    IF m.is_mayhem_mode THEN MAYHEM_FEE_RECIPIENT ELSE FEE_RECIPIENT

\* The 14 fixed accounts of a sale and the remaining ones.
SellAccounts(base, bonding_curve, associated, user, program, cashback) ==
    ZeroBased(<<
        <<"global">>, FEE_RECIPIENT, base, bonding_curve, associated,
        Ata(user, program), <<"wallet", user>>, <<"system">>, CREATOR_VAULT,
        program, <<"event_authority">>, <<"pump">>, <<"fee_config">>,
        <<"fee_program">> >>
      \o (IF cashback THEN <<UserVolume(user)>> ELSE <<>>)
      \o << <<"bonding_curve_v2">> >>)

\* Derived from a mint.
StandardSellAccounts(user, m) ==
    SellAccounts(<<"mint">>, <<"bonding_curve">>, Ata("bonding_curve", m.token_program),
                 user, m.token_program, m.is_cashback)

-----------------------------------------------------------------------------
(* Decoding.                                                               *)

\* What the targets send: who pays and who trades, the kind of the Pump.fun
\* instruction, whether another program calls it, whether the update is the
\* executed transaction, and whether that failed.
Transactions ==
    { t \in [mint : Mints, payer : Wallets \cup {Stranger}, user : Wallets \cup {Stranger},
             kind : {"buy", "exact_in", "other", "sell"},
             wrapped : BOOLEAN, landed : BOOLEAN, failed : BOOLEAN, wsol : BOOLEAN,
             hidden : Hidden, wrong : Wrong] :
        /\ {t.payer, t.user} \cap Wallets # {}
        /\ t.failed => t.landed
        /\ t.landed => t.hidden = {}
        /\ t.landed /\ ~ t.failed => t.wrong = {} }

\* The accounts of its Pump.fun instruction.
Listed(t) ==
    LET right == IF t.kind = "sell" THEN StandardSellAccounts(t.user, t.mint)
                 ELSE BuyAccounts(t.user, t.mint.token_program, select_fee_recipient(t.mint))
    IN  [i \in DOMAIN right |-> IF i \in t.wrong THEN <<"other">> ELSE right[i]]

account_keys(t) ==
    {Listed(t)[i] : i \in DOMAIN Listed(t) \ t.hidden} \cup (IF t.wsol THEN {TOKEN} ELSE {})

\* The first key that is a target; the payer is the first key.
source_wallet(t) == IF t.payer \in Wallets THEN t.payer ELSE t.user

\* Not executed and not a call of Pump.fun itself: only the keys are known.
IsWrapperCpi(t) == t.wrapped /\ ~ t.landed

detect_pumpfun_token_program(t) ==
    CASE Ata("bonding_curve", TOKEN) \in account_keys(t) -> TOKEN
      [] Ata("bonding_curve", TOKEN_2022) \in account_keys(t) -> TOKEN_2022
      [] /\ {Ata("bonding_curve", TOKEN), Ata("bonding_curve", TOKEN_2022)}
              \cap account_keys(t) = {} ->
            IF TOKEN_2022 \in account_keys(t) /\ TOKEN \notin account_keys(t)
              THEN TOKEN_2022 ELSE TOKEN

\* Without slot 8.
ProgramByKeys(t) ==
    IF TOKEN_2022 \in account_keys(t) /\ TOKEN \notin account_keys(t)
      THEN TOKEN_2022 ELSE TOKEN

\* Slot 8, or else a guess; without the curve the default of extract_token_info.
extract_token_program(t) ==
    CASE IsWrapperCpi(t) -> detect_pumpfun_token_program(t)
      [] ~ IsWrapperCpi(t) /\ 8 \notin t.hidden -> Listed(t)[8]
      [] ~ IsWrapperCpi(t) /\ 8 \in t.hidden ->
            IF 3 \in t.hidden THEN TOKEN ELSE detect_pumpfun_token_program(t)

\* The list as far as it is resolved.
ResolvedAccounts(t) ==
    IF IsWrapperCpi(t) THEN NoAccounts
    ELSE [i \in DOMAIN Listed(t) \ t.hidden |-> Listed(t)[i]]

\* All of the list or nothing.
instruction_accounts(t) ==
    IF IsWrapperCpi(t) \/ t.hidden # {} THEN NoAccounts ELSE Listed(t)

is_buy(t) == IF IsWrapperCpi(t) THEN t.wsol ELSE t.kind # "sell"

\* The mint must be known, and this one; for a wrapper its curve, derived from
\* it, is a key.
Detected(t) ==
    /\ 2 \notin t.hidden \cup t.wrong
    /\ IsWrapperCpi(t) => 3 \notin t.hidden \cup t.wrong

signal_quality_score(has_data, has_accounts, has_sol, landed) ==
    (IF has_data THEN 8 ELSE 0) + (IF has_accounts THEN 4 ELSE 0)
      + (IF has_sol THEN 2 ELSE 0) + (IF landed THEN 1 ELSE 0)

entry_mode(t) == IF is_buy(t) THEN "smart_buy" ELSE "smart_sell"

\* What a buy is given of it: the kind stands for the bytes of the data.
Trade(t) ==
    [mint |-> t.mint,
     wrapper |-> IsWrapperCpi(t),
     execution_failed |-> t.failed,
     source_wallet |-> source_wallet(t),
     token_program |-> extract_token_program(t),
     instruction_accounts |-> instruction_accounts(t),
     target_data |-> IF is_buy(t) /\ ~ IsWrapperCpi(t) THEN t.kind ELSE "none",
     quality |-> signal_quality_score(~ IsWrapperCpi(t),
                    instruction_accounts(t) # NoAccounts,
                    /\ is_buy(t) /\ ~ IsWrapperCpi(t)
                    /\ t.kind # "other" \/ t.landed,
                    t.landed)]

\* The trades some group wants to enter.
DetectedTrades ==
    {Trade(t) : t \in {u \in Transactions : Detected(u) /\ entry_mode(u) \in EntryModes}}

-----------------------------------------------------------------------------
(* The caches.                                                             *)

prefetch_token(trade, score, force) ==
    IF prefetch # None /\ ~ force /\ prefetch.quality_score > score
      THEN prefetch
      ELSE [token_program |-> trade.token_program,
            mirror_accounts |-> trade.instruction_accounts,
            source_wallet |-> trade.source_wallet,
            quality_score |-> score]

Idle == [pc |-> "idle", wrapper |-> FALSE, data |-> "none", prefetched |-> None,
         bc_state |-> None, sell_snapshot |-> None, route |-> "none"]

NoOrder == [side |-> "none"]

Spawned(trade) == [Idle EXCEPT !.pc = "prefetch", !.wrapper = trade.wrapper,
                               !.data = trade.target_data]

Init ==
    /\ mint \in Mints
    /\ curve \in Curves
    /\ migrated = FALSE
    /\ bc_cache = None
    /\ prefetch = None
    /\ task = Idle
    /\ order = NoOrder

\* A trade of interest warms the caches, failed ones too.
SeeTrade(trade) ==
    /\ prefetch' = prefetch_token(trade, trade.quality, FALSE)
    /\ UNCHANGED <<mint, curve, migrated, bc_cache, task, order>>

\* A group of one wallet buys at once.
SeeTradeAndBuy(trade) ==
    /\ ~ trade.execution_failed
    /\ task.pc = "idle"
    /\ prefetch' = prefetch_token(trade, trade.quality, FALSE)
    /\ task' = Spawned(trade)
    /\ UNCHANGED <<mint, curve, migrated, bc_cache, order>>

\* A trigger: its canonical signal is any trade seen before.
Trigger(trade) ==
    /\ ~ trade.execution_failed
    /\ task.pc = "idle"
    /\ prefetch' = prefetch_token(trade, 1000, TRUE)
    /\ task' = Spawned(trade)
    /\ UNCHANGED <<mint, curve, migrated, bc_cache, order>>

\* The curve trades on, is completed, and then migrates.
CurveMoves ==
    /\ ~ migrated /\ ~ curve.complete
    /\ curve' \in Curves
    /\ UNCHANGED <<mint, migrated, bc_cache, prefetch, task, order>>

Migrate ==
    /\ curve.complete /\ ~ migrated
    /\ migrated' = TRUE
    /\ UNCHANGED <<mint, curve, bc_cache, prefetch, task, order>>

\* A background fetch or an account update fills the cache.
CurveCached ==
    /\ ~ migrated
    /\ bc_cache' = curve
    /\ UNCHANGED <<mint, curve, migrated, prefetch, task, order>>

\* Clean-ups: of a mint without a position, of an entry by its age, of the
\* accounts of a candidate nobody bought.
ForgetMint ==
    /\ \/ prefetch' = None /\ bc_cache' = None
       \/ prefetch' = None /\ UNCHANGED bc_cache
       \/ bc_cache' = None /\ UNCHANGED prefetch
    /\ UNCHANGED <<mint, curve, migrated, task, order>>

-----------------------------------------------------------------------------
(* Building.                                                               *)

\* Our own accounts for those of the wallet the transaction was found by.
replace_user_pdas(list, source) ==
    [i \in DOMAIN list |->
        CASE i = 5 -> Ata(Me, task.prefetched.token_program)
          [] i = 6 -> <<"wallet", Me>>
          [] OTHER -> IF list[i] = UserVolume(source) THEN UserVolume(Me) ELSE list[i]]

Mirrored == replace_user_pdas(task.prefetched.mirror_accounts, task.prefetched.source_wallet)

\* Nor the volume accumulator.
UncheckedToo == {1, 9, 13}

\* The fee recipient and the creator's vault cannot be told without the curve.
UncheckedWithoutCurve == {1, 9}

validate_direct_mirror_buy_accounts(c) ==
    /\ DOMAIN task.prefetched.mirror_accounts = BuySlots
    /\ c # None => mint.creator
    /\ \A i \in BuySlots :
          \/ c = None /\ i \in UncheckedWithoutCurve
          \/ Mirrored[i] = BuyAccounts(Me, task.prefetched.token_program,
                             IF c = None THEN FEE_RECIPIENT ELSE select_fee_recipient(mint))[i]

\* The list of the target may be used at all.
uses_mirror_accounts == task.prefetched.mirror_accounts # NoAccounts /\ ~ task.wrapper

\* The entry is cloned; the buy goes on without one, to no order.
ReadPrefetch ==
    /\ task.pc = "prefetch"
    /\ task' = [task EXCEPT !.pc = "curve", !.prefetched = prefetch]
    /\ UNCHANGED <<mint, curve, migrated, bc_cache, prefetch, order>>

\* The state is cloned when it is there, or is not there when the waits end.
ReadCurve ==
    /\ task.pc = "curve"
    /\ task' = [task EXCEPT !.pc = "fetch", !.bc_state = bc_cache]
    /\ UNCHANGED <<mint, curve, migrated, bc_cache, prefetch, order>>

NeedsCurve ==
    /\ task.bc_state = None /\ task.data # "none" /\ task.prefetched # None
    /\ ~ (uses_mirror_accounts /\ validate_direct_mirror_buy_accounts(None))

\* prefetch_bonding_curve, which fails for a migrated curve.
SyncFetch ==
    /\ task.pc = "fetch"
    /\ NeedsCurve /\ ~ migrated
    /\ bc_cache' = curve
    /\ task' = [task EXCEPT !.pc = "build", !.bc_state = curve]
    /\ UNCHANGED <<mint, curve, migrated, prefetch, order>>

NoSyncFetch ==
    /\ task.pc = "fetch"
    /\ task' = [task EXCEPT !.pc = "build"]
    /\ UNCHANGED <<mint, curve, migrated, bc_cache, prefetch, order>>

\* Mirrored if that is safe, else derived; without a curve only mirrored, with
\* the amounts taken from the instruction of the target.
Route ==
    LET c == task.bc_state
    IN  CASE task.prefetched = None -> "none"
          [] task.prefetched # None /\ c # None ->
                IF uses_mirror_accounts /\ validate_direct_mirror_buy_accounts(c)
                  THEN "mirror" ELSE "native"
          [] OTHER ->
                IF /\ task.data # "none"
                   /\ uses_mirror_accounts /\ validate_direct_mirror_buy_accounts(None)
                  THEN "target" ELSE "none"

Bought ==
    IF Route = "target" THEN target_quote(TargetTokens, TargetSol, BuyLamports)
    ELSE sol_to_token_quote(task.bc_state, BuyLamports)

\* The mirrored route with a curve does not validate the amount.
CanBuild ==
    CASE Route = "mirror" -> ~ task.bc_state.complete
      [] Route = "native" -> /\ ~ task.bc_state.complete
                             /\ ValidBuyAmount(Bought, task.bc_state.real_token_reserves)
                             /\ mint.creator
      [] Route = "target" -> task.data = "buy" /\ ValidBuyAmount(Bought, 0)
      [] OTHER -> FALSE

BuyOrder ==
    [side |-> "buy", route |-> Route, curve |-> task.bc_state,
     program |-> task.prefetched.token_program,
     accounts |-> IF Route = "native"
                    THEN BuyAccounts(Me, task.prefetched.token_program,
                                     select_fee_recipient(mint))
                    ELSE Mirrored,
     tokens |-> Bought,
     limit |-> max_sol_cost(BuyLamports, BuySlippage)]

\* The position that is opened keeps the entry for its sales.
BuildBuy ==
    /\ task.pc = "build"
    /\ CanBuild
    /\ order' = BuyOrder
    /\ task' = [Idle EXCEPT !.pc = "sent", !.sell_snapshot = task.prefetched, !.route = Route]
    /\ UNCHANGED <<mint, curve, migrated, bc_cache, prefetch>>

SkipBuy ==
    /\ task.pc = "build"
    /\ ~ CanBuild
    /\ task' = Idle
    /\ UNCHANGED <<mint, curve, migrated, bc_cache, prefetch, order>>

\* What Pump.fun executes.
BuyLands ==
    /\ task.pc = "sent"
    /\ ~ curve.complete
    /\ order.accounts = BuyAccounts(Me, mint.token_program, select_fee_recipient(mint))
    /\ task' = [task EXCEPT !.pc = "held"]
    /\ UNCHANGED <<mint, curve, migrated, bc_cache, prefetch, order>>

BuyFails ==
    /\ task.pc = "sent"
    /\ task' = Idle
    /\ order' = NoOrder
    /\ UNCHANGED <<mint, curve, migrated, bc_cache, prefetch>>

PrefetchFirst == IF prefetch # None THEN prefetch ELSE task.sell_snapshot

resolve_sell_snapshot == IF task.sell_snapshot # None THEN task.sell_snapshot ELSE prefetch

\* sell_standard asks the chain for the curve and for the owner of the mint; it
\* takes the slippage of buys.
StandardSale(amount) ==
    [side |-> "sell", route |-> "native", curve |-> curve, program |-> mint.token_program,
     accounts |-> StandardSellAccounts(Me, mint),
     tokens |-> amount,
     limit |-> min_sol_output(token_to_sol_quote(curve, amount), BuySlippage)]

\* Mint, curve and its token account from the list kept, the rest derived.
MirroredSale(amount, c) ==
    LET kept == resolve_sell_snapshot
    IN  [side |-> "sell", route |-> "mirror", curve |-> c, program |-> kept.token_program,
         accounts |-> SellAccounts(kept.mirror_accounts[2], kept.mirror_accounts[3],
                         kept.mirror_accounts[4], Me, kept.token_program, mint.is_cashback),
         tokens |-> amount,
         limit |-> min_sol_output_saturating(token_to_sol_quote(c, amount), SellSlippage)]

BuildStandardSale(amount) ==
    /\ task.pc = "held"
    /\ resolve_sell_snapshot.mirror_accounts = NoAccounts
    /\ ~ migrated /\ ~ curve.complete /\ mint.creator
    /\ order' = StandardSale(amount)
    /\ UNCHANGED <<mint, curve, migrated, bc_cache, prefetch, task>>

\* The cached curve, or else that on chain.
BuildMirroredSale(amount) ==
    /\ task.pc = "held"
    /\ resolve_sell_snapshot.mirror_accounts # NoAccounts
    /\ LET c == IF bc_cache # None THEN bc_cache ELSE curve
       IN  /\ bc_cache = None => ~ migrated
           /\ mint.creator
           /\ order' = MirroredSale(amount, c)
    /\ UNCHANGED <<mint, curve, migrated, bc_cache, prefetch, task>>

PositionEnds ==
    /\ task.pc = "held"
    /\ task' = Idle
    /\ order' = NoOrder
    /\ UNCHANGED <<mint, curve, migrated, bc_cache, prefetch>>

Next ==
    \/ \E trade \in {t \in DetectedTrades : t.mint = mint} :
          SeeTrade(trade) \/ SeeTradeAndBuy(trade) \/ Trigger(trade)
    \/ CurveMoves \/ Migrate \/ CurveCached \/ ForgetMint
    \/ ReadPrefetch \/ ReadCurve \/ SyncFetch \/ NoSyncFetch \/ BuildBuy \/ SkipBuy
    \/ BuyLands \/ BuyFails \/ PositionEnds
    \/ \E amount \in Holdings : BuildStandardSale(amount) \/ BuildMirroredSale(amount)

Spec == Init /\ [][Next]_vars

-----------------------------------------------------------------------------
(* Properties.                                                             *)

MaybeCurve == Curves \cup {None}

TypeOK ==
    /\ mint \in Mints
    /\ curve \in Curves /\ migrated \in BOOLEAN /\ bc_cache \in MaybeCurve
    /\ \A entry \in {prefetch, task.prefetched, task.sell_snapshot} :
          entry # None =>
            /\ entry.source_wallet \in Wallets
            /\ entry.quality_score \in 0 .. 15 \cup {1000}
            /\ DOMAIN entry.mirror_accounts \in {{}, BuySlots} \cup {0 .. 14, 0 .. 15}
    /\ task.pc \in {"idle", "prefetch", "curve", "fetch", "build", "sent", "held"}
    /\ task.wrapper \in BOOLEAN
    /\ task.data \in {"none", "buy", "exact_in", "other"}
    /\ task.bc_state \in MaybeCurve
    /\ task.pc \in {"sent", "held"} => order # NoOrder /\ task.sell_snapshot # None

\* An entry whose list is complete names the token program of the mint, so
\* that the token account watched, funded and sold from is the one that exists.
ProgramIsMints ==
    prefetch # None /\ prefetch.mirror_accounts # NoAccounts =>
        prefetch.token_program = mint.token_program

\* Whatever a target sent, and whoever paid for it: a buy names the accounts
\* that derivation gives, our own wherever an account belongs to a user; only
\* without a curve are the fee recipient and the vault taken on trust.
BuyIsStandard ==
    order.side = "buy" =>
        /\ DOMAIN order.accounts = BuySlots
        /\ \A i \in BuySlots :
              \/ order.curve = None /\ i \in {1, 9}
              \/ order.accounts[i] = BuyAccounts(Me, order.program,
                    IF order.curve = None THEN FEE_RECIPIENT
                      ELSE select_fee_recipient(mint))[i]

\* A position sells what its buy bought, from the token account that holds it,
\* even if the prefetch cache was overwritten or cleared since.
SellsWhatWasBought ==
    order.side = "sell" =>
        /\ order.accounts[2] = <<"mint">>
        /\ order.accounts[5] = Ata(Me, mint.token_program)
        /\ task.route # "native" =>
              order.accounts = StandardSellAccounts(Me, mint)

\* An order asks for what the curve it was quoted on gives: the most tokens
\* for the lamports of the group, and no more lamports than a sale brings.
QuoteIsExact ==
    order # NoOrder /\ order.curve # None =>
        LET c == order.curve
        IN  IF order.side = "buy"
              THEN c.virtual_sol_reserves > 0 =>
                    \A t \in 0 .. MAX_RAW_SUPPLY :
                      Affordable(c.virtual_token_reserves, c.virtual_sol_reserves,
                                 BuyLamports, t) <=> t <= order.tokens
              ELSE c.virtual_token_reserves > 0 =>
                    Affordable(c.virtual_sol_reserves, c.virtual_token_reserves,
                               order.tokens, order.limit)

=============================================================================
