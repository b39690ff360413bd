---------------------------- MODULE OrdersProofs ----------------------------
(***************************************************************************)
(* The quotes of the bonding curve, for all reserves and amounts, and the  *)
(* orders that are built on them, for all wallets, transactions and        *)
(* curves.                                                                 *)
(***************************************************************************)
EXTENDS Orders, TLAPS

-----------------------------------------------------------------------------
(* The quotes.                                                             *)

\* What integer division gives.
LEMMA Division ==
    ASSUME NEW a \in Nat, NEW b \in Nat \ {0}
    PROVE  /\ a \div b \in Nat
           /\ (a \div b) * b <= a
           /\ a < ((a \div b) + 1) * b
  BY Z3

\* Products stay natural numbers.
LEMMA ProductNat == ASSUME NEW a \in Nat, NEW b \in Nat PROVE a * b \in Nat
  BY Z3

\* The quotient of the quote, without the division.
LEMMA SwapBounds ==
    ASSUME NEW y \in Nat, NEW x \in Nat \ {0}, NEW dx \in Nat
    PROVE  /\ Swap(y, x, dx) \in Nat
           /\ Swap(y, x, dx) * (x + dx) <= y * dx
           /\ y * dx < (Swap(y, x, dx) + 1) * (x + dx)
  <1>1. y * dx \in Nat
    BY ProductNat
  <1>2. x + dx \in Nat \ {0}
    BY Z3
  <1>3. Swap(y, x, dx) = (y * dx) \div (x + dx)
    BY DEF Swap
  <1> QED
    BY <1>1, <1>2, <1>3, Division

\* A number below the modulus is its own remainder.
LEMMA Remains ==
    ASSUME NEW a \in Nat, NEW b \in Nat \ {0}, a < b
    PROVE  a % b = a
  BY Z3

\* The quote is affordable, and it is the most that is: the reserves' product
\* never falls, and one token more would make it fall.
THEOREM QuoteIsMost ==
    ASSUME NEW y \in Nat, NEW x \in Nat \ {0}, NEW dx \in Nat
    PROVE  /\ Affordable(y, x, dx, Swap(y, x, dx))
           /\ \A t \in Nat : Affordable(y, x, dx, t) => t <= Swap(y, x, dx)
  <1> DEFINE q == Swap(y, x, dx)
  <1>1. /\ q \in Nat
        /\ q * (x + dx) <= y * dx
        /\ y * dx < (q + 1) * (x + dx)
    BY SwapBounds
  <1> HIDE DEF q
  <1>2. ASSUME NEW t \in Nat
        PROVE  (x + dx) * (y - t) = x * y + y * dx - t * (x + dx)
    BY Z3
  <1>3. ASSUME NEW t \in Nat, Affordable(y, x, dx, t)
        PROVE  t <= q
    <2>1. t * (x + dx) <= y * dx
      <3>1. x * y + y * dx - t * (x + dx) >= x * y
        BY <1>3, <1>2 DEF Affordable
      <3>2. x * y \in Int /\ y * dx \in Int /\ t * (x + dx) \in Int
        BY Z3
      <3> QED
        BY <3>1, <3>2
    <2>2. t * (x + dx) < (q + 1) * (x + dx)
      <3>1. t * (x + dx) \in Int /\ y * dx \in Int /\ (q + 1) * (x + dx) \in Int
        BY <1>1, Z3
      <3> QED
        BY <2>1, <1>1, <3>1
    <2>3. CASE t >= q + 1
      <3>1. t * (x + dx) >= (q + 1) * (x + dx)
        BY <2>3, <1>1, Z3
      <3>2. t * (x + dx) \in Int /\ (q + 1) * (x + dx) \in Int
        BY <1>1, Z3
      <3> QED
        BY <3>1, <3>2, <2>2
    <2> QED
      BY <2>3, <1>1
  <1>4. Affordable(y, x, dx, q)
    <2>1. (x + dx) * (y - q) = x * y + y * dx - q * (x + dx)
      BY <1>1, <1>2
    <2>2. x * y \in Int /\ y * dx \in Int /\ q * (x + dx) \in Int
      BY <1>1, Z3
    <2> QED
      BY <1>1, <2>1, <2>2 DEF Affordable
  <1> QED
    BY <1>3, <1>4 DEF q

\* So that the quote is exactly the border of what is affordable.
THEOREM QuoteIsBorder ==
    ASSUME NEW y \in Nat, NEW x \in Nat \ {0}, NEW dx \in Nat, NEW t \in Nat
    PROVE  Affordable(y, x, dx, t) <=> t <= Swap(y, x, dx)
  <1> DEFINE q == Swap(y, x, dx)
  <1>1. q \in Nat
    BY SwapBounds
  <1>2. Affordable(y, x, dx, q) /\ (Affordable(y, x, dx, t) => t <= q)
    BY QuoteIsMost
  <1> HIDE DEF q
  <1>3. ASSUME t <= q
        PROVE  Affordable(y, x, dx, t)
    <2>1. (x + dx) * (y - t) >= (x + dx) * (y - q)
      BY <1>1, <1>3, Z3
    <2>2. (x + dx) * (y - t) \in Int /\ (x + dx) * (y - q) \in Int /\ x * y \in Int
      BY <1>1, Z3
    <2> QED
      BY <1>2, <2>1, <2>2 DEF Affordable
  <1> QED
    BY <1>2, <1>3 DEF q

\* A quote never empties the reserve it is taken from.
THEOREM QuoteLeavesReserve ==
    ASSUME NEW y \in Nat \ {0}, NEW x \in Nat \ {0}, NEW dx \in Nat
    PROVE  Swap(y, x, dx) < y
  <1> DEFINE q == Swap(y, x, dx)
  <1>1. q \in Nat /\ q * (x + dx) <= y * dx
    BY SwapBounds
  <1> HIDE DEF q
  <1>2. CASE q >= y
    <2>1. q * (x + dx) >= y * (x + dx)
      BY <1>1, <1>2, Z3
    <2>2. y * (x + dx) = y * x + y * dx /\ y * x > 0
      BY Z3
    <2>3. q * (x + dx) \in Int /\ y * (x + dx) \in Int /\ y * x \in Int /\ y * dx \in Int
      BY <1>1, Z3
    <2> QED
      BY <1>1, <2>1, <2>2, <2>3
  <1> QED
    BY <1>1, <1>2 DEF q

\* Buying and selling at once brings no gain: what was bought, sold to the
\* curve as the buy left it, brings at most what was paid.
THEOREM NoRoundTripGain ==
    ASSUME NEW y \in Nat \ {0}, NEW x \in Nat \ {0}, NEW dx \in Nat
    PROVE  LET q == Swap(y, x, dx) IN Swap(x + dx, y - q, q) <= dx
  <1> DEFINE q == Swap(y, x, dx)
             back == Swap(x + dx, y - q, q)
  <1>1. q \in Nat /\ q * (x + dx) <= y * dx
    BY SwapBounds
  <1>2. q < y
    BY QuoteLeavesReserve
  <1> HIDE DEF q
  <1>3. y - q \in Nat \ {0} /\ x + dx \in Nat
    BY <1>1, <1>2
  <1>4. back \in Nat /\ back * ((y - q) + q) <= (x + dx) * q
    BY <1>1, <1>3, SwapBounds
  <1> HIDE DEF back
  <1>5. (y - q) + q = y
    BY <1>1
  <1>6. back * y <= y * dx
    <2>1. (x + dx) * q = q * (x + dx)
      BY <1>1, Z3
    <2>2. back * y \in Int /\ y * dx \in Int /\ q * (x + dx) \in Int
      BY <1>1, <1>4, Z3
    <2> QED
      BY <1>1, <1>4, <1>5, <2>1, <2>2
  <1>7. CASE back >= dx + 1
    <2>1. back * y >= (dx + 1) * y
      BY <1>7, <1>4, Z3
    <2>2. (dx + 1) * y = y * dx + y
      BY Z3
    <2>3. back * y \in Int /\ (dx + 1) * y \in Int /\ y * dx \in Int
      BY <1>4, Z3
    <2> QED
      BY <1>6, <2>1, <2>2, <2>3
  <1> QED
    BY <1>4, <1>7 DEF q, back

\* A slippage of at most 100% of an amount that a u64 product can take: a
\* sale asks for no more than it expects, and the two ways of computing the
\* least output agree.
THEOREM MinOutputsAgree ==
    ASSUME NEW expected \in U64s, NEW bps \in Nat, bps <= 10000, expected * bps < U64
    PROVE  /\ min_sol_output(expected, bps) = min_sol_output_saturating(expected, bps)
           /\ min_sol_output(expected, bps) \in 0 .. expected
  <1> DEFINE p == expected * bps
             slip == Slippage(expected, bps)
  <1>0. U64 \in Nat \ {0} /\ expected \in Nat /\ expected < U64 /\ bps \in Nat
    BY QuotesAssumption DEF U64s
  <1>1. p \in Nat
    BY <1>0, ProductNat
  <1>2. p <= expected * 10000
    BY <1>0, Z3
  <1>3. slip = p \div 10000
    <2>1. p < U64
      OBVIOUS
    <2>2. p % U64 = p
      <3> HIDE DEF p
      <3> QED
        BY <1>0, <1>1, <2>1, Remains
    <2> QED
      BY <2>2 DEF Slippage
  <1> HIDE DEF p, slip
  <1>4. slip \in 0 .. expected
    <2>1. slip \in Nat /\ slip * 10000 <= p
      BY <1>1, <1>3, Division
    <2> QED
      BY <1>0, <1>1, <1>2, <2>1
  <1>5. expected - slip \in Nat /\ expected - slip < U64
    BY <1>0, <1>4
  <1>6. (expected - slip) % U64 = expected - slip
    BY <1>0, <1>5, Remains
  <1>7. min_sol_output(expected, bps) = expected - slip
    BY <1>6 DEF min_sol_output, slip
  <1>8. min_sol_output_saturating(expected, bps) = expected - slip
    BY <1>0, <1>4 DEF min_sol_output_saturating, slip
  <1> QED
    BY <1>0, <1>4, <1>7, <1>8

-----------------------------------------------------------------------------
(* The copies of the curve, and what a step does to the orders.            *)

\* The task is a record with the fields the code gives it.
TaskShape ==
    task = [pc |-> task.pc, wrapper |-> task.wrapper, data |-> task.data,
            prefetched |-> task.prefetched, bc_state |-> task.bc_state,
            sell_snapshot |-> task.sell_snapshot, route |-> task.route]

\* Every copy of the curve is a state of the curve.
CopiesOfCurve ==
    /\ mint \in Mints
    /\ curve \in Curves /\ bc_cache \in MaybeCurve /\ task.bc_state \in MaybeCurve
    /\ TaskShape

LEMMA CopiesInit == Init => CopiesOfCurve
  BY DEF Init, CopiesOfCurve, MaybeCurve, TaskShape, Idle

\* A step that leaves the task alone.
LEMMA CopiesKeepTask ==
    ASSUME CopiesOfCurve, UNCHANGED <<mint, task>>,
           curve' \in Curves, bc_cache' \in MaybeCurve
    PROVE  CopiesOfCurve'
  BY DEF CopiesOfCurve, TaskShape

\* A step that replaces the task.
LEMMA CopiesNewTask ==
    ASSUME CopiesOfCurve, UNCHANGED mint,
           NEW p, NEW w, NEW d, NEW f, NEW b \in MaybeCurve, NEW n, NEW r,
           task' = [pc |-> p, wrapper |-> w, data |-> d, prefetched |-> f,
                    bc_state |-> b, sell_snapshot |-> n, route |-> r],
           curve' \in Curves, bc_cache' \in MaybeCurve
    PROVE  CopiesOfCurve'
  BY DEF CopiesOfCurve, TaskShape

LEMMA CopiesNext == CopiesOfCurve /\ [Next]_vars => CopiesOfCurve'
  <1> SUFFICES ASSUME CopiesOfCurve, [Next]_vars
               PROVE  CopiesOfCurve'
    OBVIOUS
  <1> USE DEF MaybeCurve
  <1>0. /\ curve \in Curves /\ bc_cache \in MaybeCurve /\ task.bc_state \in MaybeCurve
        /\ TaskShape
    BY DEF CopiesOfCurve
  <1>1. ASSUME NEW trade, SeeTrade(trade)
        PROVE  CopiesOfCurve'
    BY <1>0, <1>1, CopiesKeepTask DEF SeeTrade
  <1>2. ASSUME NEW trade, SeeTradeAndBuy(trade) \/ Trigger(trade)
        PROVE  CopiesOfCurve'
    <2>1. task' = [pc |-> "prefetch", wrapper |-> trade.wrapper, data |-> trade.target_data,
                   prefetched |-> None, bc_state |-> None, sell_snapshot |-> None,
                   route |-> "none"]
      BY <1>2 DEF SeeTradeAndBuy, Trigger, Spawned, Idle
    <2>2. UNCHANGED <<mint, curve, bc_cache>>
      BY <1>2 DEF SeeTradeAndBuy, Trigger
    <2> QED
      BY <1>0, <2>1, <2>2, CopiesNewTask
  <1>3. CASE CurveMoves
    BY <1>0, <1>3, CopiesKeepTask DEF CurveMoves
  <1>4. CASE Migrate
    BY <1>0, <1>4, CopiesKeepTask DEF Migrate
  <1>5. CASE CurveCached
    BY <1>0, <1>5, CopiesKeepTask DEF CurveCached
  <1>6. CASE ForgetMint
    BY <1>0, <1>6, CopiesKeepTask DEF ForgetMint
  <1>7. CASE ReadPrefetch
    <2>1. task' = [pc |-> "curve", wrapper |-> task.wrapper, data |-> task.data,
                   prefetched |-> prefetch, bc_state |-> task.bc_state,
                   sell_snapshot |-> task.sell_snapshot, route |-> task.route]
      BY <1>0, <1>7 DEF ReadPrefetch, TaskShape
    <2>2. UNCHANGED <<mint, curve, bc_cache>>
      BY <1>7 DEF ReadPrefetch
    <2> QED
      BY <1>0, <2>1, <2>2, CopiesNewTask
  <1>8. CASE ReadCurve
    <2>1. task' = [pc |-> "fetch", wrapper |-> task.wrapper, data |-> task.data,
                   prefetched |-> task.prefetched, bc_state |-> bc_cache,
                   sell_snapshot |-> task.sell_snapshot, route |-> task.route]
      BY <1>0, <1>8 DEF ReadCurve, TaskShape
    <2>2. UNCHANGED <<mint, curve, bc_cache>>
      BY <1>8 DEF ReadCurve
    <2> QED
      BY <1>0, <2>1, <2>2, CopiesNewTask
  <1>9. CASE SyncFetch
    <2>1. task' = [pc |-> "build", wrapper |-> task.wrapper, data |-> task.data,
                   prefetched |-> task.prefetched, bc_state |-> curve,
                   sell_snapshot |-> task.sell_snapshot, route |-> task.route]
      BY <1>0, <1>9 DEF SyncFetch, TaskShape
    <2>2. UNCHANGED <<mint, curve>> /\ bc_cache' = curve
      BY <1>9 DEF SyncFetch
    <2> QED
      BY <1>0, <2>1, <2>2, CopiesNewTask
  <1>10. CASE NoSyncFetch
    <2>1. task' = [pc |-> "build", wrapper |-> task.wrapper, data |-> task.data,
                   prefetched |-> task.prefetched, bc_state |-> task.bc_state,
                   sell_snapshot |-> task.sell_snapshot, route |-> task.route]
      BY <1>0, <1>10 DEF NoSyncFetch, TaskShape
    <2>2. UNCHANGED <<mint, curve, bc_cache>>
      BY <1>10 DEF NoSyncFetch
    <2> QED
      BY <1>0, <2>1, <2>2, CopiesNewTask
  <1>11. CASE BuildBuy
    <2>1. task' = [pc |-> "sent", wrapper |-> FALSE, data |-> "none", prefetched |-> None,
                   bc_state |-> None, sell_snapshot |-> task.prefetched, route |-> Route]
      BY <1>11 DEF BuildBuy, Idle
    <2>2. UNCHANGED <<mint, curve, bc_cache>>
      BY <1>11 DEF BuildBuy
    <2> QED
      BY <1>0, <2>1, <2>2, CopiesNewTask
  <1>12. CASE SkipBuy \/ BuyFails \/ PositionEnds
    <2>1. task' = [pc |-> "idle", wrapper |-> FALSE, data |-> "none", prefetched |-> None,
                   bc_state |-> None, sell_snapshot |-> None, route |-> "none"]
      BY <1>12 DEF SkipBuy, BuyFails, PositionEnds, Idle
    <2>2. UNCHANGED <<mint, curve, bc_cache>>
      BY <1>12 DEF SkipBuy, BuyFails, PositionEnds
    <2> QED
      BY <1>0, <2>1, <2>2, CopiesNewTask
  <1>13. CASE BuyLands
    <2>1. task' = [pc |-> "held", wrapper |-> task.wrapper, data |-> task.data,
                   prefetched |-> task.prefetched, bc_state |-> task.bc_state,
                   sell_snapshot |-> task.sell_snapshot, route |-> task.route]
      BY <1>0, <1>13 DEF BuyLands, TaskShape
    <2>2. UNCHANGED <<mint, curve, bc_cache>>
      BY <1>13 DEF BuyLands
    <2> QED
      BY <1>0, <2>1, <2>2, CopiesNewTask
  <1>14. ASSUME NEW amount, BuildStandardSale(amount) \/ BuildMirroredSale(amount)
         PROVE  CopiesOfCurve'
    <2>1. UNCHANGED <<mint, curve, bc_cache, task>>
      BY <1>14 DEF BuildStandardSale, BuildMirroredSale
    <2> QED
      BY <1>0, <2>1, CopiesKeepTask
  <1>15. CASE UNCHANGED vars
    BY <1>0, <1>15, CopiesKeepTask DEF vars
  <1> QED
    BY <1>1, <1>2, <1>3, <1>4, <1>5, <1>6, <1>7, <1>8, <1>9, <1>10, <1>11, <1>12,
       <1>13, <1>14, <1>15 DEF Next

\* Every curve that is cached, cloned or kept is one that the chain can have.
THEOREM OrdersCopies == Spec => []CopiesOfCurve
  BY CopiesInit, CopiesNext, PTL DEF Spec

\* The steps that build an order; no other step leaves a new one.
LEMMA OrderSteps ==
    ASSUME [Next]_vars
    PROVE  \/ BuildBuy
           \/ \E amount \in Holdings : BuildStandardSale(amount) \/ BuildMirroredSale(amount)
           \/ order' = NoOrder
           \/ UNCHANGED <<order, mint>>
  BY DEF Next, vars, SeeTrade, SeeTradeAndBuy, Trigger, CurveMoves, Migrate, CurveCached,
         ForgetMint, ReadPrefetch, ReadCurve, SyncFetch, NoSyncFetch, SkipBuy, BuyLands,
         BuyFails, PositionEnds

-----------------------------------------------------------------------------
(* The accounts of a buy.                                                  *)

LEMMA BuyAccountsDomain ==
    ASSUME NEW user, NEW program, NEW fee
    PROVE  DOMAIN BuyAccounts(user, program, fee) = BuySlots
  BY DEF BuyAccounts, ZeroBased, BuySlots

\* A list that passed validation is the derived one.
LEMMA ValidIsStandard ==
    ASSUME NEW c, validate_direct_mirror_buy_accounts(c)
    PROVE  /\ DOMAIN Mirrored = BuySlots
           /\ \A i \in BuySlots :
                 \/ c = None /\ i \in {1, 9}
                 \/ Mirrored[i] = BuyAccounts(Me, task.prefetched.token_program,
                      IF c = None THEN FEE_RECIPIENT ELSE select_fee_recipient(mint))[i]
  <1>1. DOMAIN Mirrored = DOMAIN task.prefetched.mirror_accounts
    BY DEF Mirrored, replace_user_pdas
  <1> QED
    BY <1>1 DEF validate_direct_mirror_buy_accounts, UncheckedWithoutCurve

LEMMA RouteCases ==
    ASSUME CanBuild
    PROVE  \/ /\ Route = "mirror" /\ task.bc_state # None
              /\ validate_direct_mirror_buy_accounts(task.bc_state)
           \/ Route = "native" /\ task.bc_state # None
           \/ /\ Route = "target" /\ task.bc_state = None
              /\ validate_direct_mirror_buy_accounts(None)
  BY DEF CanBuild, Route

\* Whatever the targets sent, a buy names the accounts that derivation gives,
\* but for the two that cannot be derived without a curve (execute_buy,
\* validate_direct_mirror_buy_accounts).
THEOREM OrdersBuyIsStandard == Spec => []BuyIsStandard
  <1>1. Init => BuyIsStandard
    BY DEF Init, BuyIsStandard, NoOrder
  <1>2. BuyIsStandard /\ [Next]_vars => BuyIsStandard'
    <2> SUFFICES ASSUME BuyIsStandard, [Next]_vars
                 PROVE  BuyIsStandard'
      OBVIOUS
    <2>1. CASE BuildBuy
      <3>1. order' = BuyOrder /\ CanBuild /\ mint' = mint
        BY <2>1 DEF BuildBuy
      <3>2. /\ order'.curve = task.bc_state
            /\ order'.program = task.prefetched.token_program
            /\ order'.accounts = IF Route = "native"
                                   THEN BuyAccounts(Me, task.prefetched.token_program,
                                                    select_fee_recipient(mint))
                                   ELSE Mirrored
        BY <3>1 DEF BuyOrder
      <3>3. CASE Route = "native"
        <4>1. task.bc_state # None
          BY <3>1, <3>3, RouteCases
        <4> QED
          BY <3>1, <3>2, <3>3, <4>1, BuyAccountsDomain DEF BuyIsStandard, select_fee_recipient
      <3>4. CASE Route # "native"
        <4>1. validate_direct_mirror_buy_accounts(task.bc_state)
          BY <3>1, <3>4, RouteCases
        <4>2. order'.accounts = Mirrored
          BY <3>2, <3>4
        <4>3. /\ DOMAIN order'.accounts = BuySlots
              /\ \A i \in BuySlots :
                    \/ order'.curve = None /\ i \in {1, 9}
                    \/ order'.accounts[i] = BuyAccounts(Me, order'.program,
                         IF order'.curve = None THEN FEE_RECIPIENT
                           ELSE select_fee_recipient(mint'))[i]
          BY <3>1, <3>2, <4>1, <4>2, ValidIsStandard
        <4> QED
          BY <4>3 DEF BuyIsStandard
      <3> QED
        BY <3>3, <3>4
    <2>2. ASSUME NEW amount \in Holdings,
                 BuildStandardSale(amount) \/ BuildMirroredSale(amount)
          PROVE  BuyIsStandard'
      <3>1. order'.side = "sell"
        BY <2>2 DEF BuildStandardSale, BuildMirroredSale, StandardSale, MirroredSale
      <3> QED
        BY <3>1 DEF BuyIsStandard
    <2>3. CASE order' = NoOrder
      BY <2>3 DEF BuyIsStandard, NoOrder
    <2>4. CASE UNCHANGED <<order, mint>>
      BY <2>4 DEF BuyIsStandard
    <2> QED
      BY <2>1, <2>2, <2>3, <2>4, OrderSteps
  <1> QED
    BY <1>1, <1>2, PTL DEF Spec

-----------------------------------------------------------------------------
(* The amounts.                                                            *)

LEMMA CurveTypes ==
    ASSUME NEW c \in Curves
    PROVE  /\ c.virtual_token_reserves \in U64s /\ c.virtual_sol_reserves \in U64s
           /\ c.virtual_sol_reserves * 10000 < U64
           /\ c # None
  BY OrdersAssumption

\* What a sale brings is bounded by the reserve.
LEMMA SwapInReserve ==
    ASSUME NEW y \in Nat, NEW x \in Nat \ {0}, NEW dx \in Nat
    PROVE  Swap(y, x, dx) \in 0 .. y
  <1>1. CASE y = 0
    <2>1. Swap(y, x, dx) \in Nat /\ Swap(y, x, dx) * (x + dx) <= 0
      <3>1. y * dx = 0
        BY <1>1
      <3> QED
        BY <3>1, SwapBounds
    <2>2. Swap(y, x, dx) <= 0
      <3> DEFINE q == Swap(y, x, dx)
      <3> HIDE DEF q
      <3>1. q \in Nat /\ q * (x + dx) <= 0
        BY <2>1 DEF q
      <3>2. q > 0 => q * (x + dx) > 0
        BY <3>1, Z3
      <3> QED
        BY <3>1, <3>2 DEF q
    <2> QED
      BY <1>1, <2>1, <2>2
  <1>2. CASE y # 0
    <2>1. y \in Nat \ {0}
      BY <1>2
    <2>2. Swap(y, x, dx) < y
      BY <2>1, QuoteLeavesReserve
    <2>3. Swap(y, x, dx) \in Nat
      BY SwapBounds
    <2> QED
      BY <2>2, <2>3
  <1> QED
    BY <1>1, <1>2

\* Both ways to ask for the least output ask for no more than the quote.
LEMMA LimitInQuote ==
    ASSUME NEW c \in Curves, c.virtual_token_reserves > 0,
           NEW tokens \in U64s, NEW bps \in Nat, bps <= 10000
    PROVE  /\ min_sol_output(token_to_sol_quote(c, tokens), bps)
                 \in 0 .. token_to_sol_quote(c, tokens)
           /\ min_sol_output_saturating(token_to_sol_quote(c, tokens), bps)
                 \in 0 .. token_to_sol_quote(c, tokens)
  <1> DEFINE y == c.virtual_sol_reserves
             x == c.virtual_token_reserves
             quote == token_to_sol_quote(c, tokens)
  <1>1. /\ x \in Nat \ {0} /\ y \in Nat /\ tokens \in Nat
        /\ y < U64 /\ y * 10000 < U64 /\ U64 \in Nat
    BY CurveTypes, QuotesAssumption DEF U64s
  <1>2. quote = Swap(y, x, tokens)
    BY DEF token_to_sol_quote
  <1> HIDE DEF x, y
  <1>3. quote \in 0 .. y
    BY <1>1, <1>2, SwapInReserve
  <1> HIDE DEF quote
  <1>4. quote \in U64s
    BY <1>1, <1>3 DEF U64s
  <1>5. quote * bps < U64
    <2>1. quote * bps <= quote * 10000 /\ quote * 10000 <= y * 10000
      BY <1>1, <1>3, Z3
    <2>2. quote * bps \in Int /\ quote * 10000 \in Int /\ y * 10000 \in Int
      BY <1>1, <1>3, Z3
    <2> QED
      BY <1>1, <2>1, <2>2
  <1>6. min_sol_output(quote, bps) = min_sol_output_saturating(quote, bps)
    BY <1>4, <1>5, MinOutputsAgree
  <1>7. min_sol_output(quote, bps) \in 0 .. quote
    BY <1>4, <1>5, MinOutputsAgree
  <1> QED
    BY <1>6, <1>7 DEF quote

\* So that the sale can bring what it asks for.
LEMMA SaleIsAffordable ==
    ASSUME NEW c \in Curves, c.virtual_token_reserves > 0,
           NEW amount \in U64s, NEW bps \in Nat, bps <= 10000,
           NEW limit,
           \/ limit = min_sol_output(token_to_sol_quote(c, amount), bps)
           \/ limit = min_sol_output_saturating(token_to_sol_quote(c, amount), bps)
    PROVE  Affordable(c.virtual_sol_reserves, c.virtual_token_reserves, amount, limit)
  <1> DEFINE quote == token_to_sol_quote(c, amount)
  <1>1. /\ c.virtual_sol_reserves \in Nat /\ c.virtual_token_reserves \in Nat \ {0}
        /\ amount \in Nat
    BY CurveTypes, QuotesAssumption DEF U64s
  <1>2. quote = Swap(c.virtual_sol_reserves, c.virtual_token_reserves, amount)
    BY DEF token_to_sol_quote
  <1>3. quote \in Nat
    BY <1>1, <1>2, SwapInReserve
  <1>4. /\ min_sol_output(quote, bps) \in 0 .. quote
        /\ min_sol_output_saturating(quote, bps) \in 0 .. quote
    BY LimitInQuote
  <1> HIDE DEF quote
  <1>5. limit \in 0 .. quote
    BY <1>4 DEF quote
  <1>6. limit \in Nat /\ limit <= quote
    BY <1>3, <1>5
  <1> QED
    BY <1>1, <1>2, <1>6, QuoteIsBorder

\* An order asks for what the curve it was quoted on gives: the most tokens for
\* the lamports of the group, and no more lamports than a sale brings
\* (sol_to_token_quote, token_to_sol_quote, try_pumpfun_sell, sell_standard).
THEOREM OrdersQuoteIsExact == Spec => []QuoteIsExact
  <1>1. Init => QuoteIsExact
    BY DEF Init, QuoteIsExact
  <1>2. CopiesOfCurve /\ QuoteIsExact /\ [Next]_vars => QuoteIsExact'
    <2> SUFFICES ASSUME CopiesOfCurve, QuoteIsExact, [Next]_vars
                 PROVE  QuoteIsExact'
      OBVIOUS
    <2>1. CASE BuildBuy
      <3> DEFINE c == task.bc_state
      <3>1. order' = BuyOrder /\ CanBuild
        BY <2>1 DEF BuildBuy
      <3>2. order'.side = "buy" /\ order'.curve = c /\ order'.tokens = Bought
        BY <3>1 DEF BuyOrder
      <3>3. ASSUME c # None, c.virtual_sol_reserves > 0, NEW t \in 0 .. MAX_RAW_SUPPLY
            PROVE  Affordable(c.virtual_token_reserves, c.virtual_sol_reserves,
                              BuyLamports, t) <=> t <= Bought
        <4>1. c \in Curves
          BY <3>3 DEF CopiesOfCurve, MaybeCurve
        <4>2. /\ c.virtual_token_reserves \in Nat
              /\ c.virtual_sol_reserves \in Nat \ {0}
              /\ BuyLamports \in Nat /\ t \in Nat
          BY <3>3, <4>1, CurveTypes, OrdersAssumption, QuotesAssumption DEF U64s
        <4>3. Route # "target"
          BY <3>1, <3>3, RouteCases
        <4>4. Bought = Swap(c.virtual_token_reserves, c.virtual_sol_reserves, BuyLamports)
          BY <4>3 DEF Bought, sol_to_token_quote
        <4> HIDE DEF c
        <4> QED
          BY <4>2, <4>4, QuoteIsBorder
      <3> HIDE DEF c
      <3> QED
        BY <3>2, <3>3 DEF QuoteIsExact
    <2>2. ASSUME NEW amount \in Holdings,
                 BuildStandardSale(amount) \/ BuildMirroredSale(amount)
          PROVE  QuoteIsExact'
      <3>0. /\ amount \in U64s
            /\ BuySlippage \in Nat /\ BuySlippage <= 10000
            /\ SellSlippage \in Nat /\ SellSlippage <= 10000
        BY OrdersAssumption
      <3>1. CASE BuildStandardSale(amount)
        <4>1. order' = StandardSale(amount) /\ curve \in Curves
          BY <3>1 DEF BuildStandardSale, CopiesOfCurve
        <4>2. /\ order'.side = "sell" /\ order'.curve = curve /\ order'.tokens = amount
              /\ order'.limit = min_sol_output(token_to_sol_quote(curve, amount), BuySlippage)
          BY <4>1 DEF StandardSale
        <4>3. curve.virtual_token_reserves > 0 =>
                 Affordable(curve.virtual_sol_reserves, curve.virtual_token_reserves,
                            amount, order'.limit)
          BY <3>0, <4>1, <4>2, SaleIsAffordable
        <4> QED
          BY <4>2, <4>3 DEF QuoteIsExact
      <3>2. CASE BuildMirroredSale(amount)
        <4> DEFINE c == IF bc_cache # None THEN bc_cache ELSE curve
        <4>1. order' = MirroredSale(amount, c) /\ c \in Curves
          BY <3>2 DEF BuildMirroredSale, CopiesOfCurve, MaybeCurve
        <4> HIDE DEF c
        <4>2. /\ order'.side = "sell" /\ order'.curve = c /\ order'.tokens = amount
              /\ order'.limit =
                    min_sol_output_saturating(token_to_sol_quote(c, amount), SellSlippage)
          BY <4>1 DEF MirroredSale
        <4>3. c.virtual_token_reserves > 0 =>
                 Affordable(c.virtual_sol_reserves, c.virtual_token_reserves,
                            amount, order'.limit)
          BY <3>0, <4>1, <4>2, SaleIsAffordable
        <4> QED
          BY <4>2, <4>3 DEF QuoteIsExact
      <3> QED
        BY <2>2, <3>1, <3>2
    <2>3. CASE order' = NoOrder
      BY <2>3 DEF QuoteIsExact
    <2>4. CASE UNCHANGED <<order, mint>>
      BY <2>4 DEF QuoteIsExact
    <2> QED
      BY <2>1, <2>2, <2>3, <2>4, OrderSteps
  <1> QED
    BY <1>1, <1>2, OrdersCopies, PTL DEF Spec

-----------------------------------------------------------------------------
(* The lists of accounts, and what is detected.                            *)

\* The slots of a sale that depend on its parameters, and how many it has.
LEMMA SellAccountsSlots ==
    ASSUME NEW base, NEW bonding_curve, NEW associated, NEW user, NEW program,
           NEW cashback \in BOOLEAN
    PROVE  LET list == SellAccounts(base, bonding_curve, associated, user, program, cashback)
           IN  /\ DOMAIN list \in {0 .. 14, 0 .. 15}
               /\ list[2] = base /\ list[5] = Ata(user, program)
  <1>1. CASE cashback
    BY <1>1 DEF SellAccounts, ZeroBased
  <1>2. CASE ~ cashback
    BY <1>2 DEF SellAccounts, ZeroBased
  <1> QED
    BY <1>1, <1>2

LEMMA BuyAccountsSlots ==
    ASSUME NEW user, NEW program, NEW fee
    PROVE  LET list == BuyAccounts(user, program, fee)
           IN  /\ list[2] = <<"mint">> /\ list[3] = <<"bonding_curve">>
               /\ list[4] = Ata("bonding_curve", program) /\ list[5] = Ata(user, program)
               /\ list[8] = program
  BY DEF BuyAccounts, ZeroBased

\* What is kept of a trade: types, and the mint where every list has it.
KeptTypes(wallet, quality, list) ==
    /\ wallet \in Wallets
    /\ quality \in 0 .. 15 \cup {1000}
    /\ DOMAIN list \in {{}, BuySlots} \cup {0 .. 14, 0 .. 15}
    /\ list # NoAccounts => list[2] = <<"mint">>

LEMMA ListedTypes ==
    ASSUME NEW t \in Transactions
    PROVE  /\ DOMAIN Listed(t) \in {BuySlots} \cup {0 .. 14, 0 .. 15}
           /\ 2 \notin t.wrong => Listed(t)[2] = <<"mint">>
           /\ t.kind # "sell" /\ 8 \notin t.wrong => Listed(t)[8] = t.mint.token_program
           /\ t.kind # "sell" => 8 \in DOMAIN Listed(t)
  <1>1. t.mint \in Mints /\ t.mint.is_cashback \in BOOLEAN
    BY OrdersAssumption DEF Transactions
  <1>2. CASE t.kind = "sell"
    <2> DEFINE right == StandardSellAccounts(t.user, t.mint)
    <2>1. DOMAIN right \in {0 .. 14, 0 .. 15} /\ right[2] = <<"mint">>
      BY <1>1, SellAccountsSlots DEF StandardSellAccounts
    <2> HIDE DEF right
    <2>2. Listed(t) = [i \in DOMAIN right |-> IF i \in t.wrong THEN <<"other">> ELSE right[i]]
      BY <1>2 DEF Listed, right
    <2>3. 2 \in DOMAIN right
      BY <2>1
    <2> QED
      BY <1>2, <2>1, <2>2, <2>3
  <1>3. CASE t.kind # "sell"
    <2> DEFINE right == BuyAccounts(t.user, t.mint.token_program, select_fee_recipient(t.mint))
    <2>1. /\ DOMAIN right = BuySlots /\ right[2] = <<"mint">>
          /\ right[8] = t.mint.token_program
      BY BuyAccountsDomain, BuyAccountsSlots
    <2> HIDE DEF right
    <2>2. Listed(t) = [i \in DOMAIN right |-> IF i \in t.wrong THEN <<"other">> ELSE right[i]]
      BY <1>3 DEF Listed, right
    <2>3. 2 \in DOMAIN right /\ 8 \in DOMAIN right
      BY <2>1 DEF BuySlots
    <2> QED
      BY <2>1, <2>2, <2>3
  <1> QED
    BY <1>2, <1>3

LEMMA TradeTypes ==
    ASSUME NEW trade \in DetectedTrades
    PROVE  /\ KeptTypes(trade.source_wallet, trade.quality, trade.instruction_accounts)
           /\ trade.wrapper \in BOOLEAN
           /\ trade.target_data \in {"none", "buy", "exact_in", "other"}
  <1>1. PICK t \in Transactions : Detected(t) /\ trade = Trade(t)
    BY DEF DetectedTrades
  <1>2. source_wallet(t) \in Wallets
    BY DEF Transactions, source_wallet
  <1>3. trade.quality \in 0 .. 15
    BY <1>1 DEF Trade, signal_quality_score
  <1>4. trade.wrapper \in BOOLEAN
    BY <1>1 DEF Trade, IsWrapperCpi, Transactions
  <1>5. trade.target_data \in {"none", "buy", "exact_in", "other"}
    BY <1>1 DEF Trade, is_buy, Transactions
  <1>6. DOMAIN NoAccounts = {}
    BY DEF NoAccounts
  <1>7. 2 \notin t.wrong
    BY <1>1 DEF Detected
  <1>8. instruction_accounts(t) \in {NoAccounts, Listed(t)}
    BY DEF instruction_accounts
  <1>9. KeptTypes(source_wallet(t), trade.quality, instruction_accounts(t))
    BY <1>2, <1>3, <1>6, <1>7, <1>8, ListedTypes DEF KeptTypes
  <1> QED
    BY <1>1, <1>4, <1>5, <1>9 DEF Trade

-----------------------------------------------------------------------------
(* From the entry a buy has cloned to the sales of its position.           *)

Kept(entry) ==
    entry # None => KeptTypes(entry.source_wallet, entry.quality_score, entry.mirror_accounts)

\* The entries that are kept, and the rest of the task.
KeptOK ==
    /\ Kept(prefetch) /\ Kept(task.prefetched) /\ Kept(task.sell_snapshot)
    /\ migrated \in BOOLEAN
    /\ task.pc \in {"idle", "prefetch", "curve", "fetch", "build", "sent", "held"}
    /\ task.wrapper \in BOOLEAN
    /\ task.data \in {"none", "buy", "exact_in", "other"}

\* The slots of curve and associated account, which a mirrored list takes as
\* they are unless the volume accumulator of its wallet stands there.
CurveSlots == {3, 4}

\* A buy that is sent names our account under the token program of its entry,
\* and the curve of the entry's list when it is mirrored.
SentOfEntry ==
    task.pc = "sent" =>
        /\ order.side = "buy"
        /\ order.accounts[5] = Ata(Me, task.sell_snapshot.token_program)
        /\ task.route # "native" => \A i \in CurveSlots :
              order.accounts[i] \in {task.sell_snapshot.mirror_accounts[i], UserVolume(Me)}

\* A buy has landed: what its entry says of the mint is right.
HeldOfEntry ==
    task.pc = "held" =>
        /\ task.sell_snapshot.token_program = mint.token_program
        /\ task.route # "native" =>
              /\ task.sell_snapshot.mirror_accounts[3] = <<"bonding_curve">>
              /\ task.sell_snapshot.mirror_accounts[4]
                    = Ata("bonding_curve", mint.token_program)

\* An order is that of a task which has sent one, with the entry it was made of.
OrderOfTask ==
    /\ order # NoOrder <=> task.pc \in {"sent", "held"}
    /\ order.side = "sell" => task.pc = "held"
    /\ task.pc \in {"sent", "held"} => task.sell_snapshot # None

OrderInv == KeptOK /\ SentOfEntry /\ HeldOfEntry /\ OrderOfTask /\ SellsWhatWasBought

LEMMA OrderInit == Init => OrderInv
  <1> SUFFICES ASSUME Init PROVE OrderInv
    OBVIOUS
  <1>1. /\ prefetch = None /\ task.prefetched = None /\ task.sell_snapshot = None
        /\ task.pc = "idle" /\ task.wrapper = FALSE /\ task.data = "none"
        /\ migrated = FALSE /\ order = NoOrder /\ order.side = "none"
    BY DEF Init, Idle, NoOrder
  <1>2. KeptOK
    BY <1>1 DEF KeptOK, Kept
  <1>3. SentOfEntry /\ HeldOfEntry /\ OrderOfTask /\ SellsWhatWasBought
    BY <1>1 DEF SentOfEntry, HeldOfEntry, OrderOfTask, SellsWhatWasBought
  <1> QED
    BY <1>2, <1>3 DEF OrderInv

\* A new entry is that of a trade, unless the old one is better.
LEMMA PrefetchStep ==
    ASSUME NEW trade, SeeTrade(trade) \/ SeeTradeAndBuy(trade) \/ Trigger(trade)
    PROVE  \/ prefetch' = prefetch
           \/ \E score \in {trade.quality, 1000} :
                 prefetch' = [token_program |-> trade.token_program,
                              mirror_accounts |-> trade.instruction_accounts,
                              source_wallet |-> trade.source_wallet,
                              quality_score |-> score]
  BY DEF SeeTrade, SeeTradeAndBuy, Trigger, prefetch_token

LEMMA PrefetchKept ==
    ASSUME NEW trade \in DetectedTrades, Kept(prefetch),
           SeeTrade(trade) \/ SeeTradeAndBuy(trade) \/ Trigger(trade)
    PROVE  Kept(prefetch')
  <1>1. ASSUME NEW score \in {trade.quality, 1000}
        PROVE  KeptTypes(trade.source_wallet, score, trade.instruction_accounts)
    BY TradeTypes DEF KeptTypes
  <1> QED
    BY <1>1, PrefetchStep DEF Kept

\* A step of the caches.
LEMMA OrderKeptByCaches ==
    ASSUME OrderInv, UNCHANGED <<mint, task, order>>, Kept(prefetch'), migrated' \in BOOLEAN
    PROVE  OrderInv'
  BY DEF OrderInv, KeptOK, Kept, SentOfEntry, HeldOfEntry, OrderOfTask, SellsWhatWasBought

\* A step of a task that has sent nothing yet.
LEMMA OrderKeptBefore ==
    ASSUME OrderInv, task.pc \notin {"sent", "held"},
           UNCHANGED <<mint, migrated, order>>, Kept(prefetch'),
           Kept(task'.prefetched), Kept(task'.sell_snapshot),
           task'.pc \in {"idle", "prefetch", "curve", "fetch", "build"},
           task'.wrapper \in BOOLEAN,
           task'.data \in {"none", "buy", "exact_in", "other"}
    PROVE  OrderInv'
  <1>1. order = NoOrder /\ order' = NoOrder
    BY DEF OrderInv, OrderOfTask
  <1>2. KeptOK'
    BY DEF OrderInv, KeptOK, Kept
  <1>3. SentOfEntry' /\ HeldOfEntry' /\ OrderOfTask' /\ SellsWhatWasBought'
    BY <1>1 DEF SentOfEntry, HeldOfEntry, OrderOfTask, SellsWhatWasBought, NoOrder
  <1> QED
    BY <1>2, <1>3 DEF OrderInv

\* A task that ends, or whose buy or position does.
LEMMA OrderEnds ==
    ASSUME OrderInv, task' = Idle, order' = NoOrder, UNCHANGED <<mint, migrated, prefetch>>
    PROVE  OrderInv'
  BY DEF OrderInv, KeptOK, Kept, SentOfEntry, HeldOfEntry, OrderOfTask,
         SellsWhatWasBought, Idle, NoOrder

\* The accounts of a buy, as its entry determines them.
LEMMA BoughtAccounts ==
    ASSUME CanBuild
    PROVE  /\ Route \in {"mirror", "native", "target"}
           /\ task.prefetched # None
           /\ BuyOrder.accounts[5] = Ata(Me, task.prefetched.token_program)
           /\ Route # "native" => \A i \in CurveSlots :
                BuyOrder.accounts[i] \in {task.prefetched.mirror_accounts[i], UserVolume(Me)}
  <1>1. Route \in {"mirror", "native", "target"} /\ task.prefetched # None
    BY DEF CanBuild, Route
  <1>2. BuyOrder.accounts = IF Route = "native"
                              THEN BuyAccounts(Me, task.prefetched.token_program,
                                               select_fee_recipient(mint))
                              ELSE Mirrored
    BY DEF BuyOrder
  <1>3. CASE Route = "native"
    BY <1>1, <1>2, <1>3, BuyAccountsSlots
  <1>4. CASE Route # "native"
    <2>1. DOMAIN task.prefetched.mirror_accounts = BuySlots
      BY <1>4, RouteCases DEF validate_direct_mirror_buy_accounts
    <2>2. {3, 4, 5} \subseteq DOMAIN task.prefetched.mirror_accounts
      BY <2>1 DEF BuySlots
    <2> DEFINE kept == task.prefetched
    <2>3. Mirrored[5] = Ata(Me, kept.token_program)
      BY <2>2 DEF Mirrored, replace_user_pdas
    <2>4. \A i \in CurveSlots : Mirrored[i] \in {kept.mirror_accounts[i], UserVolume(Me)}
      BY <2>2 DEF Mirrored, replace_user_pdas, CurveSlots
    <2> QED
      BY <1>1, <1>2, <1>4, <2>3, <2>4
  <1> QED
    BY <1>3, <1>4

LEMMA OrderBuilt ==
    ASSUME OrderInv, BuildBuy
    PROVE  OrderInv'
  <1>1. /\ CanBuild /\ order' = BuyOrder
        /\ UNCHANGED <<mint, migrated, prefetch>>
        /\ task' = [pc |-> "sent", wrapper |-> FALSE, data |-> "none", prefetched |-> None,
                    bc_state |-> None, sell_snapshot |-> task.prefetched, route |-> Route]
    BY DEF BuildBuy, Idle
  <1>2. order'.side = "buy"
    BY <1>1 DEF BuyOrder
  <1>3. KeptOK'
    BY <1>1 DEF OrderInv, KeptOK, Kept
  <1>4. SentOfEntry'
    BY <1>1, <1>2, BoughtAccounts DEF SentOfEntry
  <1>5. HeldOfEntry' /\ SellsWhatWasBought'
    BY <1>1, <1>2 DEF HeldOfEntry, SellsWhatWasBought
  <1>6. OrderOfTask'
    BY <1>1, <1>2, BoughtAccounts DEF OrderOfTask, NoOrder
  <1> QED
    BY <1>3, <1>4, <1>5, <1>6 DEF OrderInv

\* Only a buy of the right accounts lands, so that its entry is right.
LEMMA OrderLands ==
    ASSUME OrderInv, TaskShape, BuyLands
    PROVE  OrderInv'
  <1>1. /\ task.pc = "sent"
        /\ order.accounts = BuyAccounts(Me, mint.token_program, select_fee_recipient(mint))
        /\ UNCHANGED <<mint, migrated, prefetch, order>>
        /\ task' = [pc |-> "held", wrapper |-> task.wrapper, data |-> task.data,
                    prefetched |-> task.prefetched, bc_state |-> task.bc_state,
                    sell_snapshot |-> task.sell_snapshot, route |-> task.route]
    BY DEF BuyLands, TaskShape
  <1> DEFINE kept == task.sell_snapshot
  <1>2. /\ order.accounts[3] = <<"bonding_curve">>
        /\ order.accounts[4] = Ata("bonding_curve", mint.token_program)
        /\ order.accounts[5] = Ata(Me, mint.token_program)
    BY <1>1, BuyAccountsSlots
  <1>3. kept.token_program = mint.token_program
    <2>1. Ata(Me, kept.token_program) = Ata(Me, mint.token_program)
      BY <1>1, <1>2 DEF OrderInv, SentOfEntry
    <2> QED
      BY <2>1 DEF Ata
  <1>4. ASSUME task.route # "native"
        PROVE  /\ kept.mirror_accounts[3] = <<"bonding_curve">>
               /\ kept.mirror_accounts[4] = Ata("bonding_curve", mint.token_program)
    <2>1. /\ <<"bonding_curve">> \in {kept.mirror_accounts[3], UserVolume(Me)}
          /\ Ata("bonding_curve", mint.token_program)
                \in {kept.mirror_accounts[4], UserVolume(Me)}
      BY <1>1, <1>2, <1>4 DEF OrderInv, SentOfEntry, CurveSlots
    <2>2. /\ <<"bonding_curve">> # UserVolume(Me)
          /\ Ata("bonding_curve", mint.token_program) # UserVolume(Me)
      BY DEF UserVolume, Ata
    <2> QED
      BY <2>1, <2>2
  <1>5. KeptOK' /\ SentOfEntry' /\ OrderOfTask'
    BY <1>1 DEF OrderInv, KeptOK, Kept, SentOfEntry, OrderOfTask
  <1>6. HeldOfEntry'
    BY <1>1, <1>3, <1>4 DEF HeldOfEntry
  <1>7. SellsWhatWasBought'
    BY <1>1 DEF OrderInv, SentOfEntry, SellsWhatWasBought
  <1> QED
    BY <1>5, <1>6, <1>7 DEF OrderInv

\* A sale names what the entry says, which is right.
LEMMA OrderSells ==
    ASSUME OrderInv, CopiesOfCurve, NEW amount \in Holdings,
           BuildStandardSale(amount) \/ BuildMirroredSale(amount)
    PROVE  OrderInv'
  <1>1. task.pc = "held" /\ UNCHANGED <<mint, migrated, prefetch, task>>
    BY DEF BuildStandardSale, BuildMirroredSale
  <1> DEFINE kept == task.sell_snapshot
  <1>2. /\ kept # None /\ Kept(kept)
        /\ kept.token_program = mint.token_program
        /\ task.route # "native" =>
              /\ kept.mirror_accounts[3] = <<"bonding_curve">>
              /\ kept.mirror_accounts[4] = Ata("bonding_curve", mint.token_program)
    BY <1>1 DEF OrderInv, OrderOfTask, HeldOfEntry, KeptOK
  <1>3. mint.is_cashback \in BOOLEAN
    BY OrdersAssumption DEF CopiesOfCurve
  <1>4. order'.side = "sell" /\ SellsWhatWasBought'
    <2>1. CASE BuildStandardSale(amount)
      <3>1. order' = StandardSale(amount)
        BY <2>1 DEF BuildStandardSale
      <3>2. order'.side = "sell" /\ order'.accounts = StandardSellAccounts(Me, mint)
        BY <3>1 DEF StandardSale
      <3>3. /\ StandardSellAccounts(Me, mint)[2] = <<"mint">>
            /\ StandardSellAccounts(Me, mint)[5] = Ata(Me, mint.token_program)
        BY <1>3, SellAccountsSlots DEF StandardSellAccounts
      <3> QED
        BY <1>1, <3>2, <3>3 DEF SellsWhatWasBought
    <2>2. CASE BuildMirroredSale(amount)
      <3>1. resolve_sell_snapshot = kept
        BY <1>2 DEF resolve_sell_snapshot
      <3>2. \E c : order' = MirroredSale(amount, c)
        BY <2>2 DEF BuildMirroredSale
      <3>3. /\ order'.side = "sell"
            /\ order'.accounts = SellAccounts(kept.mirror_accounts[2], kept.mirror_accounts[3],
                  kept.mirror_accounts[4], Me, kept.token_program, mint.is_cashback)
        BY <3>1, <3>2 DEF MirroredSale
      <3>4. kept.mirror_accounts # NoAccounts
        BY <2>2, <3>1 DEF BuildMirroredSale
      <3>5. kept.mirror_accounts[2] = <<"mint">>
        BY <1>2, <3>4 DEF Kept, KeptTypes
      <3>6. order'.accounts[2] = <<"mint">> /\ order'.accounts[5] = Ata(Me, mint.token_program)
        BY <1>2, <1>3, <3>3, <3>5, SellAccountsSlots
      <3>7. task.route # "native" => order'.accounts = StandardSellAccounts(Me, mint)
        BY <1>2, <3>3, <3>5 DEF StandardSellAccounts
      <3> QED
        BY <1>1, <3>3, <3>6, <3>7 DEF SellsWhatWasBought
    <2> QED
      BY <2>1, <2>2
  <1>5. KeptOK' /\ SentOfEntry' /\ HeldOfEntry'
    BY <1>1 DEF OrderInv, KeptOK, Kept, SentOfEntry, HeldOfEntry
  <1>6. OrderOfTask'
    BY <1>1, <1>4 DEF OrderInv, OrderOfTask, NoOrder
  <1> QED
    BY <1>4, <1>5, <1>6 DEF OrderInv

LEMMA OrderNext == OrderInv /\ CopiesOfCurve /\ [Next]_vars => OrderInv'
  <1> SUFFICES ASSUME OrderInv, CopiesOfCurve, [Next]_vars
               PROVE  OrderInv'
    OBVIOUS
  <1>0. /\ Kept(prefetch) /\ Kept(task.prefetched) /\ Kept(task.sell_snapshot) /\ Kept(None)
        /\ migrated \in BOOLEAN /\ task.wrapper \in BOOLEAN
        /\ task.data \in {"none", "buy", "exact_in", "other"}
        /\ TaskShape
    BY DEF OrderInv, KeptOK, CopiesOfCurve, Kept
  <1>1. ASSUME NEW trade \in DetectedTrades, SeeTrade(trade)
        PROVE  OrderInv'
    <2>1. UNCHANGED <<mint, migrated, task, order>>
      BY <1>1 DEF SeeTrade
    <2> QED
      BY <1>0, <1>1, <2>1, PrefetchKept, OrderKeptByCaches
  <1>2. ASSUME NEW trade \in DetectedTrades, SeeTradeAndBuy(trade) \/ Trigger(trade)
        PROVE  OrderInv'
    <2>1. /\ UNCHANGED <<mint, migrated, order>>
          /\ task.pc = "idle"
          /\ task' = [pc |-> "prefetch", wrapper |-> trade.wrapper, data |-> trade.target_data,
                      prefetched |-> None, bc_state |-> None, sell_snapshot |-> None,
                      route |-> "none"]
      BY <1>2 DEF SeeTradeAndBuy, Trigger, Spawned, Idle
    <2>2. Kept(prefetch')
      BY <1>0, <1>2, PrefetchKept
    <2> QED
      BY <1>0, <2>1, <2>2, TradeTypes, OrderKeptBefore
  <1>3. CASE CurveMoves \/ Migrate \/ CurveCached \/ ForgetMint
    <2>1. UNCHANGED <<mint, task, order>> /\ migrated' \in BOOLEAN /\ prefetch' \in {prefetch, None}
      BY <1>0, <1>3 DEF CurveMoves, Migrate, CurveCached, ForgetMint
    <2> QED
      BY <1>0, <2>1, OrderKeptByCaches
  <1>4. CASE ReadPrefetch \/ ReadCurve \/ SyncFetch \/ NoSyncFetch
    <2>1. /\ UNCHANGED <<mint, migrated, prefetch, order>>
          /\ task.pc \in {"prefetch", "curve", "fetch"}
      BY <1>4 DEF ReadPrefetch, ReadCurve, SyncFetch, NoSyncFetch
    <2>2. /\ task'.pc \in {"curve", "fetch", "build"}
          /\ task'.prefetched \in {prefetch, task.prefetched}
          /\ task'.sell_snapshot = task.sell_snapshot
          /\ task'.wrapper = task.wrapper /\ task'.data = task.data
      BY <1>0, <1>4 DEF ReadPrefetch, ReadCurve, SyncFetch, NoSyncFetch, TaskShape
    <2> QED
      BY <1>0, <2>1, <2>2, OrderKeptBefore
  <1>5. CASE BuildBuy
    BY <1>5, OrderBuilt
  <1>6. CASE SkipBuy
    <2>1. task.pc = "build" /\ task' = Idle /\ UNCHANGED <<mint, migrated, prefetch, order>>
      BY <1>6 DEF SkipBuy
    <2>2. order = NoOrder
      BY <2>1 DEF OrderInv, OrderOfTask
    <2> QED
      BY <2>1, <2>2, OrderEnds
  <1>7. CASE BuyLands
    BY <1>0, <1>7, OrderLands
  <1>8. CASE BuyFails \/ PositionEnds
    BY <1>8, OrderEnds DEF BuyFails, PositionEnds
  <1>9. ASSUME NEW amount \in Holdings, BuildStandardSale(amount) \/ BuildMirroredSale(amount)
        PROVE  OrderInv'
    BY <1>9, OrderSells
  <1>10. CASE UNCHANGED vars
    BY <1>0, <1>10, OrderKeptByCaches DEF vars
  <1> QED
    BY <1>1, <1>2, <1>3, <1>4, <1>5, <1>6, <1>7, <1>8, <1>9, <1>10 DEF Next

\* The invariant of the entries, tasks and orders.
LEMMA OrdersInvariant == Spec => []OrderInv
  BY OrderInit, OrderNext, OrdersCopies, PTL DEF Spec

\* The variables have their types: the lists that are kept are complete, or
\* empty, and a task with an order has the entry it was made of.
THEOREM OrdersTypeOK == Spec => []TypeOK
  <1>1. OrderInv /\ CopiesOfCurve => TypeOK
    BY DEF OrderInv, KeptOK, Kept, KeptTypes, OrderOfTask, CopiesOfCurve, TypeOK
  <1> QED
    BY <1>1, OrdersInvariant, OrdersCopies, PTL

\* A position sells what its buy bought, from the account that holds it,
\* whatever later trades, clean-ups and failed copies did to the prefetch cache
\* (resolve_sell_snapshot, build_sell_instruction_from_mirror), in every mode.
THEOREM OrdersSellsWhatWasBought == Spec => []SellsWhatWasBought
  <1>1. OrderInv => SellsWhatWasBought
    BY DEF OrderInv
  <1> QED
    BY <1>1, OrdersInvariant, PTL

-----------------------------------------------------------------------------
(* The token program of a position.                                        *)

\* A position is held, and sold from, under the token program of its mint.
PositionNamesMint ==
    /\ task.pc = "held" => task.sell_snapshot.token_program = mint.token_program
    /\ order.side = "sell" => order.program = mint.token_program

\* The sales name what the position does.
LEMMA SaleNamesMint ==
    ASSUME OrderInv, CopiesOfCurve, PositionNamesMint, [Next]_vars
    PROVE  order'.side = "sell" => order'.program = mint'.token_program
  <1>1. CASE BuildBuy
    <2>1. order'.side = "buy"
      BY <1>1 DEF BuildBuy, BuyOrder
    <2> QED
      BY <2>1
  <1>2. ASSUME NEW amount \in Holdings,
               BuildStandardSale(amount) \/ BuildMirroredSale(amount)
        PROVE  order'.program = mint'.token_program
    <2>1. task.pc = "held" /\ mint' = mint
      BY <1>2 DEF BuildStandardSale, BuildMirroredSale
    <2>2. CASE BuildStandardSale(amount)
      BY <2>1, <2>2 DEF BuildStandardSale, StandardSale
    <2>3. CASE BuildMirroredSale(amount)
      <3>1. \E c : order' = MirroredSale(amount, c)
        BY <2>3 DEF BuildMirroredSale
      <3>2. resolve_sell_snapshot = task.sell_snapshot
        BY <2>1 DEF OrderInv, OrderOfTask, resolve_sell_snapshot
      <3>3. order'.program = task.sell_snapshot.token_program
        BY <3>1, <3>2 DEF MirroredSale
      <3> QED
        BY <2>1, <3>3 DEF PositionNamesMint
    <2> QED
      BY <1>2, <2>2, <2>3
  <1>3. CASE order' = NoOrder
    BY <1>3 DEF NoOrder
  <1>4. CASE UNCHANGED <<order, mint>>
    BY <1>4 DEF PositionNamesMint
  <1> QED
    BY <1>1, <1>2, <1>3, <1>4, OrderSteps

\* A target's sale, or a transaction that is not executed yet or that fails,
\* may leave an entry of any token program in the prefetch cache (see the run
\* Orders_sell_program), and a buy of that program may be sent.  It never
\* becomes a position: whatever groups buy on and whatever slot 8 holds, a
\* position is held and sold under the mint's own program
\* (extract_token_program, replace_user_pdas, resolve_sell_snapshot).
THEOREM OrdersPositionNamesMint == Spec => []PositionNamesMint
  <1>1. Init => PositionNamesMint
    BY DEF Init, Idle, NoOrder, PositionNamesMint
  <1>2. /\ OrderInv /\ OrderInv' /\ CopiesOfCurve /\ PositionNamesMint /\ [Next]_vars
        => PositionNamesMint'
    BY SaleNamesMint DEF OrderInv, HeldOfEntry, PositionNamesMint
  <1> QED
    BY <1>1, <1>2, OrdersInvariant, OrdersCopies, PTL DEF Spec

=============================================================================
