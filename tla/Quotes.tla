------------------------------- MODULE Quotes -------------------------------
(***************************************************************************)
(* The arithmetic of an order (processor/pumpfun.rs): what the bonding     *)
(* curve gives for an amount, what an order may cost and what a sale must  *)
(* bring.  Reserves and amounts are u64.  A product of two of them is      *)
(* taken in u128 for a quote, which holds it, but in u64 for a slippage,   *)
(* where the release build wraps.                                          *)
(***************************************************************************)
EXTENDS Integers

CONSTANTS
    U64,              \* 2^64
    MAX_RAW_SUPPLY,   \* max_pump_raw_supply
    TARGET_V_SOL      \* 30 SOL, the reserve assumed when the curve is unknown

ASSUME QuotesAssumption ==
    /\ U64 \in Nat \ {0}
    /\ MAX_RAW_SUPPLY \in Nat \ {0}
    /\ TARGET_V_SOL \in Nat \ {0}

U64s == 0 .. U64 - 1

\* Without what is put in in the denominator.
SwapAtSpot(y, x, dx) == IF x = 0 THEN 0 ELSE (y * dx) \div x

\* What comes out of reserve y for dx put into reserve x.
Swap(y, x, dx) == IF x = 0 THEN 0 ELSE (y * dx) \div (x + dx)

sol_to_token_quote(curve, sol) ==
    Swap(curve.virtual_token_reserves, curve.virtual_sol_reserves, sol)

token_to_sol_quote(curve, tokens) ==
    Swap(curve.virtual_sol_reserves, curve.virtual_token_reserves, tokens)

\* amount * bps / 10_000 in u64.
Slippage(amount, bps) == ((amount * bps) % U64) \div 10000

max_sol_cost(sol, bps) == (sol + Slippage(sol, bps)) % U64

\* sell_standard subtracts as it is, the sell executor saturates.
min_sol_output(expected, bps) == (expected - Slippage(expected, bps)) % U64

min_sol_output_saturating(expected, bps) ==
    IF Slippage(expected, bps) <= expected
      THEN expected - Slippage(expected, bps) ELSE 0

\* validate_buy_amount.  real is the real reserve of a known curve, else 0.
ValidBuyAmount(tokens, real) ==
    /\ tokens # 0
    /\ tokens <= MAX_RAW_SUPPLY
    /\ real > 0 => tokens <= real

\* The quote derived from the instruction of the target, which gets
\* target_tokens for at most target_sol.  (The code takes the price in f64.)
target_quote(target_tokens, target_sol, sol) ==
    LET v_token == (TARGET_V_SOL * target_tokens) \div target_sol
        quote == (v_token * sol) \div (TARGET_V_SOL + sol)
    IN  IF quote < 1 THEN 1 ELSE quote

-----------------------------------------------------------------------------
\* The reference: t can be taken out of y for dx into x if the product of
\* the reserves does not fall.
Affordable(y, x, dx, t) == (x + dx) * (y - t) >= x * y

=============================================================================
