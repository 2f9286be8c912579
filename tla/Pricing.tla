------------------------------ MODULE Pricing -------------------------------
(***************************************************************************)
(* What a request costs (obolus/src/pricing.rs).  Amounts are u128 in the  *)
(* code and range over 0 .. MaxAmount here, so that the arithmetic that    *)
(* saturates or is checked meets its limit on a small instance.            *)
(***************************************************************************)
EXTENDS Integers

CONSTANTS
    MaxAmount,      \* u128::MAX, the amount no client can pay
    Whole,          \* BPS_PER_WHOLE
    PerRate,        \* TOKENS_PER_RATE
    BytesPerToken   \* BYTES_PER_INPUT_TOKEN

ASSUME UnitsAssumption ==
    /\ MaxAmount \in Nat \ {0}
    /\ Whole \in Nat \ {0}
    /\ PerRate \in Nat \ {0}
    /\ BytesPerToken \in Nat \ {0}

Amounts == 0 .. MaxAmount

Saturate(n) == IF n > MaxAmount THEN MaxAmount ELSE n

CeilDiv(a, b) == (a + b - 1) \div b
-----------------------------------------------------------------------------
\* Mutant: the margin is taken off before the cost is multiplied by it.
CostPlusFloored(cost, margin) == Saturate(cost + Saturate((cost \div Whole) * margin))

\* CostPlus::quote for a backend that declares a cost: only the markup floors.
CostPlus(cost, margin) == Saturate(cost + Saturate(cost * margin) \div Whole)

EstimatedInputTokens(bytes) == CeilDiv(bytes, BytesPerToken)

\* Exactly the atomic units times PerRate that the tokens come to.
TokenCost(input_tokens, max_tokens, rate) ==
    input_tokens * rate.input + max_tokens * rate.output

\* Mutant: a fraction of an atomic unit is given away.
TokenPriceFloored(bytes, max_tokens, rate) ==
    LET units == TokenCost(EstimatedInputTokens(bytes), max_tokens, rate)
    IN  IF units > MaxAmount \/ units \div PerRate = 0
        THEN MaxAmount ELSE units \div PerRate

\* TokenPrice::quote for a rated model and a limit.  The three checked steps of
\* token_quote overflow exactly when their total does, all terms being unsigned.
TokenPrice(bytes, max_tokens, rate) ==
    LET units == TokenCost(EstimatedInputTokens(bytes), max_tokens, rate)
    IN  IF units > MaxAmount \/ CeilDiv(units, PerRate) = 0
        THEN MaxAmount ELSE CeilDiv(units, PerRate)

\* Mutant: the last instant of the window is inside it.
InClosedWindow(promo, now) == promo.start <= now /\ now <= promo.end

InWindow(promo, now) == promo.start <= now /\ now < promo.end

\* Mutant: a discount that floors to nothing is left at nothing.
UnclampedDiscount(base, discount) == Saturate(base * (Whole - discount)) \div Whole

\* Mutant: the discount is what is left to pay.
DiscountKept(base, discount) ==
    LET floored == Saturate(base * discount) \div Whole
    IN  IF base > 0 /\ floored = 0 THEN 1 ELSE floored

\* Promotional::quote inside the window; saturating_sub is exact below Whole,
\* and the configuration admits no other discount.
Discounted(base, discount) ==
    LET floored == Saturate(base * (Whole - discount)) \div Whole
    IN  IF base > 0 /\ floored = 0 THEN 1 ELSE floored
=============================================================================
