------------------------------ MODULE Regimes -------------------------------
(***************************************************************************)
(* The two market makers with a formula for each side of their balance, in *)
(* crates/sizing-core/src/curves: Pmm (pmm.rs) and DodoPmm (dodo_pmm.rs).  *)
(*                                                                         *)
(* A pool is a record with reserves <<base, quote>> and an oracle price;   *)
(* Pmm has 1 / K for its curvature k, DodoPmm its targets and k in units   *)
(* of 1 / One.  Amounts are on a grid, and a division loses up to a unit.  *)
(***************************************************************************)
EXTENDS Integers, Sequences

CONSTANT One

Greater(a, b) == IF a > b THEN a ELSE b
Lesser(a, b) == IF a < b THEN a ELSE b

SquareRoot(v) == CHOOSE s \in 0 .. v : s * s <= v /\ v < (s + 1) * (s + 1)

Unfillable == -1

-----------------------------------------------------------------------------
(* Pmm.                                                                    *)

TargetBaseReserve(pool) == pool.reserves[2] \div pool.price
CrossoverDelta(pool) == Greater(TargetBaseReserve(pool) - pool.reserves[1], 0)

(* The price rises towards a pole, where dividing by what is left fails ... *)
ReverseSellBase(pool, x) ==
    IF x * pool.price >= pool.K THEN Unfillable
    ELSE (x * pool.price * pool.K) \div (pool.K - x * pool.price)

(* ... and falls beyond the balance. *)
BasicSellBase(pool, x) == (x * pool.price * pool.K) \div (pool.K + x * pool.price)

(* quote: the part that restores the balance is priced the first way, the rest *)
(* the second way, and the pool pays no more than it has.                      *)
PmmQuote(pool, x) ==
    LET reverse == Lesser(x, CrossoverDelta(pool))
        restored == ReverseSellBase(pool, reverse) IN
    IF restored = Unfillable THEN Unfillable
    ELSE Lesser(restored + BasicSellBase(pool, x - reverse), pool.reserves[2])

(* The pole, and what search_upper_bound stays below. *)
Pole(pool) == pool.K \div pool.price
PoleMargin(pool) == (Pole(pool) * 999) \div 1000

-----------------------------------------------------------------------------
(* DodoPmm.                                                                *)

(* query_sell_base and query_sell_quote, which mirror each other: x is sold to *)
(* a pool with reserve own and target own0 of what is sold, other and other0   *)
(* of what is bought; Worth(s) is what s is worth in the latter.  Where own is *)
(* short of its target, its shortage has the higher price; where it exceeds    *)
(* the target, what the pool is short of solves a quadratic equation.          *)
Sell(own, own0, other, other0, k, Worth(_), x) ==
    LET after == own + x
        premium(s) == Worth((s * (One + (k * s) \div own0)) \div One)
        paid(e) ==
            ((SquareRoot(other0 * other0 + 4 * other0 * ((k * Worth(e)) \div One)) - other0) * One)
            \div (2 * k)
        out == IF after <= own0 THEN premium(own0 - own) - premium(own0 - after)
               ELSE IF own >= own0 THEN other - (other0 - paid(after - own0))
               ELSE premium(own0 - own) + paid(after - own0) IN
    Greater(out, 0)

SellBase(pool, x) ==
    Sell(pool.reserves[1], pool.targets[1], pool.reserves[2], pool.targets[2], pool.k,
         LAMBDA s : s * pool.price, x)

(* Mutant: what is sold is valued the wrong way round. *)
SellQuoteAsBase(pool, x) ==
    Sell(pool.reserves[2], pool.targets[2], pool.reserves[1], pool.targets[1], pool.k,
         LAMBDA s : s * pool.price, x)

SellQuote(pool, x) ==
    Sell(pool.reserves[2], pool.targets[2], pool.reserves[1], pool.targets[1], pool.k,
         LAMBDA s : s \div pool.price, x)

DodoQuote(pool, x) ==
    LET effective == (x * pool.fee) \div One IN
    IF pool.input = 1 THEN SellBase(pool, effective) ELSE SellQuote(pool, effective)

=============================================================================
