-------------------------- MODULE PoolConstructors --------------------------
(***************************************************************************)
(* What the constructors of the curves in crates/sizing-core/src/curves    *)
(* accept.  Each is a predicate on the arguments of `new`: FALSE is        *)
(* Err(InvalidReserves).  Numbers are counted in hundredths, so that One   *)
(* stands for Decimal::ONE; a reserve is a number, and an index counts     *)
(* from zero as in the code.                                               *)
(***************************************************************************)
EXTENDS Integers, Sequences, FiniteSets, Functions

One == 100

AllPositive(amounts) == \A k \in DOMAIN amounts : amounts[k] > 0

(* reserves[index] with the index of the code. *)
At(reserves, index) == reserves[index + 1]
Has(reserves, index) == index \in 0 .. Len(reserves) - 1

FeeAccepted(fee) == 0 < fee /\ fee <= One

CpmmAccepted(x, y, fee) == x > 0 /\ y > 0 /\ FeeAccepted(fee)

StableSwapAccepted(reserves, amplification, fee) ==
    /\ Len(reserves) >= 2
    /\ AllPositive(reserves)
    /\ amplification >= One
    /\ FeeAccepted(fee)

PmmAccepted(base, quote, oracle, k) == base > 0 /\ quote > 0 /\ oracle > 0 /\ k > 0

DodoAccepted(targets, reserves, oracle, k, fee) ==
    /\ AllPositive(targets) /\ AllPositive(reserves)
    /\ oracle > 0
    /\ 0 < k /\ k <= One
    /\ FeeAccepted(fee)

CryptoSwapAccepted(balances, amplification, gamma, fee, input) ==
    /\ AllPositive(balances)
    /\ amplification > 0 /\ gamma > 0
    /\ FeeAccepted(fee)
    /\ input <= 1

(* What is checked before the weights are added up. *)
BalancerShaped(reserves, weights, input, output) ==
    /\ Len(reserves) >= 2 /\ Len(reserves) = Len(weights)
    /\ Has(reserves, input) /\ Has(reserves, output) /\ input # output
    /\ AllPositive(reserves)

(* The sum grows beyond the largest Decimal before a weight is refused: the *)
(* operator panics.                                                         *)
BalancerOverflows(reserves, weights, input, output, largest) ==
    /\ BalancerShaped(reserves, weights, input, output)
    /\ \E k \in DOMAIN weights :
          LET added == SubSeq(weights, 1, k) IN
          AllPositive(added) /\ FoldFunction(+, 0, added) > largest

(* Weights may miss a sum of one by a hundredth. *)
BalancerAccepted(reserves, weights, fee, input, output) ==
    /\ BalancerShaped(reserves, weights, input, output)
    /\ AllPositive(weights)
    /\ FoldFunction(+, 0, weights) \in One - 1 .. One + 1
    /\ FeeAccepted(fee)

RangeAccepted(liquidity, lower, upper, current, fee) ==
    /\ liquidity > 0
    /\ 0 < lower /\ lower < upper
    /\ lower <= current /\ current <= upper
    /\ FeeAccepted(fee)

=============================================================================
