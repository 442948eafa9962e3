------------------------------ MODULE Portfolio -----------------------------
(***************************************************************************)
(* PortfolioSizer of crates/sizing-portfolio/src/lib.rs: capital shared    *)
(* among opportunities by bisection on a shadow price lambda.  Every       *)
(* opportunity is sized alone against its reference price plus lambda; the *)
(* search moves lambda until the sizes add up to the budget, and scales    *)
(* them down if they still exceed it.                                      *)
(*                                                                         *)
(* Sizes, prices and values are integers, the smallest amounts a Decimal   *)
(* tells apart.  The middle of a bracket is rounded, as a Decimal is.  A   *)
(* pool is its output function over sizes; its optimal_size is taken to be *)
(* exact, which is what the modules of the curves are about.               *)
(***************************************************************************)
EXTENDS Integers, FiniteSets, Functions, Powers

CONSTANTS
    Opps,            (* the opportunities of the caller *)
    Curves,          (* what an opportunity may be: pool, price, constraints *)
    Budgets,         (* the values of total_capital_budget *)
    FirstLambda,     (* the first upper end of the bracket: 0.10 *)
    MaxDoublings,    (* 16 in the code *)
    MaxBisections,   (* 48 in the code *)
    Rounding,        (* twice what the middle of a bracket may be rounded by *)
    InverseTolerance,(* 1 / tolerance: 10_000 in the code *)
    Unit             (* the integer that stands for the Decimal 1 in a ratio *)

(* A curve is [out, price, fixed]: out[x] is the post-fee output for input x, *)
(* defined up to max_size, and fixed the fixed cost.  Nothing is paid for     *)
(* nothing.                                                                   *)
IsCurve(c) ==
    /\ IsFiniteSet(DOMAIN c.out) /\ DOMAIN c.out \subseteq Nat
    /\ c.out \in [DOMAIN c.out -> Nat]
    /\ 0 \in DOMAIN c.out /\ c.out[0] = 0
    /\ c.price \in Nat /\ c.fixed \in Nat

(* In the steps of 10^-28 of a Decimal FirstLambda is 10^27.  No sum of two   *)
(* ends exceeds 13107.2, of which 96 bits keep 24 decimal digits: it and its  *)
(* half are off by half of 10^-24 each, so that Rounding is at most 15_000,   *)
(* and the narrowest bracket is still wider than what rounding moves.         *)
ASSUME PortfolioAssumption ==
    /\ IsFiniteSet(Opps) /\ \A c \in Curves : IsCurve(c)
    /\ Budgets \subseteq Nat \ {0}
    /\ FirstLambda \in Nat \ {0} /\ Rounding \in Nat \ {0}
    /\ FirstLambda >= Rounding * TwoTo[MaxBisections]
    /\ MaxDoublings \in Nat /\ MaxBisections \in Nat \ {0}
    /\ InverseTolerance \in Nat \ {0} /\ Unit \in Nat \ {0}

VARIABLES
    curve,      (* the opportunities passed to optimize *)
    budget,     (* self.total_capital_budget *)
    phase,      (* where optimize is *)
    lo, hi,     (* lo_lambda and hi_lambda *)
    rounds,     (* iterations of the loop that is running *)
    closed,     (* history: some lambda = hi was seen to fit the budget *)
    best,       (* best_lambda and best_positions *)
    result      (* the PortfolioResult, once there is one *)

input == <<curve, budget>>
vars == <<input, phase, lo, hi, rounds, closed, best, result>>

Sizes(c) == DOMAIN c.out

(* Profit of size x, gross of the fixed cost, at a price per unit of input. *)
Gross(c, x, price) == c.out[x] - price * x

(* SizingAlgorithm::optimal_size: the best size if it clears the fixed cost, *)
(* an error, which the caller turns into an empty position, otherwise.       *)
Position(size, profit) == [size |-> size, profit |-> profit]

(* Mutant: the fixed cost is forgotten. *)
OptimalSizeGross(c, price) ==
    LET x == CHOOSE x \in Sizes(c) : \A y \in Sizes(c) :
                 \/ Gross(c, x, price) > Gross(c, y, price)
                 \/ Gross(c, x, price) = Gross(c, y, price) /\ x <= y
    IN Position(x, Gross(c, x, price))

OptimalSize(c, price) ==
    LET x == CHOOSE x \in Sizes(c) : \A y \in Sizes(c) :
                 \/ Gross(c, x, price) > Gross(c, y, price)
                 \/ Gross(c, x, price) = Gross(c, y, price) /\ x <= y
        profit == Gross(c, x, price) - c.fixed
    IN IF x > 0 /\ profit > 0 THEN Position(x, profit) ELSE Position(0, 0)

EvaluateLambda(lambda) ==
    [o \in DOMAIN curve |-> OptimalSize(curve[o], curve[o].price + lambda)]

TotalSize(ps) == SumFunction([o \in DOMAIN ps |-> ps[o].size])
TotalProfit(ps) == SumFunction([o \in DOMAIN ps |-> ps[o].profit])

Capital(lambda) == TotalSize(EvaluateLambda(lambda))

Fits(lambda) == Capital(lambda) <= budget

Outcome(lambda, ps) ==
    [capital |-> TotalSize(ps), profit |-> TotalProfit(ps), shadow |-> lambda, positions |-> ps]

NoResult == [shadow |-> -1]

NoPosition == [o \in {} |-> Position(0, 0)]

Init ==
    /\ \E os \in SUBSET Opps : curve \in [os -> Curves]
    /\ budget \in Budgets
    /\ phase = "start"
    /\ lo = 0 /\ hi = FirstLambda
    /\ rounds = 0
    /\ closed = FALSE
    /\ best = [lambda |-> FirstLambda, positions |-> NoPosition]
    /\ result = NoResult

(* Without opportunities, or if the sizes at lambda = 0 fit, that is all. *)
Unconstrained ==
    /\ phase = "start"
    /\ IF Fits(0)
       THEN /\ phase' = "done"
            /\ result' = Outcome(0, EvaluateLambda(0))
       ELSE phase' = "bracket" /\ UNCHANGED result
    /\ UNCHANGED <<input, lo, hi, rounds, closed, best>>

(* Mutant: the bracket grows by its first width instead of doubling. *)
BracketAdding ==
    /\ phase = "bracket"
    /\ IF rounds < MaxDoublings /\ ~Fits(hi)
       THEN /\ hi' = hi + FirstLambda
            /\ rounds' = rounds + 1
            /\ UNCHANGED <<phase, closed>>
       ELSE /\ phase' = "bisect"
            /\ closed' = (rounds < MaxDoublings)
            /\ rounds' = 0
            /\ UNCHANGED hi
    /\ UNCHANGED <<input, lo, best, result>>

(* One round of the loop that doubles hi_lambda; after the last one hi is *)
(* taken as it is, without another look.                                  *)
Bracket ==
    /\ phase = "bracket"
    /\ IF rounds < MaxDoublings /\ ~Fits(hi)
       THEN /\ hi' = 2 * hi
            /\ rounds' = rounds + 1
            /\ UNCHANGED <<phase, closed>>
       ELSE /\ phase' = "bisect"
            /\ closed' = (rounds < MaxDoublings)
            /\ rounds' = 0
            /\ UNCHANGED hi
    /\ UNCHANGED <<input, lo, best, result>>

Abs(n) == IF n < 0 THEN -n ELSE n

WithinTolerance(capital) == Abs(capital - budget) * InverseTolerance <= budget

(* (lo_lambda + hi_lambda) / 2: sum and quotient are rounded. *)
Middles == {m \in 0 .. hi + Rounding : Abs(2 * m - (lo + hi)) <= Rounding}

(* Mutant: the two ends are moved the wrong way round. *)
BisectSwapped ==
    /\ phase = "bisect"
    /\ \E mid \in Middles :
          /\ best' = [lambda |-> mid, positions |-> EvaluateLambda(mid)]
          /\ IF Fits(mid) THEN lo' = mid /\ UNCHANGED hi ELSE hi' = mid /\ UNCHANGED lo
    /\ rounds' = rounds + 1
    /\ phase' = IF rounds' = MaxBisections THEN "settle" ELSE "bisect"
    /\ UNCHANGED <<input, closed, result>>

(* One round of the bisection; what it evaluates last is what it keeps. *)
Bisect ==
    /\ phase = "bisect"
    /\ rounds' = rounds + 1
    /\ \E mid \in Middles :
          /\ best' = [lambda |-> mid, positions |-> EvaluateLambda(mid)]
          /\ phase' = IF WithinTolerance(Capital(mid)) \/ rounds' = MaxBisections
                      THEN "settle" ELSE "bisect"
          /\ IF WithinTolerance(Capital(mid)) THEN UNCHANGED <<lo, hi, closed>>
             ELSE IF ~Fits(mid) THEN lo' = mid /\ UNCHANGED <<hi, closed>>
             ELSE hi' = mid /\ closed' = TRUE /\ UNCHANGED lo
    /\ UNCHANGED <<input, result>>

(* A Decimal quotient or product, rounded to the nearest. *)
Nearest(n, d) == (2 * n + d) \div (2 * d)

(* Mutant: the ratio is the wrong way up. *)
ScaledUp(ps) ==
    LET scale == Nearest(TotalSize(ps) * Unit, budget) IN
    [o \in DOMAIN ps |-> [ps[o] EXCEPT !.size = Nearest(@ * scale, Unit)]]

(* Mutant: positions that got nothing are dropped. *)
ScaledWithoutEmpty(ps) ==
    LET scale == Nearest(budget * Unit, TotalSize(ps)) IN
    [o \in {q \in DOMAIN ps : ps[q].size > 0} |->
        [ps[o] EXCEPT !.size = Nearest(@ * scale, Unit)]]

(* allocated_size *= budget / best_capital; the profits are left alone. *)
ScaledDown(ps) ==
    LET scale == Nearest(budget * Unit, TotalSize(ps)) IN
    [o \in DOMAIN ps |-> [ps[o] EXCEPT !.size = Nearest(@ * scale, Unit)]]

Settle ==
    /\ phase = "settle"
    /\ phase' = "done"
    /\ result' = Outcome(best.lambda,
                     IF TotalSize(best.positions) > budget
                     THEN ScaledDown(best.positions) ELSE best.positions)
    /\ UNCHANGED <<input, lo, hi, rounds, closed, best>>

Finished == phase = "done" /\ UNCHANGED vars

Next == Unconstrained \/ Bracket \/ Bisect \/ Settle \/ Finished

(* optimize is sequential code without a wait: it runs to its end. *)
Spec == Init /\ [][Next]_vars /\ WF_vars(Next)

-----------------------------------------------------------------------------

TypeOK ==
    /\ budget \in Budgets
    /\ phase \in {"start", "bracket", "bisect", "settle", "done"}
    /\ lo \in Nat /\ hi \in Nat /\ best.lambda \in Nat
    /\ rounds \in 0 .. MaxDoublings \/ rounds \in 0 .. MaxBisections
    /\ closed \in BOOLEAN
    /\ phase = "done" => DOMAIN result.positions = DOMAIN curve

(* Throughout the bisection the sizes at lo exceed the budget and, as soon  *)
(* as any upper end has been seen to fit, those at hi do not: lambda's      *)
(* crossing stays between them, whatever the pools, fixed-cost cliffs       *)
(* included (lib.rs:150-185).                                               *)
BracketHolds ==
    phase \in {"bisect", "settle"} =>
        /\ lo <= hi
        /\ ~Fits(lo)
        /\ closed => Fits(hi)

(* Sizes that lambda chose are the best use of the capital they take: no    *)
(* other way to spread as much or less over the opportunities earns more,   *)
(* at the true reference prices and net of fixed costs (lib.rs:4-15,        *)
(* 84-116).                                                                 *)
NetProfit(c, x) == IF x = 0 THEN 0 ELSE Gross(c, x, c.price) - c.fixed

Earned(alloc) == SumFunction([o \in DOMAIN curve |-> NetProfit(curve[o], alloc[o])])

Allocations ==
    {a \in [DOMAIN curve -> UNION {Sizes(curve[o]) : o \in DOMAIN curve}] :
        \A o \in DOMAIN curve : a[o] \in Sizes(curve[o])}

AllocatedCapital(alloc) == SumFunction(alloc)

BestUseOfCapital ==
    phase = "settle" =>
        LET chosen == [o \in DOMAIN curve |-> best.positions[o].size] IN
        \A other \in Allocations :
            AllocatedCapital(other) <= AllocatedCapital(chosen) => Earned(other) <= Earned(chosen)

(* The capital of the result exceeds the budget at most by the rounding of  *)
(* one Decimal quotient and of one product per position, and no position is *)
(* larger than the pool's own optimum at the reference price, so neither is *)
(* a max_size exceeded (lib.rs:187-194, CHANGELOG.md:22).                   *)
BudgetUpToRounding ==
    phase = "done" =>
        LET n == Cardinality(DOMAIN curve) IN
        /\ 2 * Unit * result.capital
             <= 2 * Unit * budget + TotalSize(EvaluateLambda(0)) + n * Unit
        /\ \A o \in DOMAIN curve :
              result.positions[o].size <= OptimalSize(curve[o], curve[o].price).size

(* When the budget binds, the bisection ends at a capital within the        *)
(* tolerance of the budget, or with the shadow price at one end of a        *)
(* bracket 2^MaxBisections times narrower than the first one, give or take  *)
(* the rounding of one middle; lambda = 0 is reported exactly when the      *)
(* budget does not bind (lib.rs:136-148, 167-185).                          *)
ShadowPriceSettled ==
    phase = "done" =>
        /\ (result.shadow = 0) = Fits(0)
        /\ ~Fits(0) =>
              \/ WithinTolerance(Capital(result.shadow))
              \/ /\ result.shadow \in {lo, hi}
                 /\ \E k \in 0 .. MaxDoublings :
                       Abs((hi - lo) * TwoTo[MaxBisections] - FirstLambda * TwoTo[k])
                          < Rounding * TwoTo[MaxBisections]

=============================================================================
