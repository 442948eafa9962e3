---------------------------- MODULE SlopeSearch ----------------------------
(***************************************************************************)
(* The curves whose optimal size is a root of the marginal profit: the     *)
(* closed forms of Cpmm and BalancerWeightedPool, the bisection_fallback   *)
(* of Cpmm, and StableSwap, which bisects on a slope that it estimates by  *)
(* a central difference over reserves[0] / 1000 to each side               *)
(* (crates/sizing-core/src/curves/cpmm.rs, balancer_weighted.rs,           *)
(* stableswap.rs).                                                         *)
(*                                                                         *)
(* Sizes are whole multiples of Decimal's smallest step: a middle that     *)
(* falls between two of them is rounded to either.  Curves are tables;     *)
(* the Newton iterations of StableSwap are its quote.                      *)
(***************************************************************************)
EXTENDS SizingMarket, Powers

CONSTANTS
    Steps,           (* StableSwap's step; 0 where reserves[0] is tiny *)
    One,             (* the size bisection_fallback starts from *)
    Resolution,      (* 1 / NEWTON_TOLERANCE *)
    PowerPrecision,  (* the roots that the rounding of checked_powd may lose *)
    MaxDoublings,    (* 10_000 and 255 *)
    MaxIterations    (* StableSwap's MAX_NEWTON_ITERATIONS, for both loops *)

ASSUME SlopeAssumption ==
    /\ Steps \subseteq Nat /\ One \in Nat \ {0}
    /\ Resolution \in Nat \ {0, 1}
    /\ PowerPrecision \in Nat
    /\ MaxDoublings \in Nat /\ MaxIterations \in Nat
    /\ \A m \in Markets : Len(m.legs) = 1

VARIABLES
    market, limit,     (* what is sized, and max_size *)
    searcher, step,
    phase,
    lo, hi,            (* the bracket *)
    doublings,         (* doubling_guard *)
    iterations,
    tried,             (* optimal_delta, once it is known *)
    outcome

query == <<market, limit, searcher, step>>
vars == <<query, phase, lo, hi, doublings, iterations, tried, outcome>>

Searchers == {"closed", "bisection", "stable"}

Smaller(x, y) == IF x <= y THEN x ELSE y
Clip(x) == IF limit = NoLimit THEN x ELSE Smaller(x, limit)

-----------------------------------------------------------------------------
(* The sign of the marginal profit.                                        *)

(* Whether one more unit pays. *)
UnitRises(x) ==
    /\ Feasible(market, x) /\ Feasible(market, x + 1)
    /\ Output(market, x + 1) - Output(market, x) > market.price

(* The ends of the central difference; it is one-sided near nothing. *)
Left(x) == IF x > step THEN x - step ELSE 0
Right(x) == x + step

Estimates == searcher = "stable" /\ step > 0

(* Whether the quotes that the slope needs can be had. *)
SlopeKnown(x) == Estimates => Feasible(market, Left(x)) /\ Feasible(market, Right(x))

(* Profit'(x) > 0, as the searcher sees it: a formula for Cpmm, an estimate *)
(* for StableSwap, and -reference_price over no width.                      *)
Rises(x) ==
    IF searcher # "stable" THEN UnitRises(x)
    ELSE Estimates /\ Output(market, Right(x)) - Output(market, Left(x)) > market.price * (Right(x) - Left(x))

(* The root of the marginal profit. *)
IsRoot(x) == ~UnitRises(x) /\ \A y \in 0 .. x - 1 : UnitRises(y)

(* The first upper end, and how far the search looks: to the last one, and *)
(* a step beyond it.                                                       *)
First == IF searcher = "stable" THEN step ELSE One

Longest == First * TwoTo[MaxDoublings + 1]

Init ==
    /\ market \in Markets /\ limit \in Limits \cup {NoLimit}
    /\ searcher \in Searchers /\ step \in Steps
    /\ searcher = "bisection" => \A x \in 0 .. Longest + 1 : Feasible(market, x)
    /\ searcher = "closed" => \E x \in 0 .. Longest : ~UnitRises(x)
    /\ phase = "probe"
    /\ lo = 0 /\ hi = 0 /\ doublings = 0 /\ iterations = 0
    /\ tried = 0
    /\ outcome = Pending

Finish(result) == phase' = "done" /\ outcome' = result

(* Newton's iterations fail or find a negative output; a power of Decimals  *)
(* cannot be computed.                                                      *)
QuoteErrors == {"InvalidReserves"} \cup (IF searcher = "stable" THEN {"DidNotConverge"} ELSE {})

QuoteFails == \E e \in QuoteErrors : Finish(Err(e))

-----------------------------------------------------------------------------

(* The checks of all three, and what the closed forms do next. *)
Probe ==
    /\ phase = "probe"
    /\ IF market.price = 0 THEN Finish(Err("InvalidReserves")) /\ UNCHANGED <<lo, hi>>
       ELSE IF ~SlopeKnown(0) THEN QuoteFails /\ UNCHANGED <<lo, hi>>
       ELSE IF ~Rises(0) THEN Finish(Err("NoArbitrageOpportunity")) /\ UNCHANGED <<lo, hi>>
       ELSE /\ UNCHANGED outcome
            /\ CASE searcher = "closed" ->
                        /\ phase' = "bisect"
                        /\ \E root \in 0 .. Longest : IsRoot(root) /\ lo' = root /\ hi' = root
                 [] searcher # "closed" -> phase' = "bracket" /\ hi' = First /\ UNCHANGED lo
    /\ UNCHANGED <<query, doublings, iterations, tried>>

(* sqrt or checked_powd gives None. *)
FormulaFails ==
    /\ phase = "probe" /\ searcher = "closed" /\ market.price > 0 /\ Rises(0)
    /\ Finish(Err("InvalidReserves"))
    /\ UNCHANGED <<query, lo, hi, doublings, iterations, tried>>

(* The first unit pays, but a power of a base so near 1 may come out as 1 or *)
(* less: BalancerWeightedPool then finds no arbitrage after all.             *)
RoundedAway == searcher = "closed" /\ \E root \in 1 .. PowerPrecision : IsRoot(root)

PowerRoundsAway ==
    /\ phase = "probe" /\ market.price > 0 /\ RoundedAway
    /\ Finish(Err("NoArbitrageOpportunity"))
    /\ UNCHANGED <<query, lo, hi, doublings, iterations, tried>>

Counted(n) == IF searcher = "stable" THEN n + 1 ELSE n

(* The upper end grows for as long as profit does. *)
Double ==
    /\ phase = "bracket" /\ SlopeKnown(hi) /\ Rises(hi)
    /\ hi' = 2 * hi /\ doublings' = doublings + 1 /\ iterations' = Counted(iterations)
    /\ IF doublings' > MaxDoublings
       THEN Finish(Err(IF searcher = "stable" THEN "DidNotConverge" ELSE "InvalidReserves"))
       ELSE UNCHANGED <<phase, outcome>>
    /\ UNCHANGED <<query, lo, tried>>

(* Mutant: hi has to be worth nothing at all before the bisection begins. *)
BracketedEarly ==
    /\ phase = "bracket" /\ SlopeKnown(hi)
    /\ phase' = "bisect"
    /\ UNCHANGED <<query, lo, hi, doublings, iterations, tried, outcome>>

Bracketed ==
    /\ phase = "bracket" /\ SlopeKnown(hi) /\ ~Rises(hi)
    /\ phase' = "bisect"
    /\ UNCHANGED <<query, lo, hi, doublings, iterations, tried, outcome>>

BracketFails ==
    /\ phase = "bracket" /\ ~SlopeKnown(hi)
    /\ QuoteFails
    /\ UNCHANGED <<query, lo, hi, doublings, iterations, tried>>

(* Mutant: the tolerance is taken as absolute. *)
WideByResolution == hi - lo > Resolution

(* hi - lo > NEWTON_TOLERANCE * hi *)
Wide == Resolution * (hi - lo) > hi

Middles == {(lo + hi) \div 2, (lo + hi + 1) \div 2}

(* Mutant: the iterations of StableSwap are not counted. *)
BisectUncounted ==
    /\ phase = "bisect" /\ Wide
    /\ \E mid \in Middles :
          IF ~SlopeKnown(mid) THEN QuoteFails /\ UNCHANGED <<lo, hi>>
          ELSE /\ IF Rises(mid) THEN lo' = mid /\ hi' = hi ELSE hi' = mid /\ lo' = lo
               /\ UNCHANGED <<phase, outcome>>
    /\ UNCHANGED <<query, doublings, iterations, tried>>

(* Half of the bracket is dropped; StableSwap counts first. *)
Bisect ==
    /\ phase = "bisect" /\ Wide
    /\ iterations' = Counted(iterations)
    /\ IF iterations' > MaxIterations /\ searcher = "stable"
       THEN Finish(Err("DidNotConverge")) /\ UNCHANGED <<lo, hi>>
       ELSE \E mid \in Middles :
               IF ~SlopeKnown(mid) THEN QuoteFails /\ UNCHANGED <<lo, hi>>
               ELSE /\ IF Rises(mid) THEN lo' = mid /\ hi' = hi ELSE hi' = mid /\ lo' = lo
                    /\ UNCHANGED <<phase, outcome>>
    /\ UNCHANGED <<query, doublings, tried>>

(* Mutant: the profit is that of the size before max_size. *)
AnswerUnclipped ==
    /\ phase = "bisect" /\ ~Wide
    /\ tried' \in Middles
    /\ IF NetProfit(market, tried') <= 0 THEN Finish(Err("NoProfitableSize"))
       ELSE Finish(Ok(Clip(tried'), NetProfit(market, tried')))
    /\ UNCHANGED <<query, lo, hi, doublings, iterations>>

(* max_size, the quote of what it leaves, and the fixed cost. *)
Answer ==
    /\ phase = "bisect" /\ ~Wide
    /\ tried' \in {Clip(mid) : mid \in Middles}
    /\ IF tried' = 0 THEN Finish(Err("NoProfitableSize"))
       ELSE IF ~Feasible(market, tried') THEN QuoteFails
       ELSE IF NetProfit(market, tried') <= 0 THEN Finish(Err("NoProfitableSize"))
       ELSE Finish(Ok(tried', NetProfit(market, tried')))
    /\ UNCHANGED <<query, lo, hi, doublings, iterations>>

Search ==
    \/ Probe \/ FormulaFails \/ PowerRoundsAway
    \/ Double \/ Bracketed \/ BracketFails \/ Bisect \/ Answer

Done == phase = "done" /\ UNCHANGED vars

Next == Search \/ Done

(* The searches are sequential: they run until they return. *)
Spec == Init /\ [][Next]_vars /\ WF_vars(Search)

-----------------------------------------------------------------------------

TypeOK ==
    /\ limit \in Limits \cup {NoLimit}
    /\ searcher \in Searchers /\ step \in Steps
    /\ phase \in {"probe", "bracket", "bisect", "done"}
    /\ lo \in Nat /\ hi \in Nat /\ tried \in Nat
    /\ doublings \in 0 .. MaxDoublings + 1 /\ iterations \in Nat

(* Whatever the curve does between them, profit rises at the lower end and  *)
(* not at the upper end of the bracket, so that a size where it stops       *)
(* rising is never lost, although neither end is evaluated again            *)
(* (cpmm.rs:92-119, stableswap.rs:363-393).                                 *)
BracketHolds ==
    (phase \in {"bracket", "bisect"} /\ searcher # "closed") =>
        /\ lo <= hi /\ SlopeKnown(lo) /\ Rises(lo)
        /\ phase = "bisect" => SlopeKnown(hi) /\ ~Rises(hi)

(* Slopes that never increase, as whitepaper.md 5.1 and 5.2 have them, and *)
(* no size below the largest that cannot be filled.                         *)
Concave ==
    \A x \in 0 .. Longest - 1 :
        Feasible(market, x + 2) =>
            /\ Feasible(market, x) /\ Feasible(market, x + 1)
            /\ Output(market, x + 2) - Output(market, x + 1)
                  <= Output(market, x + 1) - Output(market, x)

(* Only the central difference blurs the root. *)
Blur == IF searcher = "stable" THEN step ELSE 0

(* On a concave curve the size tried is the best one within max_size up to  *)
(* the tolerance, and for StableSwap up to the step of its differences:     *)
(* the closed form and the bisection agree within 1e-4, which               *)
(* tests/cpmm_proptest.rs:34 samples (cpmm.rs:111-122,                      *)
(* stableswap.rs:379-398).                                                  *)
NearRoot ==
    (phase = "done" /\ tried # 0 /\ Concave) =>
        \A root \in 0 .. Longest : IsRoot(root) =>
            /\ Resolution * (Clip(root) - tried - Blur) <= hi
            /\ Resolution * (tried - Clip(root) - Blur) <= hi

(* StableSwap asks for the first step and not for the first unit, and a     *)
(* gain smaller than the precision of Balancer's power is not seen.         *)
Denies ==
    outcome = Err("NoArbitrageOpportunity") /\ (searcher = "stable" \/ RoundedAway)

Contract == INSTANCE SizingContract WITH outcome <- IF Denies THEN Pending ELSE outcome

(* A size that is returned is within max_size, comes with its own profit    *)
(* and earns one, whatever error ends the other searches                    *)
(* (cpmm.rs:121-137, stableswap.rs:395-406, balancer_weighted.rs:227-242).  *)
MeetsContract == Contract!Spec

(* bisection_fallback has no bound on its iterations: below Resolution      *)
(* smallest steps the width cannot get under the tolerance.                 *)
BelowResolution == phase = "bisect" /\ searcher = "bisection" /\ hi < Resolution

(* Every search returns, StableSwap's also where the bracket cannot be      *)
(* halved any more, because both of its loops count together                *)
(* (stableswap.rs:365-386, cpmm.rs:111-118).                                *)
SearchEnds == <>(phase = "done" \/ BelowResolution)

=============================================================================
