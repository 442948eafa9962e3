-------------------------- MODULE PortfolioProofs ---------------------------
(***************************************************************************)
(* Proofs about Portfolio, for any opportunities, budget, first upper end  *)
(* and limits of the two loops.  Nothing is asked of the pools but that    *)
(* their sizes are finitely many and that nothing is paid for nothing: the *)
(* demand for capital may jump.                                            *)
(***************************************************************************)
EXTENDS Portfolio, Induction

(* Until the bisection begins lo is 0, and too much capital is asked for. *)
Unbracketed ==
    /\ phase \in {"start", "bracket"} => lo = 0
    /\ phase = "bracket" => ~Fits(0)

(* w, halved n times with Rounding, comes from the first width doubled. *)
Halved(w, n) ==
    \E k \in 0 .. MaxDoublings :
        Abs(w * TwoTo[n] - FirstLambda * TwoTo[k]) <= Rounding * (TwoTo[n] - 1)

(* How wide the bracket is after the rounds counted. *)
Width ==
    /\ phase \in {"start", "bracket"} => hi = FirstLambda * TwoTo[rounds]
    /\ phase = "bisect" => Halved(hi - lo, rounds)

(* Each loop counts its own rounds. *)
Rounds ==
    /\ phase = "start" => rounds = 0
    /\ phase = "bracket" => rounds \in 0 .. MaxDoublings
    /\ phase = "bisect" => rounds \in 0 .. MaxBisections - 1

(* While optimize goes on, its positions are those of the opportunities. *)
Positions == phase = "settle" => DOMAIN best.positions = DOMAIN curve

IInv == TypeOK /\ Rounds /\ Width /\ Unbracketed /\ BracketHolds /\ Positions

(* 2^n is a positive number, and doubles with n. *)
LEMMA TwoToType ==
    ASSUME NEW n \in Nat
    PROVE  TwoTo[n] \in Nat \ {0} /\ TwoTo[n + 1] = 2 * TwoTo[n]
BY TwoToRec

(* A bracket that is not yet halved MaxBisections times is wider than       *)
(* Rounding; so its middle is strictly inside, and halves it either way.    *)
LEMMA MiddleHalves ==
    ASSUME NEW n \in 0 .. MaxBisections - 1, lo \in Nat, hi \in Nat, lo <= hi,
           Halved(hi - lo, n), NEW mid \in Middles
    PROVE  /\ mid \in Nat \ {0} /\ lo <= mid /\ mid <= hi
           /\ Halved(mid - lo, n + 1) /\ Halved(hi - mid, n + 1)
<1> DEFINE w == hi - lo
           t == TwoTo[n]
<1>1. PICK k \in 0 .. MaxDoublings :
         Abs(w * t - FirstLambda * TwoTo[k]) <= Rounding * (t - 1)
  BY DEF Halved
<1> DEFINE goal == FirstLambda * TwoTo[k]
           rt == Rounding * t
<1>2. /\ t \in Nat \ {0} /\ TwoTo[n + 1] = 2 * t /\ Rounding \in Nat \ {0}
      /\ TwoTo[k] \in Nat \ {0} /\ FirstLambda \in Nat \ {0} /\ n \in Nat /\ n + 1 \in Nat
      /\ MaxBisections \in Nat /\ n + 1 \in 0 .. MaxBisections
  BY PortfolioAssumption, TwoToType
<1>3. TwoTo[MaxBisections] \in Nat /\ 2 * t <= TwoTo[MaxBisections]
  BY <1>2, TwoToType, TwoToGrows
<1>4. w \in Nat /\ mid \in Nat /\ -Rounding <= 2 * mid - (lo + hi) /\ 2 * mid - (lo + hi) <= Rounding
  BY <1>2 DEF Middles, Abs
<1> HIDE DEF w, t
<1>5. goal \in Nat /\ rt \in Nat /\ goal >= 2 * rt /\ Rounding * (t - 1) = rt - Rounding
  <2>1. FirstLambda >= Rounding * TwoTo[MaxBisections]
    BY PortfolioAssumption
  <2>2. Rounding * TwoTo[MaxBisections] >= Rounding * (2 * t)
    BY <1>2, <1>3
  <2>3. FirstLambda * TwoTo[k] >= FirstLambda
    BY <1>2
  <2>4. /\ Rounding * (2 * t) = 2 * (Rounding * t) /\ Rounding * t \in Nat
        /\ Rounding * TwoTo[MaxBisections] \in Nat /\ FirstLambda * TwoTo[k] \in Nat
        /\ Rounding * (t - 1) = Rounding * t - Rounding
    BY <1>2, <1>3
  <2> QED
    BY <1>2, <2>1, <2>2, <2>3, <2>4
<1> HIDE DEF goal, rt
<1>6. w * t \in Nat /\ w * t - goal <= rt - Rounding /\ goal - w * t <= rt - Rounding
  <2>1. w * t \in Nat
    BY <1>2, <1>4
  <2>2. Abs(w * t - goal) <= rt - Rounding
    BY <1>1, <1>5 DEF goal
  <2> QED
    BY <1>2, <1>5, <2>1, <2>2 DEF Abs
<1>7. w > Rounding
  <2>1. SUFFICES ASSUME w <= Rounding PROVE FALSE
    BY <1>2, <1>4
  <2>2. w * t <= Rounding * t
    BY <1>2, <1>4, <2>1
  <2> QED
    BY <1>2, <1>5, <1>6, <2>2 DEF rt
<1>8. lo < mid /\ mid < hi
  BY <1>2, <1>4, <1>7 DEF w
<1>9. ASSUME NEW v \in Nat, -Rounding <= 2 * v - w, 2 * v - w <= Rounding
      PROVE  Halved(v, n + 1)
  <2> DEFINE d == 2 * v - w
  <2>1. d \in Int /\ -Rounding <= d /\ d <= Rounding
    BY <1>2, <1>4, <1>9
  <2>2. v * (2 * t) = w * t + d * t
    <3>1. v * (2 * t) = (2 * v) * t /\ 2 * v = w + d
      BY <1>2, <1>4
    <3>2. (w + d) * t = w * t + d * t
      BY <1>2, <1>4, <2>1
    <3> QED
      BY <3>1, <3>2
  <2> HIDE DEF d
  <2>3. d * t \in Int /\ d * t <= rt /\ -rt <= d * t
    <3>1. (Rounding - d) * t >= 0 /\ (Rounding + d) * t >= 0
      BY <1>2, <2>1
    <3>2. /\ (Rounding - d) * t = Rounding * t - d * t /\ (Rounding + d) * t = Rounding * t + d * t
          /\ d * t \in Int /\ Rounding * t \in Int
      BY <1>2, <2>1
    <3> QED
      BY <3>1, <3>2 DEF rt
  <2>4. v * (2 * t) - goal \in Int /\ Abs(v * (2 * t) - goal) <= 2 * rt - Rounding
    BY <1>2, <1>5, <1>6, <2>2, <2>3 DEF Abs
  <2>5. Rounding * (2 * t - 1) = 2 * rt - Rounding
    BY <1>2 DEF rt
  <2>6. Abs(v * TwoTo[n + 1] - FirstLambda * TwoTo[k]) <= Rounding * (TwoTo[n + 1] - 1)
    BY <1>2, <2>4, <2>5 DEF goal
  <2> QED
    BY <2>6 DEF Halved
<1>10. /\ mid - lo \in Nat /\ -Rounding <= 2 * (mid - lo) - w /\ 2 * (mid - lo) - w <= Rounding
       /\ hi - mid \in Nat /\ -Rounding <= 2 * (hi - mid) - w /\ 2 * (hi - mid) - w <= Rounding
  BY <1>2, <1>4, <1>8 DEF w
<1>11. Halved(mid - lo, n + 1) /\ Halved(hi - mid, n + 1)
  BY <1>9, <1>10
<1> QED
  BY <1>4, <1>8, <1>11

(* Whether lambda fits depends on the input alone. *)
LEMMA FitsStays ==
    ASSUME UNCHANGED input, NEW l
    PROVE  Fits(l)' = Fits(l)
BY DEF input, Fits, Capital, EvaluateLambda

(* A result has the positions it is given, and scaling keeps them all. *)
LEMMA OutcomeDomain ==
    ASSUME NEW l, NEW ps, DOMAIN ps = DOMAIN curve
    PROVE  DOMAIN Outcome(l, ps).positions = DOMAIN curve
BY DEF Outcome

LEMMA ScaledDomain ==
    ASSUME NEW ps
    PROVE  DOMAIN ScaledDown(ps) = DOMAIN ps
BY DEF ScaledDown

(* The initial states have the first invariant, and each action keeps it. *)
LEMMA InitHolds ==
    ASSUME Init
    PROVE  IInv
<1>1. /\ budget \in Budgets /\ phase = "start" /\ lo = 0 /\ hi \in Nat
      /\ best.lambda \in Nat /\ rounds = 0 /\ closed = FALSE
  BY PortfolioAssumption DEF Init
<1>2. rounds \in 0 .. MaxDoublings
  BY <1>1, PortfolioAssumption
<1>3. Width
  <2>1. TwoTo[0] = 1 /\ FirstLambda \in Nat
    BY TwoToRec, PortfolioAssumption
  <2>2. FirstLambda = FirstLambda * TwoTo[0]
    BY <2>1
  <2> QED
    BY <1>1, <2>2 DEF Init, Width
<1> QED
  BY <1>1, <1>2, <1>3 DEF IInv, TypeOK, Rounds, Unbracketed, BracketHolds, Positions

LEMMA UnconstrainedKeeps ==
    ASSUME IInv, Unconstrained
    PROVE  IInv'
<1>1. UNCHANGED <<curve, budget, lo, hi, rounds, closed, best>>
  BY DEF Unconstrained, input
<1>2. CASE Fits(0)
  <2>1. phase' = "done" /\ result' = Outcome(0, EvaluateLambda(0))
    BY <1>2 DEF Unconstrained
  <2>2. DOMAIN result'.positions = DOMAIN curve
    BY <2>1, OutcomeDomain DEF EvaluateLambda
  <2>3. TypeOK'
    BY <1>1, <2>1, <2>2 DEF IInv, TypeOK
  <2> QED
    BY <2>1, <2>3 DEF IInv, Rounds, Width, Unbracketed, BracketHolds, Positions
<1>3. CASE ~Fits(0)
  <2>1. phase' = "bracket"
    BY <1>3 DEF Unconstrained
  <2>2. rounds \in 0 .. MaxDoublings
    BY PortfolioAssumption DEF Unconstrained, IInv, Rounds
  <2>3. lo = 0
    BY DEF Unconstrained, IInv, Unbracketed
  <2>4. ~Fits(0)'
    BY <1>1, <1>3, FitsStays DEF input
  <2>5. result' = result
    BY <1>3 DEF Unconstrained
  <2>6. Width'
    BY <1>1, <2>1 DEF IInv, Unconstrained, Width
  <2> QED
    BY <1>1, <2>1, <2>2, <2>3, <2>4, <2>5, <2>6
    DEF IInv, TypeOK, Rounds, Unbracketed, BracketHolds, Positions
<1> QED
  BY <1>2, <1>3

LEMMA BracketKeeps ==
    ASSUME IInv, Bracket
    PROVE  IInv'
<1>1. UNCHANGED <<curve, budget, lo, best, result>> /\ phase = "bracket" /\ lo = 0 /\ ~Fits(0)
  BY DEF Bracket, input, IInv, Unbracketed
<1>2. ~Fits(lo)' /\ ~Fits(0)'
  BY <1>1, FitsStays DEF input
<1>3. hi \in Nat /\ hi = FirstLambda * TwoTo[rounds] /\ rounds \in 0 .. MaxDoublings
  BY <1>1 DEF IInv, TypeOK, Rounds, Width
<1>4. /\ FirstLambda \in Nat /\ Rounding \in Nat /\ rounds \in Nat /\ TwoTo[rounds] \in Nat
      /\ TwoTo[rounds + 1] = 2 * TwoTo[rounds] /\ TwoTo[0] = 1
  BY <1>3, PortfolioAssumption, TwoToType, TwoToRec
<1>5. CASE rounds < MaxDoublings /\ ~Fits(hi)
  <2>1. hi' = 2 * hi /\ rounds' = rounds + 1 /\ UNCHANGED <<phase, closed>>
    BY <1>5 DEF Bracket
  <2>2. hi' \in Nat /\ rounds' \in 0 .. MaxDoublings
    BY <1>3, <1>5, <2>1, PortfolioAssumption
  <2>3. 2 * (FirstLambda * TwoTo[rounds]) = FirstLambda * (2 * TwoTo[rounds])
    BY <1>4
  <2>4. Width'
    BY <1>1, <1>3, <1>4, <2>1, <2>3 DEF Width
  <2> QED
    BY <1>1, <1>2, <2>1, <2>2, <2>4 DEF IInv, TypeOK, Rounds, Unbracketed, BracketHolds, Positions
<1>6. CASE ~(rounds < MaxDoublings /\ ~Fits(hi))
  <2>1. phase' = "bisect" /\ closed' = (rounds < MaxDoublings) /\ rounds' = 0 /\ hi' = hi
    BY <1>1, <1>6 DEF Bracket
  <2>2. closed' => Fits(hi)'
    BY <1>1, <1>6, <2>1, FitsStays DEF input
  <2>3. /\ rounds' \in 0 .. MaxDoublings /\ rounds' \in 0 .. MaxBisections - 1
        /\ closed' \in BOOLEAN /\ lo' <= hi'
    BY <1>1, <1>3, <2>1, PortfolioAssumption
  <2>4. Width'
    <3>1. (hi - lo) * TwoTo[0] - FirstLambda * TwoTo[rounds] = 0 /\ Rounding * (TwoTo[0] - 1) = 0
      BY <1>1, <1>3, <1>4
    <3>2. Halved(hi - lo, 0)
      BY <1>3, <3>1 DEF Halved, Abs
    <3>3. Halved(hi' - lo', rounds')
      BY <1>1, <2>1, <3>2
    <3> QED
      BY <2>1, <3>3 DEF Width
  <2> QED
    BY <1>1, <1>2, <1>3, <2>1, <2>2, <2>3, <2>4
    DEF IInv, TypeOK, Rounds, Unbracketed, BracketHolds, Positions
<1> QED
  BY <1>5, <1>6

LEMMA BisectKeeps ==
    ASSUME IInv, Bisect
    PROVE  IInv'
<1>1. PICK mid \in Middles :
         /\ best' = [lambda |-> mid, positions |-> EvaluateLambda(mid)]
         /\ phase' = IF WithinTolerance(Capital(mid)) \/ rounds' = MaxBisections
                     THEN "settle" ELSE "bisect"
         /\ IF WithinTolerance(Capital(mid)) THEN UNCHANGED <<lo, hi, closed>>
            ELSE IF ~Fits(mid) THEN lo' = mid /\ UNCHANGED <<hi, closed>>
            ELSE hi' = mid /\ closed' = TRUE /\ UNCHANGED lo
  BY DEF Bisect
<1>2. /\ UNCHANGED <<curve, budget, result>> /\ phase = "bisect" /\ phase' \in {"bisect", "settle"}
      /\ rounds' = rounds + 1
  BY <1>1 DEF Bisect, input
<1>3. /\ lo <= hi /\ ~Fits(lo) /\ (closed => Fits(hi)) /\ lo \in Nat /\ hi \in Nat
      /\ closed \in BOOLEAN /\ rounds \in 0 .. MaxBisections - 1 /\ Halved(hi - lo, rounds)
  BY <1>2 DEF IInv, TypeOK, Rounds, Width, BracketHolds
<1>4. /\ mid \in Nat \ {0} /\ lo <= mid /\ mid <= hi
      /\ Halved(mid - lo, rounds + 1) /\ Halved(hi - mid, rounds + 1)
  BY <1>3, MiddleHalves
<1>5. DOMAIN best'.positions = DOMAIN curve /\ best'.lambda \in Nat
  BY <1>1, <1>4 DEF EvaluateLambda
<1>6. rounds' \in 0 .. MaxBisections /\ (phase' = "bisect" => rounds' \in 0 .. MaxBisections - 1)
  BY <1>1, <1>2, <1>3, PortfolioAssumption
<1>7. /\ BracketHolds' /\ lo' \in Nat /\ hi' \in Nat /\ closed' \in BOOLEAN
      /\ phase' = "bisect" => Halved(hi' - lo', rounds')
  <2>1. \A l : Fits(l)' = Fits(l)
    BY <1>2, FitsStays DEF input
  <2>2. CASE WithinTolerance(Capital(mid))
    <3>1. UNCHANGED <<lo, hi, closed>> /\ phase' = "settle"
      BY <1>1, <2>2
    <3> QED
      BY <1>3, <2>1, <3>1 DEF BracketHolds
  <2>3. CASE ~WithinTolerance(Capital(mid)) /\ ~Fits(mid)
    <3>1. lo' = mid /\ UNCHANGED <<hi, closed>>
      BY <1>1, <2>3
    <3> QED
      BY <1>2, <1>3, <1>4, <2>1, <2>3, <3>1 DEF BracketHolds
  <2>4. CASE ~WithinTolerance(Capital(mid)) /\ Fits(mid)
    <3>1. hi' = mid /\ closed' = TRUE /\ UNCHANGED lo
      BY <1>1, <2>4
    <3> QED
      BY <1>2, <1>3, <1>4, <2>1, <2>4, <3>1 DEF BracketHolds
  <2> QED
    BY <2>2, <2>3, <2>4
<1>8. Width'
  BY <1>2, <1>7 DEF Width
<1> QED
  BY <1>2, <1>5, <1>6, <1>7, <1>8 DEF IInv, TypeOK, Rounds, Unbracketed, Positions

LEMMA SettleKeeps ==
    ASSUME IInv, Settle
    PROVE  IInv'
<1>1. UNCHANGED <<curve, budget, lo, hi, rounds, closed, best>> /\ phase' = "done"
  BY DEF Settle, input
<1>2. DOMAIN best.positions = DOMAIN curve
  BY DEF Settle, IInv, Positions
<1>3. DOMAIN ScaledDown(best.positions) = DOMAIN curve
  BY <1>2, ScaledDomain
<1>4. DOMAIN result'.positions = DOMAIN curve
  BY <1>2, <1>3, OutcomeDomain DEF Settle
<1> QED
  BY <1>1, <1>4 DEF IInv, TypeOK, Rounds, Width, Unbracketed, BracketHolds, Positions

LEMMA StepKeeps ==
    ASSUME IInv, [Next]_vars
    PROVE  IInv'
<1>1. CASE Finished \/ UNCHANGED vars
  <2>1. UNCHANGED <<curve, budget, phase, lo, hi, rounds, closed, best, result>>
    BY <1>1 DEF Finished, vars, input
  <2>2. \A l : Fits(l)' = Fits(l)
    BY <2>1, FitsStays DEF input
  <2> QED
    BY <2>1, <2>2 DEF IInv, TypeOK, Rounds, Width, Unbracketed, BracketHolds, Positions
<1> QED
  BY <1>1, UnconstrainedKeeps, BracketKeeps, BisectKeeps, SettleKeeps DEF Next

(* It always holds. *)
LEMMA InvariantHolds == Spec => []IInv
<1>1. Init => IInv
  BY InitHolds
<1>2. IInv /\ [Next]_vars => IInv'
  BY StepKeeps
<1> QED
  BY <1>1, <1>2, PTL DEF Spec

-----------------------------------------------------------------------------

(* One pool at one shadow price. *)

(* x is what OptimalSize looks for: the smallest of the sizes with the best *)
(* gross profit.                                                            *)
Beats(gross, x, y) == gross[x] > gross[y] \/ (gross[x] = gross[y] /\ x <= y)

GrossOf(c, price) == [x \in Sizes(c) |-> Gross(c, x, price)]

IsPeak(c, price, x) ==
    x \in Sizes(c) /\ \A y \in Sizes(c) : Beats(GrossOf(c, price), x, y)

(* What a size earns at a price per unit of capital, 0 being no trade. *)
Worth(c, x, price) == IF x = 0 THEN 0 ELSE Gross(c, x, price) - c.fixed

Measured(gross, S) == gross \in [S -> Int]

(* Gross profits are integers. *)
LEMMA GrossType ==
    ASSUME NEW c, IsCurve(c), NEW price \in Nat
    PROVE  Measured(GrossOf(c, price), Sizes(c))
<1>1. ASSUME NEW x \in Sizes(c) PROVE Gross(c, x, price) \in Int
  <2>1. c.out[x] \in Int /\ x \in Int
    BY DEF IsCurve, Sizes
  <2> QED
    BY <2>1 DEF Gross
<1> QED
  BY <1>1 DEF GrossOf, Measured

(* A finite set of sizes has one that beats the others. *)
LEMMA PeakAmong ==
    ASSUME NEW S, IsFiniteSet(S), S \subseteq Nat, S # {}, NEW gross, Measured(gross, S)
    PROVE  \E x \in S : \A y \in S : Beats(gross, x, y)
<1> DEFINE T == {s \in SUBSET S : s = {} \/ \E x \in s : \A y \in s : Beats(gross, x, y)}
<1>1. {} \in T
  OBVIOUS
<1>2. ASSUME NEW s \in SUBSET S, s # {}, s \ {Pick(s)} \in T PROVE s \in T
  <2> DEFINE p == Pick(s)
  <2>1. p \in s
    BY <1>2, PickIn
  <2>2. \A y \in S : gross[y] \in Int /\ y \in Nat
    BY DEF Measured
  <2>3. CASE s \ {p} = {}
    <3>1. \A y \in s : Beats(gross, p, y)
      BY <2>1, <2>2, <2>3 DEF Beats
    <3> QED
      BY <2>1, <3>1
  <2>4. CASE s \ {p} # {}
    <3>1. PICK x \in s \ {p} : \A y \in s \ {p} : Beats(gross, x, y)
      BY <1>2, <2>4
    <3>2. CASE Beats(gross, x, p)
      BY <3>1, <3>2
    <3>3. CASE ~Beats(gross, x, p)
      <4>1. ASSUME NEW y \in s PROVE Beats(gross, p, y)
        <5>1. /\ gross[x] \in Int /\ gross[p] \in Int /\ gross[y] \in Int
              /\ x \in Nat /\ p \in Nat /\ y \in Nat
          BY <2>1, <2>2, <3>1
        <5>2. y = p \/ Beats(gross, x, y)
          BY <3>1
        <5> HIDE DEF p
        <5> QED
          BY <3>3, <5>1, <5>2 DEF Beats
      <4> QED
        BY <2>1, <4>1
    <3> QED
      BY <3>2, <3>3
  <2> QED
    BY <2>3, <2>4
<1>3. \A s \in SUBSET S : s \in T
  <2> HIDE DEF T
  <2> QED
    BY <1>1, <1>2, FiniteInduction
<1> QED
  BY <1>3

(* optimal_size finds a peak, and takes it if it clears the fixed cost. *)
LEMMA OptimalSizeIs ==
    ASSUME NEW c, IsCurve(c), NEW price \in Nat
    PROVE  \E x : /\ IsPeak(c, price, x)
                  /\ OptimalSize(c, price) =
                        IF x > 0 /\ Gross(c, x, price) - c.fixed > 0
                        THEN Position(x, Gross(c, x, price) - c.fixed) ELSE Position(0, 0)
<1> DEFINE Chosen(x) == x \in Sizes(c) /\ \A y \in Sizes(c) :
                           \/ Gross(c, x, price) > Gross(c, y, price)
                           \/ Gross(c, x, price) = Gross(c, y, price) /\ x <= y
           peak == CHOOSE x \in Sizes(c) : \A y \in Sizes(c) :
                           \/ Gross(c, x, price) > Gross(c, y, price)
                           \/ Gross(c, x, price) = Gross(c, y, price) /\ x <= y
<1>1. Measured(GrossOf(c, price), Sizes(c))
  BY GrossType
<1>2. IsFiniteSet(Sizes(c)) /\ Sizes(c) \subseteq Nat /\ Sizes(c) # {}
  BY DEF IsCurve, Sizes
<1>3. \E x \in Sizes(c) : \A y \in Sizes(c) : Beats(GrossOf(c, price), x, y)
  BY <1>1, <1>2, PeakAmong
<1>4. \A x, y \in Sizes(c) : Beats(GrossOf(c, price), x, y) =
         (\/ Gross(c, x, price) > Gross(c, y, price)
          \/ Gross(c, x, price) = Gross(c, y, price) /\ x <= y)
  BY DEF Beats, GrossOf
<1>5. Chosen(peak)
  BY <1>3, <1>4
<1>6. IsPeak(c, price, peak)
  BY <1>4, <1>5 DEF IsPeak
<1>7. OptimalSize(c, price) =
         IF peak > 0 /\ Gross(c, peak, price) - c.fixed > 0
         THEN Position(peak, Gross(c, peak, price) - c.fixed) ELSE Position(0, 0)
  BY DEF OptimalSize
<1> QED
  BY <1>6, <1>7

(* Its answer is a size of the pool, worth no less than any other, and no    *)
(* less than no trade.                                                       *)
LEMMA OptimalSizeBest ==
    ASSUME NEW c, IsCurve(c), NEW price \in Nat
    PROVE  /\ OptimalSize(c, price).size \in Sizes(c)
           /\ \A y \in Sizes(c) :
                 Worth(c, y, price) <= Worth(c, OptimalSize(c, price).size, price)
<1>1. PICK x : /\ IsPeak(c, price, x)
               /\ OptimalSize(c, price) =
                     IF x > 0 /\ Gross(c, x, price) - c.fixed > 0
                     THEN Position(x, Gross(c, x, price) - c.fixed) ELSE Position(0, 0)
  BY OptimalSizeIs
<1>2. \A y \in Sizes(c) : Gross(c, y, price) \in Int /\ y \in Nat
  BY GrossType DEF Measured, GrossOf, IsCurve, Sizes
<1>3. x \in Sizes(c) /\ \A y \in Sizes(c) : Gross(c, y, price) <= Gross(c, x, price)
  BY <1>1, <1>2 DEF IsPeak, Beats, GrossOf
<1>4. 0 \in Sizes(c) /\ Gross(c, 0, price) = 0 /\ c.fixed \in Nat
  BY DEF IsCurve, Sizes, Gross
<1>5. CASE x > 0 /\ Gross(c, x, price) - c.fixed > 0
  <2>1. OptimalSize(c, price).size = x
    BY <1>1, <1>5 DEF Position
  <2> QED
    BY <1>2, <1>3, <1>4, <1>5, <2>1 DEF Worth
<1>6. CASE ~(x > 0 /\ Gross(c, x, price) - c.fixed > 0)
  <2>1. OptimalSize(c, price).size = 0
    BY <1>1, <1>6 DEF Position
  <2>2. Gross(c, x, price) - c.fixed <= 0
    BY <1>2, <1>3, <1>4, <1>6
  <2> QED
    BY <1>2, <1>3, <1>4, <2>1, <2>2 DEF Worth
<1> QED
  BY <1>5, <1>6

(* A higher shadow price asks for no larger size. *)
LEMMA DemandFalls ==
    ASSUME NEW c, IsCurve(c), NEW price \in Nat, NEW l \in Nat
    PROVE  OptimalSize(c, price + l).size <= OptimalSize(c, price).size
<1>1. PICK x : /\ IsPeak(c, price, x)
               /\ OptimalSize(c, price) =
                     IF x > 0 /\ Gross(c, x, price) - c.fixed > 0
                     THEN Position(x, Gross(c, x, price) - c.fixed) ELSE Position(0, 0)
  BY OptimalSizeIs
<1>2. price + l \in Nat
  OBVIOUS
<1>3. PICK y : /\ IsPeak(c, price + l, y)
               /\ OptimalSize(c, price + l) =
                     IF y > 0 /\ Gross(c, y, price + l) - c.fixed > 0
                     THEN Position(y, Gross(c, y, price + l) - c.fixed) ELSE Position(0, 0)
  BY <1>2, OptimalSizeIs
<1>4. /\ x \in Nat /\ y \in Nat /\ c.fixed \in Nat
      /\ x \in Sizes(c) /\ y \in Sizes(c)
  BY <1>1, <1>3 DEF IsPeak, IsCurve, Sizes
<1>5. /\ Gross(c, x, price) \in Int /\ Gross(c, y, price) \in Int
      /\ Gross(c, x, price + l) \in Int /\ Gross(c, y, price + l) \in Int
  BY <1>2, <1>4, GrossType DEF Measured, GrossOf
<1>6. /\ Gross(c, x, price + l) = Gross(c, x, price) - l * x
      /\ Gross(c, y, price + l) = Gross(c, y, price) - l * y
  <2>1. c.out[x] \in Int /\ c.out[y] \in Int
    BY <1>4 DEF IsCurve, Sizes
  <2>2. (price + l) * x = price * x + l * x /\ (price + l) * y = price * y + l * y
    BY <1>4
  <2> QED
    BY <1>4, <2>1, <2>2 DEF Gross
<1>7. /\ Gross(c, y, price) < Gross(c, x, price) \/ (Gross(c, y, price) = Gross(c, x, price) /\ x <= y)
      /\ \/ Gross(c, x, price + l) < Gross(c, y, price + l)
         \/ Gross(c, x, price + l) = Gross(c, y, price + l) /\ y <= x
  BY <1>1, <1>3, <1>4, <1>5 DEF IsPeak, Beats, GrossOf
<1>8. l * x \in Nat /\ l * y \in Nat /\ (x < y => l * x <= l * y)
  BY <1>4
<1>9. y <= x
  BY <1>4, <1>5, <1>6, <1>7, <1>8
<1>10. Gross(c, y, price + l) <= Gross(c, x, price)
  BY <1>4, <1>5, <1>6, <1>7, <1>8
<1>11. CASE y > 0 /\ Gross(c, y, price + l) - c.fixed > 0
  <2>1. x > 0 /\ Gross(c, x, price) - c.fixed > 0
    BY <1>4, <1>5, <1>9, <1>10, <1>11
  <2> QED
    BY <1>1, <1>3, <1>9, <1>11, <2>1 DEF Position
<1>12. CASE ~(y > 0 /\ Gross(c, y, price + l) - c.fixed > 0)
  <2>1. OptimalSize(c, price + l).size = 0
    BY <1>3, <1>12 DEF Position
  <2>2. OptimalSize(c, price).size \in {x, 0}
    BY <1>1 DEF Position
  <2> QED
    BY <1>4, <2>1, <2>2
<1> QED
  BY <1>11, <1>12

-----------------------------------------------------------------------------

(* Sums over the opportunities. *)

(* The caller passes finitely many opportunities, and a budget. *)
InputKnown ==
    /\ IsFiniteSet(DOMAIN curve) /\ \A o \in DOMAIN curve : IsCurve(curve[o])
    /\ budget \in Nat \ {0}

SizesOf(l) == [o \in DOMAIN curve |-> EvaluateLambda(l)[o].size]

(* The size of each opportunity is one of its pool, and what OptimalSize says. *)
LEMMA SizesOfType ==
    ASSUME InputKnown, NEW l \in Nat, NEW o \in DOMAIN curve
    PROVE  /\ SizesOf(l)[o] \in Sizes(curve[o]) /\ SizesOf(l)[o] \in Nat
           /\ curve[o].price + l \in Nat /\ IsCurve(curve[o])
           /\ SizesOf(l)[o] = OptimalSize(curve[o], curve[o].price + l).size
<1>1. IsCurve(curve[o]) /\ curve[o].price + l \in Nat
  BY DEF InputKnown, IsCurve
<1>2. SizesOf(l)[o] = OptimalSize(curve[o], curve[o].price + l).size
  BY DEF SizesOf, EvaluateLambda
<1>3. SizesOf(l)[o] \in Sizes(curve[o])
  BY <1>1, <1>2, OptimalSizeBest
<1> QED
  BY <1>1, <1>2, <1>3 DEF IsCurve, Sizes

(* What a size earns is what it is worth at a shadow price l, and l for each *)
(* unit of its capital.                                                      *)
LEMMA NetProfitIs ==
    ASSUME NEW c, IsCurve(c), NEW x \in Sizes(c), NEW l \in Nat
    PROVE  /\ Worth(c, x, c.price + l) \in Int /\ NetProfit(c, x) \in Int
           /\ l * x \in Int /\ NetProfit(c, x) = Worth(c, x, c.price + l) + l * x
<1>1. x \in Nat /\ c.out[x] \in Int /\ c.price \in Nat /\ c.fixed \in Nat
  BY DEF IsCurve, Sizes
<1>2. (c.price + l) * x = c.price * x + l * x /\ l * x \in Int /\ c.price * x \in Int
  BY <1>1
<1>3. x = 0 => l * x = 0
  OBVIOUS
<1> QED
  BY <1>1, <1>2, <1>3 DEF Worth, NetProfit, Gross

(* No spread of as little capital earns more than the sizes at l. *)
LEMMA BestSpread ==
    ASSUME InputKnown, NEW l \in Nat, NEW other \in Allocations,
           AllocatedCapital(other) <= AllocatedCapital(SizesOf(l))
    PROVE  Earned(other) <= Earned(SizesOf(l))
<1> DEFINE D == DOMAIN curve
           chosen == SizesOf(l)
           earns(a) == [o \in D |-> NetProfit(curve[o], a[o])]
           worth(a) == [o \in D |-> Worth(curve[o], a[o], curve[o].price + l)]
           pays(a) == [o \in D |-> l * a[o]]
           Sum(f) == SumFunctionOnSet(f, D)
<1>1. IsFiniteSet(D)
  BY DEF InputKnown
<1>2. DOMAIN other = D /\ \A o \in D : other[o] \in Sizes(curve[o])
  BY DEF Allocations
<1>3. DOMAIN chosen = D /\ \A o \in D : chosen[o] \in Sizes(curve[o])
  BY SizesOfType DEF SizesOf
<1>4. other \in [D -> Int] /\ chosen \in [D -> Int]
  <2>1. \A o \in D : Sizes(curve[o]) \subseteq Int
    BY DEF InputKnown, IsCurve, Sizes
  <2>2. chosen = [o \in D |-> chosen[o]] /\ other = [o \in D |-> other[o]]
    BY DEF SizesOf, Allocations
  <2> QED
    BY <1>2, <1>3, <2>1, <2>2
<1>5. ASSUME NEW a, a \in [D -> Int], \A o \in D : a[o] \in Sizes(curve[o])
      PROVE  /\ Sum(earns(a)) = Sum(worth(a)) + l * Sum(a)
             /\ Sum(earns(a)) \in Int /\ Sum(worth(a)) \in Int /\ Sum(a) \in Int
  <2>1. \A o \in D : /\ Worth(curve[o], a[o], curve[o].price + l) \in Int
                     /\ NetProfit(curve[o], a[o]) \in Int /\ l * a[o] \in Int
                     /\ NetProfit(curve[o], a[o])
                          = Worth(curve[o], a[o], curve[o].price + l) + l * a[o]
    BY <1>5, NetProfitIs DEF InputKnown
  <2>2. earns(a) \in [D -> Int] /\ worth(a) \in [D -> Int] /\ pays(a) \in [D -> Int]
    BY <2>1
  <2>3. \A o \in D : earns(a)[o] = worth(a)[o] + pays(a)[o]
    BY <2>1
  <2>4. \A o \in D : pays(a)[o] = l * a[o]
    OBVIOUS
  <2> HIDE DEF earns, worth, pays, D
  <2>5. Sum(earns(a)) = Sum(worth(a)) + Sum(pays(a))
    BY <1>1, <2>2, <2>3, SumPlus
  <2>6. Sum(pays(a)) = l * Sum(a)
    BY <1>1, <1>5, <2>2, <2>4, SumTimes
  <2>7. Sum(earns(a)) \in Int /\ Sum(worth(a)) \in Int /\ Sum(a) \in Int
    BY <1>1, <1>5, <2>2, SumType
  <2> QED
    BY <2>5, <2>6, <2>7
<1>6. Sum(worth(other)) <= Sum(worth(chosen))
  <2>1. ASSUME NEW o \in D
        PROVE  /\ worth(other)[o] <= worth(chosen)[o]
               /\ worth(other)[o] \in Int /\ worth(chosen)[o] \in Int
    <3>1. /\ curve[o].price + l \in Nat /\ IsCurve(curve[o])
          /\ chosen[o] = OptimalSize(curve[o], curve[o].price + l).size
      BY SizesOfType
    <3>2. Worth(curve[o], other[o], curve[o].price + l) <= Worth(curve[o], chosen[o], curve[o].price + l)
      BY <1>2, <3>1, OptimalSizeBest
    <3> QED
      BY <1>2, <1>3, <3>1, <3>2, NetProfitIs
  <2>2. worth(other) \in [D -> Int] /\ worth(chosen) \in [D -> Int]
    BY <2>1
  <2> HIDE DEF worth, D
  <2> QED
    BY <1>1, <2>1, <2>2, SumMonotone
<1>7. /\ AllocatedCapital(other) = Sum(other) /\ AllocatedCapital(chosen) = Sum(chosen)
      /\ Earned(other) = Sum(earns(other)) /\ Earned(chosen) = Sum(earns(chosen))
  BY <1>2, <1>3 DEF AllocatedCapital, Earned, SumFunction
<1> HIDE DEF Sum, earns, worth, chosen
<1>8. l * Sum(other) <= l * Sum(chosen)
  <2>1. Sum(other) <= Sum(chosen) /\ Sum(other) \in Int /\ Sum(chosen) \in Int
    BY <1>2, <1>3, <1>4, <1>5, <1>7 DEF chosen
  <2> QED
    BY <2>1
<1>9. Sum(earns(other)) <= Sum(earns(chosen))
  <2>1. l * Sum(other) \in Int /\ l * Sum(chosen) \in Int
    BY <1>2, <1>3, <1>4, <1>5
  <2> QED
    BY <1>2, <1>3, <1>4, <1>5, <1>6, <1>8, <2>1
<1> QED
  BY <1>7, <1>9 DEF chosen

(* Rounding to the nearest is off by half a unit at most. *)
LEMMA NearestIs ==
    ASSUME NEW n \in Nat, NEW d \in Nat \ {0}
    PROVE  /\ Nearest(n, d) \in Nat /\ 2 * (d * Nearest(n, d)) <= 2 * n + d
           /\ \A m \in Nat : n <= m * d => Nearest(n, d) <= m
<1> DEFINE q == (2 * n + d) \div (2 * d)
<1>1. q \in Nat /\ (2 * d) * q <= 2 * n + d
  BY Z3
<1>2. Nearest(n, d) = q
  BY DEF Nearest
<1> HIDE DEF q
<1>3. (2 * d) * q = 2 * (d * q)
  BY <1>1
<1>4. ASSUME NEW m \in Nat, n <= m * d, q >= m + 1 PROVE FALSE
  <2>1. (2 * d) * q >= (2 * d) * (m + 1)
    BY <1>1, <1>4
  <2>2. (2 * d) * (m + 1) = 2 * (m * d) + 2 * d /\ m * d \in Nat
    OBVIOUS
  <2> QED
    BY <1>1, <1>4, <2>1, <2>2
<1> QED
  BY <1>1, <1>2, <1>3, <1>4

(* The capital of the sizes at l, and that it falls with l. *)
LEMMA CapitalIs ==
    ASSUME InputKnown, NEW l \in Nat
    PROVE  /\ Measured(SizesOf(l), DOMAIN curve)
           /\ TotalSize(EvaluateLambda(l)) = SumFunctionOnSet(SizesOf(l), DOMAIN curve)
           /\ TotalSize(EvaluateLambda(l)) \in Nat
           /\ TotalSize(EvaluateLambda(l)) <= TotalSize(EvaluateLambda(0))
<1> DEFINE D == DOMAIN curve
           zero == [o \in D |-> 0]
<1>1. \A k \in Nat : /\ TotalSize(EvaluateLambda(k)) = SumFunctionOnSet(SizesOf(k), D)
                     /\ SizesOf(k) \in [D -> Int]
  <2>1. ASSUME NEW k \in Nat
        PROVE  /\ TotalSize(EvaluateLambda(k)) = SumFunctionOnSet(SizesOf(k), D)
               /\ SizesOf(k) \in [D -> Int]
    <3>1. DOMAIN EvaluateLambda(k) = D /\ DOMAIN SizesOf(k) = D
      BY DEF EvaluateLambda, SizesOf
    <3>2. [o \in DOMAIN EvaluateLambda(k) |-> EvaluateLambda(k)[o].size] = SizesOf(k)
      BY <3>1 DEF SizesOf
    <3>3. \A o \in D : SizesOf(k)[o] \in Int
      BY SizesOfType
    <3>4. SizesOf(k) = [o \in D |-> SizesOf(k)[o]]
      BY DEF SizesOf
    <3> QED
      BY <3>1, <3>2, <3>3, <3>4 DEF TotalSize, SumFunction
  <2> QED
    BY <2>1
<1>2. IsFiniteSet(D)
  BY DEF InputKnown
<1>3. \A o \in D : zero[o] <= SizesOf(l)[o] /\ SizesOf(l)[o] <= SizesOf(0)[o]
  <2>1. ASSUME NEW o \in D PROVE 0 <= SizesOf(l)[o] /\ SizesOf(l)[o] <= SizesOf(0)[o]
    <3>1. /\ curve[o].price \in Nat /\ IsCurve(curve[o]) /\ SizesOf(l)[o] \in Nat
          /\ SizesOf(l)[o] = OptimalSize(curve[o], curve[o].price + l).size
          /\ SizesOf(0)[o] = OptimalSize(curve[o], curve[o].price + 0).size
      BY SizesOfType DEF InputKnown, IsCurve
    <3>2. curve[o].price + 0 = curve[o].price
      BY <3>1
    <3> QED
      BY <3>1, <3>2, DemandFalls
  <2> QED
    BY <2>1
<1>4. zero \in [D -> Int] /\ \A o \in D : zero[o] = 0
  OBVIOUS
<1> HIDE DEF D, zero
<1>5. SumFunctionOnSet(zero, D) = 0
  <2>1. SumFunctionOnSet(zero, D) = 0 * Cardinality(D)
    BY <1>2, <1>4, SumConstant
  <2> QED
    BY <1>2, <2>1, FS_CardinalityType
<1>6. SumFunctionOnSet(zero, D) <= SumFunctionOnSet(SizesOf(l), D)
  BY <1>1, <1>2, <1>3, <1>4, SumMonotone
<1>7. SumFunctionOnSet(SizesOf(l), D) <= SumFunctionOnSet(SizesOf(0), D)
  BY <1>1, <1>2, <1>3, SumMonotone
<1>8. SumFunctionOnSet(SizesOf(l), D) \in Int
  BY <1>1, <1>2, SumType
<1> QED
  BY <1>1, <1>5, <1>6, <1>7, <1>8 DEF Measured, D

(* The sizes of a result: within the budget up to rounding, and none larger *)
(* than its pool's own optimum.                                             *)
Settled(ps) ==
    /\ 2 * Unit * TotalSize(ps)
         <= 2 * Unit * budget + TotalSize(EvaluateLambda(0)) + Cardinality(DOMAIN curve) * Unit
    /\ \A o \in DOMAIN curve : ps[o].size <= OptimalSize(curve[o], curve[o].price).size

(* No size at l is above the optimum at the reference price. *)
LEMMA NotAboveOptimum ==
    ASSUME InputKnown, NEW l \in Nat, NEW o \in DOMAIN curve
    PROVE  /\ SizesOf(l)[o] \in Nat
           /\ SizesOf(l)[o] <= OptimalSize(curve[o], curve[o].price).size
<1>1. /\ curve[o].price \in Nat /\ IsCurve(curve[o]) /\ SizesOf(l)[o] \in Nat
      /\ SizesOf(l)[o] = OptimalSize(curve[o], curve[o].price + l).size
  BY SizesOfType DEF InputKnown, IsCurve
<1> QED
  BY <1>1, DemandFalls

(* Sizes that fit the budget need no scaling. *)
LEMMA UnscaledSettled ==
    ASSUME InputKnown, NEW l \in Nat, TotalSize(EvaluateLambda(l)) <= budget
    PROVE  Settled(EvaluateLambda(l))
<1> DEFINE n == Cardinality(DOMAIN curve)
<1>1. /\ TotalSize(EvaluateLambda(l)) \in Nat /\ TotalSize(EvaluateLambda(0)) \in Nat
      /\ n \in Nat /\ budget \in Nat /\ Unit \in Nat
  BY CapitalIs, FS_CardinalityType, PortfolioAssumption DEF InputKnown
<1> HIDE DEF n
<1>2. (2 * Unit) * TotalSize(EvaluateLambda(l)) <= (2 * Unit) * budget /\ n * Unit \in Nat
      /\ (2 * Unit) * TotalSize(EvaluateLambda(l)) \in Nat /\ (2 * Unit) * budget \in Nat
  BY <1>1
<1>3. 2 * Unit * TotalSize(EvaluateLambda(l))
         <= 2 * Unit * budget + TotalSize(EvaluateLambda(0)) + n * Unit
  BY <1>1, <1>2
<1>4. \A o \in DOMAIN curve : EvaluateLambda(l)[o].size <= OptimalSize(curve[o], curve[o].price).size
  BY NotAboveOptimum DEF SizesOf
<1> QED
  BY <1>3, <1>4 DEF Settled, n

(* Sizes scaled down fit the budget up to the rounding of each. *)
LEMMA ScaledSettled ==
    ASSUME InputKnown, NEW l \in Nat, TotalSize(EvaluateLambda(l)) > budget
    PROVE  Settled(ScaledDown(EvaluateLambda(l)))
<1> DEFINE D == DOMAIN curve
           x == SizesOf(l)
           total == TotalSize(EvaluateLambda(l))
           scale == Nearest(budget * Unit, total)
           r == [o \in D |-> Nearest(x[o] * scale, Unit)]
           f == [o \in D |-> (2 * Unit) * r[o]]
           g == [o \in D |-> (2 * scale) * x[o]]
           u == [o \in D |-> Unit]
           h == [o \in D |-> g[o] + u[o]]
           Sum(F) == SumFunctionOnSet(F, D)
<1>1. /\ total \in Nat \ {0} /\ budget \in Nat \ {0} /\ Unit \in Nat \ {0} /\ IsFiniteSet(D)
      /\ total <= TotalSize(EvaluateLambda(0)) /\ TotalSize(EvaluateLambda(0)) \in Nat
      /\ x \in [D -> Int] /\ total = Sum(x)
  BY CapitalIs, PortfolioAssumption DEF InputKnown, Measured
<1>2. /\ scale \in Nat /\ 2 * (total * scale) <= 2 * (budget * Unit) + total /\ scale <= Unit
  <2>1. budget * Unit \in Nat /\ budget * Unit <= Unit * total
    BY <1>1
  <2> HIDE DEF total
  <2> QED
    BY <1>1, <2>1, NearestIs
<1>3. \A o \in D : x[o] \in Nat /\ x[o] <= OptimalSize(curve[o], curve[o].price).size
  BY NotAboveOptimum
<1>4. ASSUME NEW o \in D
      PROVE  /\ r[o] \in Nat /\ 2 * (Unit * r[o]) <= 2 * (x[o] * scale) + Unit
             /\ r[o] <= x[o] /\ x[o] * scale \in Nat
  <2> HIDE DEF scale, x
  <2>1. x[o] \in Nat /\ x[o] * scale \in Nat /\ x[o] * scale <= x[o] * Unit
    BY <1>1, <1>2, <1>3
  <2> QED
    BY <1>1, <2>1, NearestIs
<1>5. DOMAIN EvaluateLambda(l) = D /\ \A o \in D : ScaledDown(EvaluateLambda(l))[o].size = r[o]
  <2>1. DOMAIN EvaluateLambda(l) = D
    BY DEF EvaluateLambda
  <2>2. ASSUME NEW o \in D PROVE ScaledDown(EvaluateLambda(l))[o].size = r[o]
    <3>1. EvaluateLambda(l)[o] = [size |-> x[o], profit |-> EvaluateLambda(l)[o].profit]
      <4>1. PICK s, p : OptimalSize(curve[o], curve[o].price + l) = [size |-> s, profit |-> p]
        BY DEF OptimalSize, Position
      <4>2. EvaluateLambda(l)[o] = [size |-> s, profit |-> p] /\ x[o] = EvaluateLambda(l)[o].size
        BY <4>1 DEF EvaluateLambda, SizesOf
      <4> HIDE DEF x
      <4> QED
        BY <4>2
    <3>2. ScaledDown(EvaluateLambda(l))[o]
             = [EvaluateLambda(l)[o] EXCEPT !.size = Nearest(@ * scale, Unit)]
      BY <2>1 DEF ScaledDown
    <3> HIDE DEF x, scale
    <3> QED
      BY <3>1, <3>2
  <2> QED
    BY <2>1, <2>2
<1>6. TotalSize(ScaledDown(EvaluateLambda(l))) = Sum(r)
  <2>1. DOMAIN ScaledDown(EvaluateLambda(l)) = D
    BY <1>5 DEF ScaledDown
  <2>2. [o \in DOMAIN ScaledDown(EvaluateLambda(l)) |-> ScaledDown(EvaluateLambda(l))[o].size] = r
    BY <1>5, <2>1
  <2> QED
    BY <2>2 DEF TotalSize, SumFunction
<1>7. /\ r \in [D -> Int] /\ f \in [D -> Int] /\ g \in [D -> Int]
      /\ u \in [D -> Int] /\ h \in [D -> Int]
  <2>1. /\ \A o \in D : r[o] \in Int /\ x[o] \in Int
        /\ 2 * Unit \in Int /\ 2 * scale \in Int /\ Unit \in Int
    BY <1>1, <1>2, <1>3, <1>4
  <2> HIDE DEF x, scale, r
  <2>2. \A o \in D : (2 * Unit) * r[o] \in Int /\ (2 * scale) * x[o] \in Int
    BY <2>1
  <2> QED
    BY <2>1, <2>2 DEF r
<1>8. \A o \in D : f[o] <= h[o]
  <2>1. ASSUME NEW o \in D PROVE (2 * Unit) * r[o] <= (2 * scale) * x[o] + Unit
    <3> HIDE DEF r, x, scale, D
    <3>1. r[o] \in Nat /\ x[o] \in Nat
      BY <1>3, <1>4
    <3>2. (2 * Unit) * r[o] = 2 * (Unit * r[o]) /\ (2 * scale) * x[o] = 2 * (x[o] * scale)
      BY <1>1, <1>2, <3>1
    <3> QED
      BY <1>1, <1>4, <3>1, <3>2
  <2> QED
    BY <2>1
<1>9. /\ \A o \in D : f[o] = (2 * Unit) * r[o]
      /\ \A o \in D : g[o] = (2 * scale) * x[o]
      /\ \A o \in D : h[o] = g[o] + u[o]
      /\ \A o \in D : u[o] = Unit
      /\ 2 * Unit \in Int /\ 2 * scale \in Int /\ Unit \in Int
  BY <1>1, <1>2
<1> HIDE DEF f, g, h, u, r, x, scale, D, total
<1>10. Sum(f) = (2 * Unit) * Sum(r)
  BY <1>1, <1>7, <1>9, SumTimes
<1>11. Sum(g) = (2 * scale) * Sum(x)
  BY <1>1, <1>7, <1>9, SumTimes
<1>12. Sum(u) = Unit * Cardinality(D)
  BY <1>1, <1>7, <1>9, SumConstant
<1>13. Sum(h) = Sum(g) + Sum(u)
  <2>1. \A o \in D : h[o] = g[o] + u[o]
    BY <1>9
  <2> QED
    BY <1>1, <1>7, <2>1, SumPlus
<1>14. Sum(f) <= Sum(h)
  BY <1>1, <1>7, <1>8, SumMonotone
<1>15. Sum(r) \in Int /\ Cardinality(D) \in Nat
  BY <1>1, <1>7, SumType, FS_CardinalityType
<1> HIDE DEF Sum
<1>16. 2 * Unit * Sum(r) <= 2 * Unit * budget + TotalSize(EvaluateLambda(0)) + Cardinality(D) * Unit
  <2>1. (2 * scale) * total = 2 * (total * scale) /\ 2 * Unit * budget = 2 * (budget * Unit)
        /\ Unit * Cardinality(D) = Cardinality(D) * Unit
    BY <1>1, <1>2, <1>15
  <2>2. (2 * Unit) * Sum(r) \in Int /\ total * scale \in Int /\ budget * Unit \in Int
        /\ Cardinality(D) * Unit \in Int
    BY <1>1, <1>2, <1>15
  <2>3. (2 * Unit) * Sum(r) <= 2 * (total * scale) + Cardinality(D) * Unit
    BY <1>1, <1>10, <1>11, <1>12, <1>13, <1>14, <2>1
  <2> QED
    BY <1>1, <1>2, <2>1, <2>2, <2>3
<1>17. \A o \in D : ScaledDown(EvaluateLambda(l))[o].size <= OptimalSize(curve[o], curve[o].price).size
  <2>1. ASSUME NEW o \in D
        PROVE  ScaledDown(EvaluateLambda(l))[o].size <= OptimalSize(curve[o], curve[o].price).size
    <3>1. OptimalSize(curve[o], curve[o].price).size \in Nat
      BY OptimalSizeBest DEF InputKnown, IsCurve, Sizes, D
    <3> QED
      BY <1>3, <1>4, <1>5, <3>1
  <2> QED
    BY <2>1
<1> QED
  BY <1>6, <1>16, <1>17 DEF Settled, D

-----------------------------------------------------------------------------

(* The search for the shadow price. *)

(* The bracket has been halved MaxBisections times. *)
Narrowed ==
    \E k \in 0 .. MaxDoublings :
        Abs((hi - lo) * TwoTo[MaxBisections] - FirstLambda * TwoTo[k])
           < Rounding * TwoTo[MaxBisections]

(* Past the first look the budget binds. *)
Constrained == phase \in {"bracket", "bisect", "settle"} => ~Fits(0)

(* What the last round of the bisection leaves. *)
LastRound ==
    phase = "settle" =>
        /\ best.lambda \in Nat \ {0} /\ best.positions = EvaluateLambda(best.lambda)
        /\ \/ WithinTolerance(Capital(best.lambda))
           \/ best.lambda \in {lo, hi} /\ Narrowed

SInv ==
    /\ IInv /\ InputKnown /\ Constrained /\ LastRound
    /\ BudgetUpToRounding /\ ShadowPriceSettled

(* Halved MaxBisections times, the bracket is as narrow as it gets. *)
LEMMA HalvedIsNarrow ==
    ASSUME NEW w \in Int, Halved(w, MaxBisections)
    PROVE  \E k \in 0 .. MaxDoublings :
              Abs(w * TwoTo[MaxBisections] - FirstLambda * TwoTo[k])
                 < Rounding * TwoTo[MaxBisections]
<1>1. Rounding \in Nat \ {0} /\ TwoTo[MaxBisections] \in Nat
  BY TwoToType, PortfolioAssumption
<1>2. Rounding * (TwoTo[MaxBisections] - 1) = Rounding * TwoTo[MaxBisections] - Rounding
  BY <1>1
<1>3. PICK k \in 0 .. MaxDoublings :
         Abs(w * TwoTo[MaxBisections] - FirstLambda * TwoTo[k])
            <= Rounding * (TwoTo[MaxBisections] - 1)
  BY DEF Halved
<1>4. Abs(w * TwoTo[MaxBisections] - FirstLambda * TwoTo[k]) \in Int
  <2>1. w * TwoTo[MaxBisections] \in Int /\ FirstLambda * TwoTo[k] \in Int
    BY <1>1, TwoToType, PortfolioAssumption
  <2> QED
    BY <2>1 DEF Abs
<1> QED
  BY <1>1, <1>2, <1>3, <1>4

(* What lambda chooses depends on the input alone. *)
LEMMA EvaluateStays ==
    ASSUME UNCHANGED input
    PROVE  \A l : /\ EvaluateLambda(l)' = EvaluateLambda(l) /\ Fits(l)' = Fits(l)
                  /\ WithinTolerance(l)' = WithinTolerance(l) /\ Capital(l)' = Capital(l)
BY DEF input, Fits, Capital, EvaluateLambda, WithinTolerance

LEMMA InputStays ==
    ASSUME UNCHANGED input, InputKnown
    PROVE  InputKnown'
BY DEF input, InputKnown

(* Nothing more happens to a result. *)
LEMMA DoneStays ==
    ASSUME UNCHANGED vars, SInv
    PROVE  SInv'
<1>1. UNCHANGED <<curve, budget, phase, lo, hi, rounds, closed, best, result>>
  BY DEF vars, input
<1>2. UNCHANGED input /\ IInv'
  BY StepKeeps DEF vars, SInv
<1>3. \A l : /\ EvaluateLambda(l)' = EvaluateLambda(l) /\ Fits(l)' = Fits(l)
             /\ WithinTolerance(l)' = WithinTolerance(l) /\ Capital(l)' = Capital(l)
  BY <1>2, EvaluateStays
<1>4. Constrained'
  BY <1>1, <1>3 DEF SInv, Constrained
<1>5. LastRound'
  BY <1>1, <1>3 DEF SInv, LastRound, Narrowed
<1>6. BudgetUpToRounding'
  BY <1>1, <1>3 DEF SInv, BudgetUpToRounding
<1>7. ShadowPriceSettled'
  BY <1>1, <1>3 DEF SInv, ShadowPriceSettled
<1> QED
  BY <1>2, <1>4, <1>5, <1>6, <1>7, InputStays DEF SInv

(* The initial states have the invariant, and each action keeps it. *)
LEMMA InitSearches ==
    ASSUME Init
    PROVE  SInv
<1>1. phase = "start"
  BY DEF Init
<1>2. InputKnown
  <2>1. PICK os \in SUBSET Opps : curve \in [os -> Curves]
    BY DEF Init
  <2>2. IsFiniteSet(DOMAIN curve)
    BY <2>1, FS_Subset, PortfolioAssumption
  <2>3. budget \in Nat \ {0}
    BY PortfolioAssumption DEF Init
  <2> QED
    BY <2>1, <2>2, <2>3, PortfolioAssumption DEF InputKnown
<1> QED
  BY <1>1, <1>2, InitHolds
  DEF SInv, Constrained, LastRound, BudgetUpToRounding, ShadowPriceSettled

LEMMA UnconstrainedSearches ==
    ASSUME SInv, Unconstrained
    PROVE  SInv'
<1>1. UNCHANGED input /\ UNCHANGED <<curve, budget, lo, hi, rounds>> /\ phase = "start"
  BY DEF Unconstrained, input
<1>2. IInv' /\ InputKnown'
  BY <1>1, UnconstrainedKeeps, InputStays DEF SInv
<1>3. \A l : EvaluateLambda(l)' = EvaluateLambda(l) /\ Fits(l)' = Fits(l)
  BY <1>1, EvaluateStays
<1>4. CASE Fits(0)
  <2>1. phase' = "done" /\ result' = Outcome(0, EvaluateLambda(0))
    BY <1>4 DEF Unconstrained
  <2>2. Settled(EvaluateLambda(0))
    BY <1>4, UnscaledSettled DEF SInv, Fits, Capital
  <2>3. /\ result'.shadow = 0 /\ result'.positions = EvaluateLambda(0)
        /\ result'.capital = TotalSize(EvaluateLambda(0))
    BY <2>1 DEF Outcome
  <2>4. BudgetUpToRounding'
    BY <1>1, <1>3, <2>2, <2>3 DEF BudgetUpToRounding, Settled
  <2>5. ShadowPriceSettled'
    BY <1>3, <1>4, <2>3 DEF ShadowPriceSettled
  <2> QED
    BY <1>2, <2>1, <2>4, <2>5 DEF SInv, Constrained, LastRound
<1>5. CASE ~Fits(0)
  <2>1. phase' = "bracket"
    BY <1>5 DEF Unconstrained
  <2>2. Constrained'
    BY <1>3, <1>5 DEF Constrained
  <2> QED
    BY <1>2, <2>1, <2>2 DEF SInv, LastRound, BudgetUpToRounding, ShadowPriceSettled
<1> QED
  BY <1>4, <1>5

LEMMA BracketSearches ==
    ASSUME SInv, Bracket
    PROVE  SInv'
<1>1. UNCHANGED input /\ phase = "bracket" /\ phase' \in {"bracket", "bisect"}
  BY DEF Bracket
<1>2. IInv' /\ InputKnown'
  BY <1>1, BracketKeeps, InputStays DEF SInv
<1>3. Constrained'
  BY <1>1, EvaluateStays DEF SInv, Constrained
<1> QED
  BY <1>1, <1>2, <1>3 DEF SInv, LastRound, BudgetUpToRounding, ShadowPriceSettled

LEMMA BisectSearches ==
    ASSUME SInv, Bisect
    PROVE  SInv'
<1>1. PICK mid \in Middles :
         /\ best' = [lambda |-> mid, positions |-> EvaluateLambda(mid)]
         /\ phase' = IF WithinTolerance(Capital(mid)) \/ rounds' = MaxBisections
                     THEN "settle" ELSE "bisect"
         /\ IF WithinTolerance(Capital(mid)) THEN UNCHANGED <<lo, hi, closed>>
            ELSE IF ~Fits(mid) THEN lo' = mid /\ UNCHANGED <<hi, closed>>
            ELSE hi' = mid /\ closed' = TRUE /\ UNCHANGED lo
  BY DEF Bisect
<1>2. UNCHANGED input /\ phase = "bisect" /\ phase' \in {"bisect", "settle"} /\ rounds' = rounds + 1
  BY <1>1 DEF Bisect
<1>3. IInv' /\ InputKnown'
  BY <1>2, BisectKeeps, InputStays DEF SInv
<1>4. \A l : /\ EvaluateLambda(l)' = EvaluateLambda(l) /\ Fits(l)' = Fits(l)
             /\ WithinTolerance(l)' = WithinTolerance(l) /\ Capital(l)' = Capital(l)
  BY <1>2, EvaluateStays
<1>5. Constrained'
  BY <1>2, <1>4 DEF SInv, Constrained
<1>6. /\ rounds \in 0 .. MaxBisections - 1 /\ lo \in Nat /\ hi \in Nat /\ lo <= hi
      /\ Halved(hi - lo, rounds)
  BY <1>2 DEF SInv, IInv, TypeOK, Rounds, Width, BracketHolds
<1>7. mid \in Nat \ {0} /\ Halved(mid - lo, rounds + 1) /\ Halved(hi - mid, rounds + 1)
  BY <1>6, MiddleHalves
<1>8. LastRound'
  <2>1. best'.lambda = mid /\ best'.positions = EvaluateLambda(mid)'
    BY <1>1, <1>4
  <2>2. CASE WithinTolerance(Capital(mid))
    <3>1. WithinTolerance(Capital(mid))'
      BY <1>4, <2>2
    <3> QED
      BY <1>1, <1>4, <1>7, <2>1, <3>1 DEF LastRound
  <2>3. CASE ~WithinTolerance(Capital(mid)) /\ rounds' = MaxBisections
    <3>1. \/ lo' = mid /\ hi' = hi
          \/ lo' = lo /\ hi' = mid
      BY <1>1, <2>3
    <3>2. Halved(hi' - lo', MaxBisections) /\ mid \in {lo', hi'} /\ hi' - lo' \in Int
      BY <1>2, <1>6, <1>7, <2>3, <3>1
    <3>3. Narrowed'
      BY <3>2, HalvedIsNarrow DEF Narrowed
    <3> QED
      BY <1>1, <1>4, <1>7, <2>1, <3>2, <3>3 DEF LastRound
  <2>4. CASE ~WithinTolerance(Capital(mid)) /\ rounds' # MaxBisections
    <3>1. phase' = "bisect"
      BY <1>1, <2>4
    <3> QED
      BY <3>1 DEF LastRound
  <2> QED
    BY <2>2, <2>3, <2>4
<1> QED
  BY <1>2, <1>3, <1>5, <1>8 DEF SInv, BudgetUpToRounding, ShadowPriceSettled

LEMMA SettleSearches ==
    ASSUME SInv, Settle
    PROVE  SInv'
<1> DEFINE l == best.lambda
           ps == EvaluateLambda(best.lambda)
<1>1. /\ UNCHANGED input /\ UNCHANGED <<curve, budget, lo, hi>> /\ phase = "settle" /\ phase' = "done"
      /\ best.positions = ps /\ l \in Nat \ {0} /\ ~Fits(0)
      /\ WithinTolerance(Capital(l)) \/ (l \in {lo, hi} /\ Narrowed)
  BY DEF Settle, input, SInv, LastRound, Constrained
<1>2. IInv' /\ InputKnown'
  BY <1>1, SettleKeeps, InputStays DEF SInv
<1>3. \A n : /\ EvaluateLambda(n)' = EvaluateLambda(n) /\ Fits(n)' = Fits(n)
             /\ WithinTolerance(n)' = WithinTolerance(n) /\ Capital(n)' = Capital(n)
  BY <1>1, EvaluateStays
<1>4. PICK qs : result' = Outcome(l, qs) /\ Settled(qs)
  <2>1. InputKnown /\ l \in Nat /\ TotalSize(ps) \in Nat /\ budget \in Nat
    BY <1>1, CapitalIs DEF SInv, InputKnown
  <2>2. CASE TotalSize(ps) > budget
    <3>1. result' = Outcome(l, ScaledDown(ps))
      BY <1>1, <2>2 DEF Settle
    <3>2. Settled(ScaledDown(ps))
      BY <2>1, <2>2, ScaledSettled
    <3> QED
      BY <3>1, <3>2
  <2>3. CASE ~(TotalSize(ps) > budget)
    <3>1. result' = Outcome(l, ps)
      BY <1>1, <2>3 DEF Settle
    <3>2. Settled(ps)
      BY <2>1, <2>3, UnscaledSettled
    <3> QED
      BY <3>1, <3>2
  <2> QED
    BY <2>2, <2>3
<1>5. result'.shadow = l /\ result'.positions = qs /\ result'.capital = TotalSize(qs)
  BY <1>4 DEF Outcome
<1>6. BudgetUpToRounding'
  BY <1>1, <1>3, <1>4, <1>5 DEF BudgetUpToRounding, Settled
<1>7. ShadowPriceSettled'
  <2>1. ~Fits(0)' /\ result'.shadow # 0 /\ Fits(0)' = FALSE
    BY <1>1, <1>3, <1>5 DEF Fits
  <2>2. CASE WithinTolerance(Capital(l))
    <3>1. WithinTolerance(Capital(result.shadow))'
      BY <1>3, <1>5, <2>2
    <3> QED
      BY <2>1, <3>1 DEF ShadowPriceSettled
  <2>3. CASE l \in {lo, hi} /\ Narrowed
    <3>1. result'.shadow \in {lo', hi'} /\ Narrowed'
      BY <1>1, <1>5, <2>3 DEF Narrowed
    <3> QED
      BY <2>1, <3>1 DEF ShadowPriceSettled, Narrowed
  <2> QED
    BY <1>1, <2>2, <2>3
<1> QED
  BY <1>1, <1>2, <1>6, <1>7 DEF SInv, Constrained, LastRound

(* It always holds. *)
LEMMA SearchHolds == Spec => []SInv
<1>1. Init => SInv
  BY InitSearches
<1>2. SInv /\ [Next]_vars => SInv'
  BY UnconstrainedSearches, BracketSearches, BisectSearches, SettleSearches, DoneStays
  DEF Next, Finished
<1> QED
  BY <1>1, <1>2, PTL DEF Spec

-----------------------------------------------------------------------------

(* Types, and a result that has a position for every opportunity. *)
THEOREM TypesHold == Spec => []TypeOK
<1>1. IInv => TypeOK
  BY DEF IInv
<1> QED
  BY <1>1, InvariantHolds, PTL

(* lambda's crossing stays between lo and hi, whatever the demand for       *)
(* capital looks like as a function of lambda (lib.rs:150-185).             *)
THEOREM CrossingKept == Spec => []BracketHolds
<1>1. IInv => BracketHolds
  BY DEF IInv
<1> QED
  BY <1>1, InvariantHolds, PTL

(* Sizes that lambda chose are the best use of the capital they take: no     *)
(* other way to spread as much or less over the opportunities earns more,    *)
(* for any finite set of pools, whatever their output functions              *)
(* (lib.rs:4-15, 84-116).                                                    *)
THEOREM CapitalWellUsed == Spec => []BestUseOfCapital
<1>1. ASSUME SInv, phase = "settle" PROVE BestUseOfCapital
  <2> DEFINE chosen == [o \in DOMAIN curve |-> best.positions[o].size]
  <2>1. best.lambda \in Nat /\ chosen = SizesOf(best.lambda) /\ InputKnown
    BY <1>1 DEF SInv, LastRound, SizesOf
  <2> HIDE DEF chosen
  <2>2. \A other \in Allocations :
           AllocatedCapital(other) <= AllocatedCapital(chosen) => Earned(other) <= Earned(chosen)
    BY <2>1, BestSpread
  <2> QED
    BY <2>2 DEF BestUseOfCapital, chosen
<1>2. SInv => BestUseOfCapital
  BY <1>1 DEF BestUseOfCapital
<1> QED
  BY <1>2, SearchHolds, PTL

(* The capital of the result exceeds the budget by no more than the          *)
(* rounding of the scaling, and no position is larger than the optimum of    *)
(* its own pool (lib.rs:187-194).                                            *)
THEOREM BudgetKept == Spec => []BudgetUpToRounding
<1>1. SInv => BudgetUpToRounding
  BY DEF SInv
<1> QED
  BY <1>1, SearchHolds, PTL

(* The shadow price is 0 exactly when the budget does not bind, and          *)
(* otherwise within the tolerance or at an end of a bracket that was halved  *)
(* MaxBisections times, however the middles are rounded, as long as the      *)
(* first bracket is 2^MaxBisections times wider than the rounding            *)
(* (lib.rs:136-148, 167-185).                                                *)
THEOREM PriceSettled == Spec => []ShadowPriceSettled
<1>1. SInv => ShadowPriceSettled
  BY DEF SInv
<1> QED
  BY <1>1, SearchHolds, PTL

=============================================================================
