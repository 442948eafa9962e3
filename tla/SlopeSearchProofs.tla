------------------------- MODULE SlopeSearchProofs --------------------------
(***************************************************************************)
(* Proofs about SlopeSearch, for every curve, max_size, step, resolution   *)
(* and number of iterations.                                               *)
(***************************************************************************)
EXTENDS SlopeSearch, Induction

(* What TypeOK leaves open: what is sized, that nobody has answered before  *)
(* the end, that the lower end moves only in the bisection, and that an     *)
(* error has ended the doubling that was one too many.                      *)
Underway ==
    /\ market \in Markets
    /\ phase # "done" => outcome = Pending /\ doublings <= MaxDoublings
    /\ phase \in {"probe", "bracket"} => lo = 0
    /\ phase = "bracket" => searcher # "closed"

IInv == TypeOK /\ Underway /\ BracketHolds

-----------------------------------------------------------------------------

(* A middle is a size between the ends, however it is rounded. *)
LEMMA MiddleBetween ==
    ASSUME lo \in Nat, hi \in Nat, lo <= hi, NEW mid \in Middles
    PROVE  mid \in Nat /\ lo <= mid /\ mid <= hi
<1>1. \A x, y \in Nat : x <= y =>
          /\ (x + y) \div 2 \in Nat /\ x <= (x + y) \div 2 /\ (x + y) \div 2 <= y
          /\ (x + y + 1) \div 2 \in Nat /\ x <= (x + y + 1) \div 2
          /\ x < y => (x + y + 1) \div 2 <= y
          /\ x = y => (x + y + 1) \div 2 <= y
  BY SMT
<1> QED
  BY <1>1 DEF Middles

LEMMA ClipFacts ==
    ASSUME NEW x \in Nat, limit \in Limits \cup {NoLimit}
    PROVE  Clip(x) \in Nat /\ Within(limit, Clip(x))
<1>1. limit = NoLimit \/ limit \in Nat
  BY MarketAssumption
<1> QED
  BY <1>1 DEF Clip, Smaller, Within

LEMMA FirstFacts == ASSUME step \in Steps PROVE First \in Nat /\ Longest \in Nat
<1>1. First \in Nat
  BY SlopeAssumption DEF First
<1>2. TwoTo[MaxDoublings + 1] \in Nat
  BY SlopeAssumption, TwoToRec
<1>3. \A x, y \in Nat : x * y \in Nat
  BY SMT
<1> QED
  BY <1>1, <1>2, <1>3 DEF Longest

(* The slope is a matter of what is sized, not of the search's progress. *)
LEMMA SameSlope ==
    ASSUME UNCHANGED query, NEW x
    PROVE  (SlopeKnown(x)' <=> SlopeKnown(x)) /\ (Rises(x)' <=> Rises(x))
BY DEF query, SlopeKnown, Rises, Estimates, Left, Right, UnitRises

(* A step that does not move the bracket and does not pass to the bisection *)
(* leaves what is known of its ends alone.                                  *)
LEMMA BracketUntouched ==
    ASSUME BracketHolds, UNCHANGED <<query, lo, hi>>, phase' = phase \/ phase' = "done"
    PROVE  BracketHolds'
BY SameSlope DEF BracketHolds, query

LEMMA InitHolds == Init => IInv
<1> SUFFICES ASSUME Init PROVE IInv
  OBVIOUS
<1>1. TypeOK
  BY SlopeAssumption DEF Init, TypeOK
<1>2. Underway
  BY SlopeAssumption DEF Init, Underway
<1>3. BracketHolds
  BY DEF Init, BracketHolds
<1> QED
  BY <1>1, <1>2, <1>3 DEF IInv

LEMMA ProbeStep == ASSUME IInv, Probe PROVE IInv'
<1>1. /\ phase = "probe" /\ lo = 0 /\ UNCHANGED <<query, doublings, iterations, tried>>
      /\ step \in Nat
  BY SlopeAssumption DEF IInv, Underway, TypeOK, Probe
<1>2. \/ phase' = "done" /\ UNCHANGED <<lo, hi>>
      \/ /\ UNCHANGED outcome /\ SlopeKnown(0) /\ Rises(0)
         /\ \/ /\ searcher = "closed" /\ phase' = "bisect"
               /\ \E root \in 0 .. Longest : lo' = root /\ hi' = root
            \/ /\ searcher \in {"bisection", "stable"} /\ phase' = "bracket"
               /\ hi' = First /\ UNCHANGED lo
  BY <1>1, Zenon DEF IInv, TypeOK, Searchers, Probe, Finish, QuoteFails
<1>3. lo' \in Nat /\ hi' \in Nat
  <2>1. First \in Nat /\ Longest \in Nat
    BY FirstFacts DEF IInv, TypeOK
  <2> QED
    BY <1>1, <1>2, <2>1 DEF IInv, TypeOK
<1>4. TypeOK'
  BY <1>1, <1>2, <1>3 DEF IInv, TypeOK, query
<1>5. Underway'
  BY <1>1, <1>2 DEF IInv, Underway, query
<1>6. BracketHolds'
  <2>1. CASE phase' = "bracket"
    <3>1. lo' = 0 /\ SlopeKnown(0)' /\ Rises(0)'
      BY <1>1, <1>2, <2>1, SameSlope
    <3> QED
      BY <2>1, <3>1, <1>3 DEF BracketHolds
  <2>2. CASE phase' # "bracket"
    BY <1>1, <1>2, <2>2 DEF BracketHolds, query
  <2> QED
    BY <2>1, <2>2
<1> QED
  BY <1>4, <1>5, <1>6 DEF IInv

LEMMA DoubleStep == ASSUME IInv, Double PROVE IInv'
<1>1. /\ phase = "bracket" /\ lo = 0 /\ UNCHANGED <<query, lo, tried>>
      /\ hi' = 2 * hi /\ doublings' = doublings + 1 /\ iterations' = Counted(iterations)
      /\ outcome = Pending /\ doublings <= MaxDoublings
      /\ \/ doublings' > MaxDoublings /\ phase' = "done"
         \/ ~(doublings' > MaxDoublings) /\ UNCHANGED <<phase, outcome>>
  BY DEF IInv, Underway, Double, Finish
<1>2. TypeOK'
  BY <1>1, SlopeAssumption DEF IInv, TypeOK, Counted, query
<1>3. Underway'
  BY <1>1, SlopeAssumption DEF IInv, TypeOK, Underway, query
<1>4. BracketHolds'
  BY <1>1, SameSlope DEF IInv, TypeOK, BracketHolds, query
<1> QED
  BY <1>2, <1>3, <1>4 DEF IInv

LEMMA BracketedStep == ASSUME IInv, Bracketed PROVE IInv'
<1>1. /\ phase = "bracket" /\ phase' = "bisect" /\ SlopeKnown(hi) /\ ~Rises(hi)
      /\ UNCHANGED <<query, lo, hi, doublings, iterations, tried, outcome>>
  BY DEF Bracketed
<1>2. TypeOK' /\ Underway'
  BY <1>1 DEF IInv, TypeOK, Underway, query
<1>3. BracketHolds'
  BY <1>1, SameSlope DEF IInv, BracketHolds, query
<1> QED
  BY <1>2, <1>3 DEF IInv

LEMMA BisectStep == ASSUME IInv, Bisect PROVE IInv'
<1>1. /\ phase = "bisect" /\ Wide /\ UNCHANGED <<query, doublings, tried>>
      /\ iterations' = Counted(iterations)
  BY DEF Bisect
<1>2. \/ phase' = "done" /\ UNCHANGED <<lo, hi>>
      \/ /\ UNCHANGED <<phase, outcome>>
         /\ \E mid \in Middles :
               /\ SlopeKnown(mid)
               /\ \/ Rises(mid) /\ lo' = mid /\ hi' = hi
                  \/ ~Rises(mid) /\ hi' = mid /\ lo' = lo
  BY Zenon DEF Bisect, Finish, QuoteFails
<1>3. CASE phase' = "done" /\ UNCHANGED <<lo, hi>>
  <2>1. TypeOK' /\ Underway'
    BY <1>1, <1>3 DEF IInv, TypeOK, Underway, Counted, query
  <2>2. BracketHolds'
    BY <1>1, <1>3, BracketUntouched DEF IInv
  <2> QED
    BY <2>1, <2>2 DEF IInv
<1>4. ASSUME UNCHANGED <<phase, outcome>>, NEW mid \in Middles, SlopeKnown(mid),
             \/ Rises(mid) /\ lo' = mid /\ hi' = hi
             \/ ~Rises(mid) /\ hi' = mid /\ lo' = lo
      PROVE  IInv'
  <2>1. lo \in Nat /\ hi \in Nat /\ lo <= hi
    BY <1>1, SlopeAssumption DEF IInv, TypeOK, BracketHolds, Wide
  <2>2. mid \in Nat /\ lo <= mid /\ mid <= hi
    BY <2>1, MiddleBetween
  <2>3. TypeOK' /\ Underway'
    BY <1>1, <1>4, <2>1, <2>2 DEF IInv, TypeOK, Underway, Counted, query
  <2>4. BracketHolds'
    BY <1>1, <1>4, <2>1, <2>2, SameSlope DEF IInv, BracketHolds, query
  <2> QED
    BY <2>3, <2>4 DEF IInv
<1> QED
  BY <1>2, <1>3, <1>4

(* The steps that end a search. *)
LEMMA EndStep == ASSUME IInv, FormulaFails \/ PowerRoundsAway \/ BracketFails \/ Answer PROVE IInv'
<1>1. /\ phase \in {"probe", "bracket", "bisect"} /\ phase' = "done"
      /\ UNCHANGED <<query, lo, hi, doublings, iterations>>
  BY Zenon DEF FormulaFails, PowerRoundsAway, BracketFails, Answer, Finish, QuoteFails
<1>2. tried' \in Nat
  <2>1. CASE FormulaFails \/ PowerRoundsAway \/ BracketFails
    BY <2>1 DEF FormulaFails, PowerRoundsAway, BracketFails, IInv, TypeOK
  <2>2. CASE Answer
    <3>1. PICK mid \in Middles : tried' = Clip(mid)
      BY <2>2 DEF Answer
    <3>2. mid \in Nat
      <4>1. \A x, y \in Nat : (x + y) \div 2 \in Nat /\ (x + y + 1) \div 2 \in Nat
        BY SMT
      <4> QED
        BY <4>1 DEF Middles, IInv, TypeOK
    <3> QED
      BY <3>1, <3>2, ClipFacts DEF IInv, TypeOK
  <2> QED
    BY <2>1, <2>2
<1>3. TypeOK' /\ Underway'
  BY <1>1, <1>2 DEF IInv, TypeOK, Underway, query
<1>4. BracketHolds'
  BY <1>1, BracketUntouched DEF IInv
<1> QED
  BY <1>3, <1>4 DEF IInv

LEMMA NextKeepsIInv == ASSUME IInv, [Next]_vars PROVE IInv'
<1>1. CASE UNCHANGED vars
  <2>1. TypeOK' /\ Underway'
    BY <1>1 DEF IInv, TypeOK, Underway, vars, query
  <2>2. BracketHolds'
    BY <1>1, BracketUntouched DEF IInv, vars
  <2> QED
    BY <2>1, <2>2 DEF IInv
<1> QED
  BY <1>1, ProbeStep, DoubleStep, BracketedStep, BisectStep, EndStep DEF Next, Search, Done

(* Every search has its types, and knows in every state what it needs to    *)
(* know of the two ends of its bracket.                                     *)
THEOREM InvariantOfBracket == Spec => []IInv
BY InitHolds, NextKeepsIInv, PTL DEF Spec

(* For every curve, concave or not: the size where profit stops rising is   *)
(* never dropped from the bracket.                                          *)
THEOREM BracketKept == Spec => [](TypeOK /\ BracketHolds)
<1>1. IInv => TypeOK /\ BracketHolds
  BY DEF IInv
<1> QED
  BY <1>1, InvariantOfBracket, PTL

-----------------------------------------------------------------------------
(* The size tried in the end.                                              *)

(* A product distributes over one more unit. *)
LEMMA OneMore ==
    ASSUME NEW p \in Nat, NEW n \in Nat
    PROVE  p * n \in Nat /\ p * (n + 1) = p * n + p /\ p * 0 = 0
OBVIOUS

(* Below a size that can be filled all of them can, if slopes never rise. *)
LEMMA FeasibleBelow ==
    ASSUME market \in Markets, Concave, Longest \in Nat,
           NEW y \in 0 .. Longest + 1, Feasible(market, y), NEW x \in 0 .. y
    PROVE  Feasible(market, x)
<1> DEFINE T == {n \in Nat : n <= y => Feasible(market, y - n)}
<1>1. 0 \in T
  BY Z3
<1>2. ASSUME NEW n \in Nat, n \in T PROVE n + 1 \in T
  <2>1. SUFFICES ASSUME n + 1 <= y PROVE Feasible(market, y - (n + 1))
    OBVIOUS
  <2>2. Feasible(market, y - n)
    BY <1>2, <2>1
  <2>3. CASE y - (n + 1) = 0
    <3>1. Output(market, 0) = 0
      BY MarketAssumption
    <3> QED
      BY <2>3, <3>1 DEF Feasible
  <2>4. CASE y - (n + 1) # 0
    <3>1. /\ y - n - 2 \in 0 .. Longest - 1 /\ (y - n - 2) + 2 = y - n
          /\ (y - n - 2) + 1 = y - (n + 1)
      BY <2>1, <2>4
    <3>2. Feasible(market, (y - n - 2) + 1)
      BY <2>2, <3>1 DEF Concave
    <3> QED
      BY <3>1, <3>2
  <2> QED
    BY <2>3, <2>4
<1>3. y - x \in T
  <2> HIDE DEF T
  <2>1. \A n \in Nat : n \in T
    BY <1>1, <1>2, NatSet
  <2> QED
    BY <2>1
<1>4. y - x <= y /\ y - (y - x) = x
  OBVIOUS
<1> QED
  BY <1>3, <1>4

(* Where one more unit pays, every one before it does, *)
LEMMA UnitsFall ==
    ASSUME market \in Markets, Concave, Longest \in Nat,
           NEW y \in 0 .. Longest, UnitRises(y), NEW x \in 0 .. y
    PROVE  UnitRises(x)
<1> DEFINE T == {n \in Nat : n <= y => UnitRises(y - n)}
<1>1. 0 \in T
  BY Z3
<1>2. ASSUME NEW n \in Nat, n \in T PROVE n + 1 \in T
  <2>1. SUFFICES ASSUME n + 1 <= y PROVE UnitRises(y - (n + 1))
    OBVIOUS
  <2> DEFINE z == y - (n + 1)
  <2>2. UnitRises(y - n)
    BY <1>2, <2>1
  <2>3. z \in 0 .. Longest - 1 /\ y - n = z + 1 /\ (z + 1) + 1 = z + 2
    BY <2>1
  <2> HIDE DEF z
  <2>4. /\ Feasible(market, z + 2)
        /\ Output(market, z + 2) - Output(market, z + 1) > market.price
    BY <2>2, <2>3 DEF UnitRises
  <2>5. /\ Feasible(market, z) /\ Feasible(market, z + 1)
        /\ Output(market, z + 2) - Output(market, z + 1)
              <= Output(market, z + 1) - Output(market, z)
    BY <2>3, <2>4 DEF Concave
  <2>6. market.price \in Nat
    BY MarketAssumption
  <2>7. UnitRises(z)
    BY <2>4, <2>5, <2>6 DEF UnitRises, Feasible
  <2> QED
    BY <2>7 DEF z
<1>3. y - x \in T
  <2> HIDE DEF T
  <2>1. \A n \in Nat : n \in T
    BY <1>1, <1>2, NatSet
  <2> QED
    BY <2>1
<1>4. y - x <= y /\ y - (y - x) = x
  OBVIOUS
<1> QED
  BY <1>3, <1>4

(* Every unit from x to x + n pays. *)
AllRise(x, n) == \A y \in Nat : x <= y /\ y < x + n => UnitRises(y)

(* None of them does, and they can all be filled. *)
NoneRises(x, n) ==
    /\ \A y \in Nat : x <= y /\ y <= x + n => Feasible(market, y)
    /\ \A y \in Nat : x <= y /\ y < x + n => ~UnitRises(y)

(* Units that pay earn more together than they cost, *)
LEMMA RiseAddsUp ==
    ASSUME market \in Markets, NEW x \in Nat, NEW n \in Nat \ {0}, AllRise(x, n)
    PROVE  Output(market, x + n) - Output(market, x) > market.price * n
<1> DEFINE Earns(i) == /\ Feasible(market, x) /\ Feasible(market, x + i)
                       /\ Output(market, x + i) - Output(market, x) >= market.price * i + i
           T == {i \in Nat : 0 < i /\ i <= n => Earns(i)}
<1>0. market.price \in Nat
  BY MarketAssumption
<1>1. 0 \in T
  OBVIOUS
<1>2. ASSUME NEW i \in Nat, i \in T PROVE i + 1 \in T
  <2>1. SUFFICES ASSUME i + 1 <= n PROVE Earns(i + 1)
    OBVIOUS
  <2>2. /\ Feasible(market, x + i) /\ Feasible(market, x + (i + 1))
        /\ Output(market, x + (i + 1)) - Output(market, x + i) > market.price
    <3>1. UnitRises(x + i)
      BY <2>1 DEF AllRise
    <3>2. (x + i) + 1 = x + (i + 1)
      OBVIOUS
    <3> QED
      BY <3>1, <3>2 DEF UnitRises
  <2>3. market.price * (i + 1) = market.price * i + market.price /\ market.price * i \in Nat
    BY <1>0, OneMore
  <2>4. CASE i = 0
    <3>1. market.price * 0 = 0 /\ x + 0 = x
      BY <1>0, OneMore
    <3> QED
      BY <1>0, <2>2, <2>3, <2>4, <3>1 DEF Feasible
  <2>5. CASE i # 0
    <3>1. Earns(i)
      BY <1>2, <2>1, <2>5
    <3> QED
      BY <1>0, <2>2, <2>3, <3>1 DEF Feasible
  <2> QED
    BY <2>4, <2>5
<1>3. n \in T
  <2> HIDE DEF T
  <2> QED
    BY <1>1, <1>2, NatSet
<1>4. Earns(n) /\ market.price * n \in Nat
  BY <1>0, <1>3, OneMore
<1> QED
  BY <1>4 DEF Feasible

(* and units that do not pay no more than that. *)
LEMMA FlatAddsUp ==
    ASSUME market \in Markets, NEW x \in Nat, NEW n \in Nat, NoneRises(x, n)
    PROVE  Output(market, x + n) - Output(market, x) <= market.price * n
<1> DEFINE Earns(i) == Output(market, x + i) - Output(market, x) <= market.price * i
           T == {i \in Nat : i <= n => Earns(i)}
<1>0. market.price \in Nat
  BY MarketAssumption
<1>1. 0 \in T
  <2>1. market.price * 0 = 0 /\ x + 0 = x
    BY <1>0, OneMore
  <2>2. Output(market, x) \in Nat
    BY DEF NoneRises, Feasible
  <2> QED
    BY <2>1, <2>2
<1>2. ASSUME NEW i \in Nat, i \in T PROVE i + 1 \in T
  <2>1. SUFFICES ASSUME i + 1 <= n PROVE Earns(i + 1)
    OBVIOUS
  <2>2. /\ Output(market, x) \in Nat /\ Output(market, x + i) \in Nat
        /\ Output(market, x + (i + 1)) \in Nat
    BY <2>1 DEF NoneRises, Feasible
  <2>3. Output(market, x + (i + 1)) - Output(market, x + i) <= market.price
    <3>1. ~UnitRises(x + i) /\ Feasible(market, x + i) /\ Feasible(market, x + (i + 1))
      BY <2>1 DEF NoneRises
    <3>2. (x + i) + 1 = x + (i + 1)
      OBVIOUS
    <3> QED
      BY <1>0, <2>2, <3>1, <3>2 DEF UnitRises
  <2>4. market.price * (i + 1) = market.price * i + market.price /\ market.price * i \in Nat
    BY <1>0, OneMore
  <2>5. Earns(i)
    BY <1>2, <2>1
  <2> QED
    BY <1>0, <2>2, <2>3, <2>4, <2>5
<1>3. n \in T
  <2> HIDE DEF T
  <2> QED
    BY <1>1, <1>2, NatSet
<1> QED
  BY <1>3

-----------------------------------------------------------------------------

(* The root is not beyond the upper end, where profit has stopped rising, *)
LEMMA RootBelow ==
    ASSUME market \in Markets, step \in Steps, NEW x \in Nat,
           searcher = "stable" => step > 0, SlopeKnown(x), ~Rises(x),
           NEW root \in 0 .. Longest, IsRoot(root)
    PROVE  root <= x + Blur
<1>1. \A y \in Nat : y < root => UnitRises(y)
  BY FirstFacts DEF IsRoot
<1>2. CASE searcher # "stable"
  <2>1. ~UnitRises(x)
    BY <1>2 DEF Rises
  <2>2. ~(x < root)
    BY <1>1, <2>1
  <2> QED
    BY <1>2, <2>2, FirstFacts DEF Blur
<1>3. CASE searcher = "stable"
  <2>1. step \in Nat \ {0} /\ Estimates /\ Blur = step
    BY <1>3, SlopeAssumption DEF Estimates, Blur
  <2> DEFINE n == Right(x) - Left(x)
  <2>2. Left(x) \in Nat /\ n \in Nat \ {0} /\ Left(x) + n = Right(x) /\ Right(x) = x + step
    BY <2>1 DEF Left, Right
  <2>3. ~(Output(market, Right(x)) - Output(market, Left(x)) > market.price * n)
    BY <1>3, <2>1 DEF Rises
  <2> HIDE DEF n
  <2>4. ASSUME root > x + step PROVE FALSE
    <3>1. AllRise(Left(x), n)
      BY <1>1, <2>2, <2>4, FirstFacts DEF AllRise
    <3>2. Output(market, Left(x) + n) - Output(market, Left(x)) > market.price * n
      BY <2>2, <3>1, RiseAddsUp
    <3> QED
      BY <2>2, <2>3, <3>2
  <2> QED
    BY <2>1, <2>4, FirstFacts
<1> QED
  BY <1>2, <1>3

(* nor below the lower end, where it still rises. *)
LEMMA RootAbove ==
    ASSUME market \in Markets, step \in Steps, Concave, NEW x \in Nat,
           searcher = "stable" => step > 0, SlopeKnown(x), Rises(x), x + Blur <= Longest,
           NEW root \in 0 .. Longest, IsRoot(root)
    PROVE  x <= root + Blur
<1>0. Longest \in Nat
  BY FirstFacts
<1>1. \A y \in Nat : root <= y /\ y <= Longest => ~UnitRises(y)
  <2>1. ASSUME NEW y \in Nat, root <= y, y <= Longest, UnitRises(y) PROVE FALSE
    <3>1. UnitRises(root)
      BY <1>0, <2>1, UnitsFall
    <3> QED
      BY <3>1 DEF IsRoot
  <2> QED
    BY <2>1
<1>2. CASE searcher # "stable"
  <2>1. UnitRises(x) /\ Blur = 0
    BY <1>2 DEF Rises, Blur
  <2>2. ~(root <= x)
    BY <1>0, <1>1, <2>1
  <2> QED
    BY <1>0, <2>1, <2>2
<1>3. CASE searcher = "stable"
  <2>1. step \in Nat \ {0} /\ Estimates /\ Blur = step
    BY <1>3, SlopeAssumption DEF Estimates, Blur
  <2> DEFINE n == Right(x) - Left(x)
  <2>2. Left(x) \in Nat /\ n \in Nat \ {0} /\ Left(x) + n = Right(x) /\ Right(x) = x + step
    BY <2>1 DEF Left, Right
  <2>3. /\ Output(market, Right(x)) - Output(market, Left(x)) > market.price * n
        /\ Feasible(market, Left(x)) /\ Feasible(market, Right(x))
    BY <1>3, <2>1 DEF Rises, SlopeKnown
  <2> HIDE DEF n
  <2>4. ASSUME x > root + step PROVE FALSE
    <3>1. root <= Left(x)
      BY <1>0, <2>1, <2>4 DEF Left
    <3>2. \A y \in Nat : y <= Left(x) + n => Feasible(market, y)
      <4>1. Right(x) \in 0 .. Longest + 1
        BY <1>0, <2>1, <2>2
      <4> QED
        BY <1>0, <2>2, <2>3, <4>1, FeasibleBelow
    <3>3. NoneRises(Left(x), n)
      <4>1. Left(x) + n <= Longest
        BY <2>1, <2>2
      <4> QED
        BY <1>0, <1>1, <2>2, <3>1, <3>2, <4>1 DEF NoneRises
    <3>4. Output(market, Left(x) + n) - Output(market, Left(x)) <= market.price * n
      BY <2>2, <3>3, FlatAddsUp
    <3>5. market.price * n \in Nat
      <4>1. market.price \in Nat
        BY MarketAssumption
      <4> QED
        BY <2>2, <4>1, OneMore
    <3> QED
      BY <2>2, <2>3, <3>4, <3>5 DEF Feasible
  <2> QED
    BY <1>0, <2>1, <2>4
<1> QED
  BY <1>2, <1>3

(* What NearRoot needs to know of a search on its way: the upper end is the *)
(* first one doubled, so that it stays within Longest, where Concave speaks *)
(* of the slopes, and for the closed forms both ends are the root.          *)
Untried == phase # "done" => tried = 0

Doubled ==
    /\ phase = "probe" => doublings = 0
    /\ phase = "bracket" => hi = First * TwoTo[doublings]

InReach == (phase = "bisect" /\ searcher # "closed") => hi + First <= Longest

AtRoot == (phase = "bisect" /\ searcher = "closed") => lo = hi /\ IsRoot(lo)

NInv == IInv /\ Untried /\ Doubled /\ InReach /\ AtRoot /\ NearRoot

(* What a root is, and where it is looked for, depends on what is sized. *)
LEMMA SameRoots ==
    ASSUME UNCHANGED query
    PROVE  /\ First' = First /\ Longest' = Longest /\ Blur' = Blur
           /\ Concave' <=> Concave
           /\ \A x : (IsRoot(x)' <=> IsRoot(x)) /\ Clip(x)' = Clip(x)
BY DEF query, First, Longest, Blur, Concave, IsRoot, UnitRises, Clip

(* An upper end has room for a step beyond it. *)
LEMMA DoubledInReach ==
    ASSUME step \in Steps, NEW n \in 0 .. MaxDoublings
    PROVE  First * TwoTo[n] + First <= Longest
<1>1. /\ First \in Nat /\ MaxDoublings \in Nat /\ MaxDoublings + 1 \in Nat
      /\ TwoTo[n] \in Nat \ {0} /\ TwoTo[MaxDoublings + 1] \in Nat
  BY FirstFacts, SlopeAssumption, TwoToRec
<1>2. TwoTo[n] + 1 <= TwoTo[MaxDoublings + 1]
  <2>1. TwoTo[n + 1] = 2 * TwoTo[n] /\ TwoTo[n + 1] <= TwoTo[MaxDoublings + 1]
    BY <1>1, TwoToRec, TwoToGrows
  <2> QED
    BY <1>1, <2>1
<1>3. \A f, p, q \in Nat : p + 1 <= q => f * p + f <= f * q
  BY SMT
<1> QED
  BY <1>1, <1>2, <1>3 DEF Longest

(* Two sizes are no further apart within max_size. *)
LEMMA ClipContracts ==
    ASSUME limit \in Limits \cup {NoLimit}, NEW x \in Nat, NEW y \in Nat, NEW w \in Nat,
           x <= y + w, y <= x + w
    PROVE  Clip(x) <= Clip(y) + w /\ Clip(y) <= Clip(x) + w
<1>1. limit = NoLimit \/ limit \in Nat
  BY MarketAssumption
<1> QED
  BY <1>1 DEF Clip, Smaller

(* The root is no further from a middle than the bracket is wide. *)
LEMMA MiddleNearRoot ==
    ASSUME NInv, phase = "bisect", Concave, NEW mid \in Middles,
           NEW root \in 0 .. Longest, IsRoot(root)
    PROVE  root <= mid + (hi - lo + Blur) /\ mid <= root + (hi - lo + Blur)
<1>1. /\ market \in Markets /\ step \in Steps /\ lo \in Nat /\ hi \in Nat
      /\ First \in Nat /\ Longest \in Nat /\ root \in Nat
  BY FirstFacts DEF NInv, IInv, TypeOK, Underway
<1>2. lo <= hi
  BY <1>1 DEF NInv, IInv, BracketHolds, AtRoot
<1>3. mid \in Nat /\ lo <= mid /\ mid <= hi
  BY <1>1, <1>2, MiddleBetween
<1>4. Blur \in Nat
  BY <1>1, SlopeAssumption DEF Blur
<1>5. CASE searcher = "closed"
  <2>1. IsRoot(lo) /\ lo = hi
    BY <1>5 DEF NInv, AtRoot
  <2>2. ~(root < lo) /\ ~(lo < root)
    BY <1>1, <2>1 DEF IsRoot
  <2> QED
    BY <1>1, <1>3, <1>4, <2>1, <2>2
<1>6. CASE searcher # "closed"
  <2>1. SlopeKnown(lo) /\ Rises(lo) /\ SlopeKnown(hi) /\ ~Rises(hi)
    BY <1>6 DEF NInv, IInv, BracketHolds
  <2>2. searcher = "stable" => step > 0
    BY <2>1 DEF Rises, Estimates
  <2>3. root <= hi + Blur
    BY <1>1, <2>1, <2>2, RootBelow
  <2>4. lo + Blur <= Longest
    <3>1. Blur <= First
      BY <1>1, SlopeAssumption DEF Blur, First
    <3>2. hi + First <= Longest
      BY <1>6 DEF NInv, InReach
    <3> QED
      BY <1>1, <1>2, <1>4, <3>1, <3>2
  <2>5. lo <= root + Blur
    BY <1>1, <2>1, <2>2, <2>4, RootAbove
  <2> QED
    BY <1>1, <1>2, <1>3, <1>4, <2>3, <2>5
<1> QED
  BY <1>5, <1>6

(* The answer is as near as the tolerance and the step of the differences. *)
LEMMA AnswerIsNear ==
    ASSUME NInv, Answer
    PROVE  NearRoot'
<1>1. phase = "bisect" /\ ~Wide /\ UNCHANGED <<query, lo, hi>>
  BY DEF Answer
<1>2. PICK mid \in Middles : tried' = Clip(mid)
  BY DEF Answer
<1> SUFFICES ASSUME Concave, NEW root \in 0 .. Longest, IsRoot(root)
             PROVE  /\ Resolution * (Clip(root) - tried' - Blur) <= hi
                    /\ Resolution * (tried' - Clip(root) - Blur) <= hi
  BY <1>1, SameRoots DEF NearRoot
<1>3. /\ lo \in Nat /\ hi \in Nat /\ limit \in Limits \cup {NoLimit}
      /\ root \in Nat /\ step \in Steps
  BY FirstFacts DEF NInv, IInv, TypeOK
<1>4. lo <= hi /\ mid \in Nat
  <2>1. lo <= hi
    BY <1>1, <1>3 DEF NInv, IInv, BracketHolds, AtRoot
  <2> QED
    BY <1>3, <2>1, MiddleBetween
<1>5. Blur \in Nat
  BY <1>3, SlopeAssumption DEF Blur
<1> DEFINE w == hi - lo
<1>6. w \in Nat /\ root <= mid + (w + Blur) /\ mid <= root + (w + Blur)
  BY <1>1, <1>3, <1>4, MiddleNearRoot
<1>7. Resolution \in Nat /\ Resolution * w <= hi
  BY <1>1, <1>3, <1>4, SlopeAssumption DEF Wide
<1>8. /\ Clip(root) \in Nat /\ Clip(mid) \in Nat
      /\ Clip(root) <= Clip(mid) + (w + Blur) /\ Clip(mid) <= Clip(root) + (w + Blur)
  <2> HIDE DEF w
  <2>1. w + Blur \in Nat
    BY <1>5, <1>6
  <2> QED
    BY <1>3, <1>4, <1>6, <2>1, ClipContracts, ClipFacts
<1> HIDE DEF w
<1>9. Clip(root) - tried' - Blur <= w /\ tried' - Clip(root) - Blur <= w
  BY <1>2, <1>5, <1>6, <1>8
<1>10. ASSUME NEW x \in Int, x <= w PROVE Resolution * x <= hi
  <2>1. ASSUME NEW r \in Nat, NEW y \in Int, NEW z \in Nat, y <= z PROVE r * y <= r * z
    BY <2>1
  <2>2. Resolution * x <= Resolution * w
    BY <1>6, <1>7, <1>10, <2>1
  <2>3. Resolution * x \in Int /\ Resolution * w \in Int
    BY <1>6, <1>7
  <2> QED
    BY <1>3, <1>7, <2>2, <2>3
<1>11. Clip(root) - tried' - Blur \in Int /\ tried' - Clip(root) - Blur \in Int
  BY <1>2, <1>5, <1>8
<1> QED
  BY <1>9, <1>10, <1>11

(* Every step keeps the invariant. *)
LEMMA NearStep ==
    ASSUME NInv, [Next]_vars
    PROVE  NInv'
<1>0. IInv'
  BY NextKeepsIInv DEF NInv
<1>1. CASE Probe
  <2>1. phase = "probe" /\ tried' = tried /\ tried = 0 /\ UNCHANGED <<query, doublings>>
    BY <1>1 DEF Probe, NInv, Untried
  <2>2. /\ doublings = 0 /\ First \in Nat /\ step \in Steps
    BY <2>1, FirstFacts DEF NInv, IInv, TypeOK, Doubled
  <2>3. \/ phase' = "done"
        \/ /\ phase' = "bisect" /\ searcher = "closed"
           /\ \E root \in 0 .. Longest : IsRoot(root) /\ lo' = root /\ hi' = root
        \/ phase' = "bracket" /\ searcher # "closed" /\ hi' = First
    BY <1>1, Zenon DEF Probe, Finish, QuoteFails
  <2>4. Doubled' /\ InReach' /\ AtRoot'
    BY <2>1, <2>2, <2>3, SameRoots, TwoToRec DEF Doubled, InReach, AtRoot, query
  <2> QED
    BY <1>0, <2>1, <2>4 DEF NInv, Untried, NearRoot
<1>2. CASE FormulaFails \/ PowerRoundsAway \/ BracketFails
  <2>1. /\ phase \in {"probe", "bracket"} /\ phase' = "done" /\ tried' = tried /\ tried = 0
    BY <1>2, Zenon DEF FormulaFails, PowerRoundsAway, BracketFails, Finish, QuoteFails, NInv, Untried
  <2> QED
    BY <1>0, <2>1 DEF NInv, Untried, Doubled, InReach, AtRoot, NearRoot
<1>3. CASE Double
  <2>1. /\ phase = "bracket" /\ phase' \in {"bracket", "done"} /\ tried' = tried /\ tried = 0
        /\ UNCHANGED query /\ hi' = 2 * hi /\ doublings' = doublings + 1
    BY <1>3 DEF Double, Finish, NInv, Untried
  <2>2. hi = First * TwoTo[doublings] /\ doublings \in Nat /\ First \in Nat
    BY <2>1, FirstFacts, SlopeAssumption DEF NInv, IInv, TypeOK, Doubled
  <2>3. hi' = First * TwoTo[doublings']
    <3>1. TwoTo[doublings + 1] = 2 * TwoTo[doublings] /\ TwoTo[doublings] \in Nat
      BY <2>2, TwoToRec
    <3>2. \A f, p \in Nat : 2 * (f * p) = f * (2 * p)
      BY SMT
    <3> QED
      BY <2>1, <2>2, <3>1, <3>2
  <2>4. First' = First
    BY <2>1, SameRoots
  <2> QED
    BY <1>0, <2>1, <2>3, <2>4 DEF NInv, Untried, Doubled, InReach, AtRoot, NearRoot
<1>4. CASE Bracketed
  <2>1. /\ phase = "bracket" /\ phase' = "bisect" /\ tried' = tried /\ tried = 0
        /\ UNCHANGED query /\ UNCHANGED <<searcher, hi>> /\ searcher # "closed"
    BY <1>4 DEF Bracketed, query, NInv, Untried, IInv, Underway
  <2>2. doublings \in 0 .. MaxDoublings /\ step \in Steps /\ hi = First * TwoTo[doublings]
    BY <2>1, SlopeAssumption DEF NInv, IInv, TypeOK, Underway, Doubled
  <2>3. hi' + First' <= Longest'
    <3>1. First' = First /\ Longest' = Longest
      BY <2>1, SameRoots
    <3> QED
      BY <2>1, <2>2, <3>1, DoubledInReach
  <2> QED
    BY <1>0, <2>1, <2>3 DEF NInv, Untried, Doubled, InReach, AtRoot, NearRoot
<1>5. CASE Bisect
  <2>1. /\ phase = "bisect" /\ Wide /\ phase' \in {"bisect", "done"} /\ tried' = tried /\ tried = 0
        /\ UNCHANGED query /\ UNCHANGED searcher
    BY <1>5, Zenon DEF Bisect, query, Finish, QuoteFails, NInv, Untried
  <2>2. lo \in Nat /\ hi \in Nat /\ First \in Nat /\ Longest \in Nat
    BY FirstFacts DEF NInv, IInv, TypeOK
  <2>3. searcher # "closed"
    <3>1. CASE lo = hi
      <4>1. hi - lo = 0 /\ Resolution * 0 = 0
        BY <2>2, <3>1, SlopeAssumption
      <4> QED
        BY <2>1, <2>2, <4>1 DEF Wide
    <3>2. CASE lo # hi
      BY <2>1, <3>2 DEF NInv, AtRoot
    <3> QED
      BY <3>1, <3>2
  <2>4. lo <= hi /\ hi + First <= Longest
    BY <2>1, <2>3 DEF NInv, IInv, BracketHolds, InReach
  <2>5. hi' \in Nat /\ hi' <= hi
    <3>1. \A mid \in Middles : mid \in Nat /\ mid <= hi
      BY <2>2, <2>4, MiddleBetween
    <3>2. hi' = hi \/ \E mid \in Middles : hi' = mid
      BY <1>5 DEF Bisect
    <3> QED
      BY <2>2, <3>1, <3>2
  <2>6. hi' + First' <= Longest'
    <3>1. First' = First /\ Longest' = Longest
      BY <2>1, SameRoots
    <3>2. hi' + First <= Longest
      <4>1. \A x, y, f, z \in Nat : x <= y /\ y + f <= z => x + f <= z
        BY SMT
      <4> QED
        BY <2>2, <2>4, <2>5, <4>1
    <3> QED
      BY <3>1, <3>2
  <2> QED
    BY <1>0, <2>1, <2>3, <2>6 DEF NInv, Untried, Doubled, InReach, AtRoot, NearRoot
<1>6. CASE Answer
  <2>1. phase' = "done"
    BY <1>6, Zenon DEF Answer, Finish, QuoteFails
  <2> QED
    BY <1>0, <1>6, <2>1, AnswerIsNear DEF NInv, Untried, Doubled, InReach, AtRoot
<1>7. CASE UNCHANGED vars
  <2>1. UNCHANGED query /\ UNCHANGED <<searcher, phase, lo, hi, doublings, tried>>
    BY <1>7 DEF vars, query
  <2> QED
    BY <1>0, <2>1, SameRoots DEF NInv, Untried, Doubled, InReach, AtRoot, NearRoot
<1> QED
  BY <1>1, <1>2, <1>3, <1>4, <1>5, <1>6, <1>7 DEF Next, Search, Done

(* For every curve whose slopes never rise, in each of the three searches: *)
(* the size tried in the end is the root of the marginal profit, clipped   *)
(* to max_size, up to the tolerance and the step of StableSwap's           *)
(* differences, wherever the doubling stops and however the middles are    *)
(* rounded (cpmm.rs:111-122, stableswap.rs:379-398).                       *)
THEOREM SizeIsNearRoot == Spec => []NearRoot
<1>1. Init => NInv
  BY InitHolds DEF Init, NInv, Untried, Doubled, InReach, AtRoot, NearRoot
<1>2. NInv => NearRoot
  BY DEF NInv
<1> QED
  BY <1>1, <1>2, NearStep, PTL DEF Spec

-----------------------------------------------------------------------------
(* The contract.                                                           *)

LEMMA SameMarket ==
    ASSUME NEW m, NEW x
    PROVE  /\ Contract!Output(m, x) = Output(m, x)
           /\ Contract!Feasible(m, x) = Feasible(m, x)
           /\ Contract!NetProfit(m, x) = NetProfit(m, x)
           /\ Contract!WorthStarting(m) = WorthStarting(m)
           /\ Contract!Within(m, x) = Within(m, x)
BY DEF Contract!Output, Output, Contract!Quote, Quote, Contract!Feasible, Feasible,
       Contract!NetProfit, NetProfit, Contract!WorthStarting, WorthStarting,
       Contract!Within, Within

(* The answer as the contract sees it. *)
Shown == IF Denies THEN Pending ELSE outcome

LEMMA ShownStays ==
    ASSUME UNCHANGED <<query, outcome>>
    PROVE  UNCHANGED <<market, limit, Shown>>
<1>1. UNCHANGED <<market, limit, searcher>> /\ (RoundedAway' <=> RoundedAway)
  BY SameRoots DEF query, RoundedAway
<1> QED
  BY <1>1 DEF Shown, Denies

LEMMA RefusalKeepsContract ==
    ASSUME IInv, phase # "done", UNCHANGED query, NEW e \in Errors, outcome' = Err(e),
           e = "NoArbitrageOpportunity" =>
               searcher = "stable" \/ RoundedAway \/ ~WorthStarting(market)
    PROVE  [Contract!Next]_<<market, limit, Shown>>
<1>1. Shown = Pending /\ UNCHANGED <<market, limit, searcher>> /\ (RoundedAway' <=> RoundedAway)
  BY SameRoots DEF IInv, Underway, Shown, Denies, Pending, Err, query, RoundedAway
<1>2. CASE e = "NoArbitrageOpportunity" /\ (searcher = "stable" \/ RoundedAway)
  BY <1>1, <1>2 DEF Shown, Denies
<1>3. CASE ~(e = "NoArbitrageOpportunity" /\ (searcher = "stable" \/ RoundedAway))
  <2>1. Shown' = Err(e)
    BY <1>1, <1>3 DEF Shown, Denies, Err
  <2>2. Contract!Refuse(e)
    BY <1>1, <1>3, <2>1, SameMarket
    DEF Contract!Refuse, Contract!Pending, Contract!Err, Pending, Err, Shown
  <2> QED
    BY <2>2 DEF Contract!Next, Contract!Errors, Errors
<1> QED
  BY <1>2, <1>3

LEMMA AnswerKeepsContract ==
    ASSUME IInv, Answer PROVE [Contract!Next]_<<market, limit, Shown>>
<1>1. /\ phase = "bisect" /\ UNCHANGED query /\ UNCHANGED <<market, limit>>
      /\ market \in Markets /\ Shown = Pending
  BY DEF Answer, query, IInv, Underway, Shown
<1>2. PICK mid \in Middles : tried' = Clip(mid)
  BY DEF Answer
<1>3. tried' \in Nat /\ Within(limit, tried')
  <2>1. mid \in Nat
    <3>1. \A x, y \in Nat : (x + y) \div 2 \in Nat /\ (x + y + 1) \div 2 \in Nat
      BY SMT
    <3> QED
      BY <3>1 DEF Middles, IInv, TypeOK
  <2> QED
    BY <1>2, <2>1, ClipFacts DEF IInv, TypeOK
<1>4. ASSUME outcome' = Ok(tried', NetProfit(market, tried')), tried' # 0,
             Feasible(market, tried'), ~(NetProfit(market, tried') <= 0)
      PROVE  Contract!Next
  <2>1. NetProfit(market, tried') > 0
    <3>1. market.price \in Nat /\ market.fixed \in Nat /\ Output(market, tried') \in Nat
      BY <1>1, <1>4, MarketAssumption DEF Feasible
    <3>2. market.price * tried' \in Int
      BY <1>3, <3>1
    <3>3. NetProfit(market, tried') \in Int
      BY <3>1, <3>2 DEF NetProfit
    <3> QED
      BY <1>4, <3>3
  <2>2. Shown' = outcome' /\ outcome'.kind = "ok" /\ outcome'.size = tried'
    BY <1>4 DEF Shown, Denies, Ok, Err
  <2>3. Contract!Accept(tried')
    BY <1>1, <1>3, <1>4, <2>1, <2>2, SameMarket
    DEF Contract!Accept, Contract!Pending, Pending, Contract!Ok, Ok, Shown
  <2> QED
    BY <1>3, <1>4, <2>2, <2>3 DEF Contract!Next, Shown
<1>5. /\ "NoProfitableSize" \in Errors /\ QuoteErrors \subseteq Errors
      /\ "NoArbitrageOpportunity" \notin QuoteErrors
  BY DEF Errors, QuoteErrors
<1>6. \/ outcome' = Err("NoProfitableSize") \/ \E e \in QuoteErrors : outcome' = Err(e)
      \/ /\ outcome' = Ok(tried', NetProfit(market, tried')) /\ tried' # 0
         /\ Feasible(market, tried') /\ ~(NetProfit(market, tried') <= 0)
  BY Zenon DEF Answer, Finish, QuoteFails
<1> QED
  BY <1>1, <1>4, <1>5, <1>6, RefusalKeepsContract

LEMMA StepKeepsContract ==
    ASSUME IInv, [Next]_vars PROVE [Contract!Next]_<<market, limit, Shown>>
<1>1. CASE Probe
  <2>1. /\ phase = "probe" /\ UNCHANGED query
        /\ \/ outcome' = Err("InvalidReserves")
           \/ \E e \in QuoteErrors : outcome' = Err(e)
           \/ ~Rises(0) /\ outcome' = Err("NoArbitrageOpportunity")
           \/ UNCHANGED outcome
    BY <1>1, Zenon DEF Probe, Finish, QuoteFails
  <2>2. ~Rises(0) => searcher = "stable" \/ ~WorthStarting(market)
    <3>1. Output(market, 0) = 0 /\ market.price \in Nat
      BY MarketAssumption DEF IInv, Underway
    <3>2. 0 + 1 = 1 /\ Feasible(market, 0)
          /\ (Feasible(market, 1) => Output(market, 1) - 0 = Output(market, 1))
      BY <3>1 DEF Feasible
    <3> QED
      BY <3>1, <3>2 DEF Rises, UnitRises, WorthStarting
  <2>3. /\ "NoArbitrageOpportunity" \in Errors /\ "InvalidReserves" \in Errors
        /\ QuoteErrors \subseteq Errors /\ "NoArbitrageOpportunity" \notin QuoteErrors
    BY DEF Errors, QuoteErrors
  <2>4. CASE UNCHANGED outcome
    BY <2>1, <2>4, ShownStays
  <2>5. CASE ~ UNCHANGED outcome
    BY <2>1, <2>2, <2>3, <2>5, RefusalKeepsContract
  <2> QED
    BY <2>4, <2>5
<1>2. CASE Double
  <2>1. /\ phase = "bracket" /\ UNCHANGED query
        /\ \/ outcome' = Err("DidNotConverge") \/ outcome' = Err("InvalidReserves")
           \/ UNCHANGED outcome
    BY <1>2 DEF Double, Finish
  <2>2. "DidNotConverge" \in Errors /\ "InvalidReserves" \in Errors
    BY DEF Errors
  <2>3. CASE UNCHANGED outcome
    BY <2>1, <2>3, ShownStays
  <2> QED
    BY <2>1, <2>2, <2>3, RefusalKeepsContract
<1>3. CASE Bracketed
  BY <1>3, ShownStays DEF Bracketed
<1>4. CASE BracketFails
  <2>1. /\ phase = "bracket" /\ UNCHANGED query
        /\ \E e \in QuoteErrors : outcome' = Err(e)
    BY <1>4, Zenon DEF BracketFails, Finish, QuoteFails
  <2>2. QuoteErrors \subseteq Errors /\ "NoArbitrageOpportunity" \notin QuoteErrors
    BY DEF Errors, QuoteErrors
  <2> QED
    BY <2>1, <2>2, RefusalKeepsContract
<1>5. CASE FormulaFails
  <2>1. phase = "probe" /\ UNCHANGED query /\ outcome' = Err("InvalidReserves")
    BY <1>5 DEF FormulaFails, Finish
  <2>2. "InvalidReserves" \in Errors
    BY DEF Errors
  <2> QED
    BY <2>1, <2>2, RefusalKeepsContract
<1>6. CASE Bisect
  <2>1. /\ phase = "bisect" /\ UNCHANGED query
        /\ \/ outcome' = Err("DidNotConverge")
           \/ \E e \in QuoteErrors : outcome' = Err(e)
           \/ UNCHANGED outcome
    BY <1>6, Zenon DEF Bisect, Finish, QuoteFails
  <2>2. /\ "DidNotConverge" \in Errors
        /\ QuoteErrors \subseteq Errors /\ "NoArbitrageOpportunity" \notin QuoteErrors
    BY DEF Errors, QuoteErrors
  <2>3. CASE UNCHANGED outcome
    BY <2>1, <2>3, ShownStays
  <2> QED
    BY <2>1, <2>2, <2>3, RefusalKeepsContract
<1>7. CASE Answer
  BY <1>7, AnswerKeepsContract
<1>8. CASE UNCHANGED vars
  BY <1>8, ShownStays DEF vars
<1>9. CASE PowerRoundsAway
  <2>1. /\ phase = "probe" /\ UNCHANGED query /\ RoundedAway
        /\ outcome' = Err("NoArbitrageOpportunity")
    BY <1>9 DEF PowerRoundsAway, Finish
  <2>2. "NoArbitrageOpportunity" \in Errors
    BY DEF Errors
  <2> QED
    BY <2>1, <2>2, RefusalKeepsContract
<1> QED
  BY <1>1, <1>2, <1>3, <1>4, <1>5, <1>6, <1>7, <1>8, <1>9 DEF Next, Search, Done

(* For every curve, max_size and fixed cost: one answer, within max_size,   *)
(* with the profit of the size it names, and "no arbitrage" from a closed   *)
(* form or from bisection_fallback only where there is none, or none that   *)
(* the precision of a power shows.                                          *)
THEOREM SlopesKeepContract == Spec => MeetsContract
<1>1. Init => Contract!Init
  BY MarketAssumption, SameMarket
  DEF Init, Contract!Init, Contract!Pending, Pending, Denies
<1>2. Shown = (IF Denies THEN Pending ELSE outcome)
  BY DEF Shown
<1>3. ASSUME IInv, [Next]_vars
      PROVE  [Contract!Next]_<<market, limit, IF Denies THEN Pending ELSE outcome>>
  BY <1>3, StepKeepsContract DEF Shown
<1> QED
  BY <1>1, <1>3, InvariantOfBracket, PTL
  DEF Spec, MeetsContract, Contract!Spec

=============================================================================
