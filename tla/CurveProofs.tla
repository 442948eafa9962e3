---------------------------- MODULE CurveProofs -----------------------------
(***************************************************************************)
(* Proofs about how the curves of crates/sizing-core/src/curves quote and  *)
(* search: about GoldenSection, for every market, max_size, depth of the   *)
(* search and upper end, and about Quotes, for every pool and size.        *)
(***************************************************************************)
EXTENDS GoldenSection, Quotes, Induction

LEMMA MissIsInt ==
    ASSUME NEW s \in Searchers, NEW m \in Markets, NEW x \in Nat
    PROVE  Miss(s, m, x) \in Int
<1>1. m.price \in Nat
  BY MarketAssumption
<1>2. -(m.price * x) \in Int
  BY <1>1
<1> QED
  BY <1>2, GoldenAssumption DEF Miss, Searchers

(* What the search compares are numbers. *)
LEMMA GrossIsInt ==
    ASSUME NEW s \in Searchers, NEW m \in Markets, NEW x \in Nat
    PROVE  Gross(s, m, x) \in Int
<1>1. m.price \in Nat
  BY MarketAssumption
<1>2. m.price * x \in Int
  BY <1>1
<1>3. Feasible(m, x) => Output(m, x) \in Nat
  BY DEF Feasible
<1> QED
  BY <1>2, <1>3, MissIsInt DEF Gross

(* The division by the bound's unit undoes at most the multiplication. *)
LEMMA DivisionFloor ==
    ASSUME NEW n \in Nat, NEW q \in Nat \ {0}
    PROVE  n \div q \in Nat /\ q * (n \div q) <= n
BY SMT

-----------------------------------------------------------------------------
(* The shape of the interval: it stays inside 0 .. Upper, divided in the   *)
(* ratio of two neighbouring Fibonacci numbers, with the values of its two *)
(* inner points at hand.                                                   *)

Inside ==
    /\ k \in 1 .. Depth - 1
    /\ long = Fib[k] * bound /\ short = Fib[k - 1] * bound
    /\ a + long + short <= Upper

Limited == (ClipsInterval(searcher) /\ limit # NoLimit) => Upper <= limit

Searching == phase = "search" => Inside /\ Limited /\ ValuesAreCurrent

Types ==
    /\ market \in Markets /\ limit \in Limits \cup {NoLimit} /\ searcher \in Searchers
    /\ (searcher = "route") = (Len(market.legs) >= 2)
    /\ phase \in {"probe", "bracket", "search", "done"}
    /\ bound \in 0 .. 2 * MaxBound
    /\ phase \in {"probe", "bracket"} => bound \in 1 .. MaxBound
    /\ a \in Nat /\ long \in Nat /\ short \in Nat
    /\ phase # "done" => outcome = Pending

IInv == Types /\ Searching /\ PeakKept

LEMMA FibFacts ==
    /\ Depth \in Nat /\ Depth >= 2
    /\ \A n \in 0 .. Depth : Fib[n] \in Nat \ {0}
    /\ \A n \in 2 .. Depth : Fib[n] = Fib[n - 1] + Fib[n - 2]
    /\ Fib[0] = 1 /\ Fib[1] = 1
BY GoldenAssumption

LEMMA FibGrows ==
    ASSUME NEW n \in 1 .. Depth PROVE Fib[n - 1] <= Fib[n]
<1>1. CASE n = 1
  BY <1>1, FibFacts
<1>2. CASE n # 1
  <2>1. n \in 2 .. Depth /\ n - 1 \in 0 .. Depth /\ n - 2 \in 0 .. Depth
    BY <1>2, FibFacts
  <2> QED
    BY <2>1, FibFacts
<1> QED
  BY <1>1, <1>2

(* The parts of an interval that Divide or Narrow makes. *)
LEMMA PartsOfInterval ==
    ASSUME NEW n \in 1 .. Depth - 1, NEW w \in Nat
    PROVE  /\ Fib[n] * w \in Nat /\ Fib[n - 1] * w \in Nat
           /\ Fib[n - 1] * w <= Fib[n] * w
           /\ Fib[n] * w + Fib[n - 1] * w = Fib[n + 1] * w
           /\ w \in Nat \ {0} /\ n >= 2 => Fib[n - 1] * w < Fib[n] * w
<1>1. n \in 0 .. Depth /\ n - 1 \in 0 .. Depth /\ n + 1 \in 2 .. Depth /\ n \in 1 .. Depth
  BY FibFacts
<1>2. Fib[n] \in Nat \ {0} /\ Fib[n - 1] \in Nat \ {0} /\ Fib[n + 1] \in Nat \ {0}
  BY <1>1, FibFacts
<1>3. Fib[n - 1] <= Fib[n]
  BY <1>1, FibGrows
<1>4. Fib[n + 1] = Fib[n] + Fib[n - 1]
  <2>1. (n + 1) - 1 = n /\ (n + 1) - 2 = n - 1
    BY <1>1
  <2> QED
    BY <1>1, <2>1, FibFacts
<1>5. \A p, q, r \in Nat : p <= q => p * r \in Nat /\ q * r \in Nat /\ p * r <= q * r
  BY SMT
<1>6. (Fib[n] + Fib[n - 1]) * w = Fib[n] * w + Fib[n - 1] * w
  <2>1. \A p, q \in Nat : (p + q) * w = p * w + q * w
    BY SMT
  <2> QED
    BY <2>1, <1>2
<1>7. ASSUME w \in Nat \ {0}, n >= 2 PROVE Fib[n - 1] * w < Fib[n] * w
  <2>1. n \in 2 .. Depth /\ n - 2 \in 0 .. Depth
    BY <1>1, <1>7, FibFacts
  <2>2. Fib[n - 1] + 1 <= Fib[n]
    BY <2>1, <1>2, FibFacts
  <2>3. \A p, q \in Nat : p + 1 <= q => p * w + w <= q * w
    BY SMT
  <2> QED
    BY <2>2, <2>3, <1>2, <1>5, <1>7
<1> QED
  BY <1>2, <1>3, <1>4, <1>5, <1>6, <1>7

LEMMA SizeIsNat == ASSUME NEW n \in Nat PROVE Size(n) \in Nat
<1>1. Fib[Depth] \in Nat
  BY FibFacts
<1>2. \A p, q \in Nat : p * q \in Nat
  BY SMT
<1> QED
  BY <1>1, <1>2 DEF Size

LEMMA ClippedBoundFacts ==
    ASSUME NEW n \in Nat, limit \in Limits \cup {NoLimit}
    PROVE  /\ ClippedBound(n) \in 0 .. n
           /\ limit # NoLimit => Size(ClippedBound(n)) <= limit
<1>1. CASE limit = NoLimit
  BY <1>1 DEF ClippedBound
<1>2. CASE limit # NoLimit
  <2>1. limit \in Nat /\ Fib[Depth] \in Nat \ {0}
    BY <1>2, MarketAssumption, FibFacts
  <2>2. limit \div Fib[Depth] \in Nat /\ Fib[Depth] * (limit \div Fib[Depth]) <= limit
    BY <2>1, DivisionFloor
  <2>3. ClippedBound(n) = n \/ ClippedBound(n) = limit \div Fib[Depth]
    BY <1>2 DEF ClippedBound, Smaller
  <2>4. ClippedBound(n) \in 0 .. n /\ ClippedBound(n) <= limit \div Fib[Depth]
    BY <1>2, <2>2, <2>3 DEF ClippedBound, Smaller
  <2>5. \A p, q, r \in Nat : p <= q => r * p <= r * q
    BY SMT
  <2>6. Fib[Depth] * ClippedBound(n) <= Fib[Depth] * (limit \div Fib[Depth])
    BY <2>1, <2>2, <2>4, <2>5
  <2>7. Fib[Depth] * ClippedBound(n) \in Nat
    <3>1. ClippedBound(n) \in Nat
      BY <2>4
    <3> QED
      BY <3>1, SizeIsNat DEF Size
  <2>8. Fib[Depth] * (limit \div Fib[Depth]) \in Nat
    BY <2>2, SizeIsNat DEF Size
  <2>9. Size(ClippedBound(n)) <= limit
    BY <2>1, <2>2, <2>6, <2>7, <2>8 DEF Size
  <2> QED
    BY <2>4, <2>9
<1> QED
  BY <1>1, <1>2

LEMMA PeakFacts ==
    ASSUME NEW s \in Searchers, NEW m \in Markets, NEW n \in 0 .. 2 * MaxBound,
           NEW peak \in Peaks[s][m][n]
    PROVE  peak \in 0 .. Size(n) /\ PeakAt(s, m, peak, Size(n))
BY GoldenAssumption DEF Peaks

-----------------------------------------------------------------------------
(* What one round of the search may throw away.                            *)

(* If the left inner point looks better, the peak is not beyond the right  *)
(* one, and the other way round.                                           *)
LEMMA PeakBetween ==
    ASSUME Types, phase = "search", Searching,
           NEW peak \in Peaks[searcher][market][bound],
           short < long \/ bound = 0
    PROVE  /\ GoesLeft => peak <= d
           /\ ~GoesLeft => c <= peak
<1> DEFINE G(x) == Gross(searcher, market, x)
<1>1. peak \in 0 .. Upper /\ PeakAt(searcher, market, peak, Upper)
  BY PeakFacts DEF Types, Upper
<1>2. Upper \in Nat
  <2>1. bound \in Nat
    BY GoldenAssumption DEF Types
  <2> QED
    BY <2>1, SizeIsNat DEF Upper
<1>3. c \in 0 .. Upper /\ d \in 0 .. Upper /\ c <= d
  BY <1>2 DEF Searching, Inside, ValuesAreCurrent, Types, c, d
<1>4. fc = G(c) /\ fd = G(d) /\ fc \in Int /\ fd \in Int
  <2>1. c \in Nat /\ d \in Nat
    BY <1>2, <1>3
  <2> QED
    BY <2>1, GrossIsInt DEF Searching, ValuesAreCurrent, F, Types
<1>5. CASE bound = 0
  <2>1. Upper = 0
    BY <1>5, FibFacts DEF Upper, Size
  <2> QED
    BY <1>1, <1>3, <2>1
<1>6. CASE short < long
  <2>1. c < d
    BY <1>6 DEF Types, c, d
  <2>2. ASSUME d < peak PROVE ~GoesLeft
    <3>1. c \in 0 .. peak /\ d \in 0 .. peak
      BY <1>1, <1>2, <1>3, <2>2
    <3>2. G(c) < G(d)
      BY <1>1, <2>1, <3>1 DEF PeakAt
    <3> QED
      BY <1>4, <3>2 DEF GoesLeft
  <2>3. ASSUME peak < c PROVE GoesLeft
    <3>1. c \in peak .. Upper /\ d \in peak .. Upper
      BY <1>1, <1>2, <1>3, <2>3
    <3>2. IF TieGoesLeft(searcher) THEN G(c) >= G(d) ELSE G(c) > G(d)
      BY <1>1, <2>1, <3>1 DEF PeakAt
    <3> QED
      BY <1>4, <3>2 DEF GoesLeft
  <2> QED
    BY <1>1, <1>2, <1>3, <2>2, <2>3
<1> QED
  BY <1>5, <1>6

-----------------------------------------------------------------------------
(* The two steps that make an interval.                                    *)

LEMMA DivideKeepsIInv == ASSUME IInv, Divide PROVE IInv'
<1> USE DEF query
<1>1. market' = market /\ limit' = limit /\ searcher' = searcher /\ tried' = tried
  BY DEF Divide
<1>2. bound \in 1 .. MaxBound /\ MaxBound \in Nat
  BY GoldenAssumption DEF IInv, Types, Divide
<1>3. PICK n \in UpperEnds :
          bound' = IF ClipsInterval(searcher) THEN ClippedBound(n) ELSE n
  BY DEF Divide
<1>4. n \in 0 .. 2 * MaxBound
  <2>1. CASE searcher = "route"
    BY <1>2, <1>3, <2>1 DEF UpperEnds
  <2>2. CASE searcher = "velodrome"
    BY <1>2, <1>3, <2>2 DEF UpperEnds
  <2>3. CASE searcher \notin {"route", "velodrome"}
    BY <1>2, <1>3, <2>3, GoldenAssumption DEF UpperEnds
  <2> QED
    BY <2>1, <2>2, <2>3
<1>5. bound' \in 0 .. 2 * MaxBound /\ Limited'
  <2>1. ClippedBound(n) \in 0 .. n /\ (limit # NoLimit => Size(ClippedBound(n)) <= limit)
    BY <1>2, <1>4, ClippedBoundFacts DEF IInv, Types
  <2> QED
    BY <1>1, <1>2, <1>3, <1>4, <2>1 DEF Limited, Upper, Size, ClipsInterval
<1>6. CASE phase' = "done"
  <2>1. UNCHANGED section
    BY <1>6 DEF Divide, Finish
  <2> QED
    BY <1>1, <1>5, <1>6, <2>1 DEF IInv, Types, Searching, PeakKept, section
<1>7. CASE phase' # "done"
  <2>1. /\ phase' = "search" /\ UNCHANGED outcome
        /\ k' = Depth - 1 /\ a' = 0
        /\ long' = Fib[k'] * bound' /\ short' = Fib[k' - 1] * bound'
        /\ fc' = F(short') /\ fd' = F(long')
    BY <1>7 DEF Divide, Finish
  <2>2. k' \in 1 .. Depth - 1 /\ k' + 1 = Depth /\ bound' \in Nat
    BY <1>5, <2>1, <1>2, FibFacts
  <2>3. /\ long' \in Nat /\ short' \in Nat /\ short' <= long'
        /\ long' + short' = Upper'
    BY <2>1, <2>2, PartsOfInterval DEF Upper, Size
  <2>4. Upper' \in Nat /\ a' + long' + short' = Upper'
    BY <2>1, <2>3
  <2>5. Types'
    BY <1>1, <1>5, <2>1, <2>3 DEF IInv, Types, Divide
  <2>6. Inside'
    BY <2>1, <2>2, <2>4 DEF Inside
  <2>7. ValuesAreCurrent'
    <3>1. c' = short' /\ d' = long'
      BY <2>1, <2>3 DEF c, d
    <3> QED
      BY <1>1, <2>1, <2>3, <3>1 DEF ValuesAreCurrent, F
  <2>8. PeakKept'
    <3> SUFFICES ASSUME NEW peak \in Peaks[searcher'][market'][bound'] 
                 PROVE  a' <= peak /\ peak <= b'
      BY DEF PeakKept
    <3>1. peak \in 0 .. Size(bound')
      BY <1>1, <1>5, PeakFacts DEF IInv, Types
    <3> QED
      BY <2>1, <2>4, <3>1 DEF b, Upper, Size
  <2> QED
    BY <1>5, <2>5, <2>6, <2>7, <2>8 DEF IInv, Searching
<1> QED
  BY <1>6, <1>7

LEMMA NarrowKeepsIInv == ASSUME IInv, Narrow PROVE IInv'
<1> USE DEF query
<1>1. /\ market' = market /\ limit' = limit /\ searcher' = searcher
      /\ bound' = bound /\ phase = "search" /\ phase' = "search"
      /\ tried' = tried /\ outcome' = outcome
      /\ k' = k - 1 /\ long' = short /\ short' = long - short
  BY DEF Narrow
<1>2. k \in 2 .. Depth - 1 /\ bound \in Nat /\ Upper \in Nat
  <2>1. bound \in Nat
    BY GoldenAssumption DEF IInv, Types
  <2>2. k \in 2 .. Depth - 1
    BY FibFacts DEF IInv, Searching, Inside, Narrow
  <2> QED
    BY <2>1, <2>2, SizeIsNat DEF Upper
<1>3. /\ a \in Nat /\ long \in Nat /\ short \in Nat /\ short <= long
      /\ a + long + short <= Upper /\ fc = F(c) /\ fd = F(d)
  BY <1>1 DEF IInv, Types, Searching, Inside, ValuesAreCurrent
<1>4. /\ short < long \/ bound = 0
      /\ short' = Fib[k' - 1] * bound' /\ long' = Fib[k'] * bound'
      /\ short' <= long' /\ short' \in Nat
  <2>1. k \in 1 .. Depth - 1 /\ k - 1 \in 1 .. Depth - 1 /\ k >= 2 /\ (k - 1) + 1 = k
    BY <1>2, FibFacts
  <2>2. long = Fib[k] * bound /\ short = Fib[k - 1] * bound
    BY <1>1 DEF IInv, Searching, Inside
  <2>3. short < long \/ bound = 0
    BY <1>2, <2>1, <2>2, PartsOfInterval
  <2>4. /\ Fib[k - 1] * bound + Fib[(k - 1) - 1] * bound = Fib[k] * bound
        /\ Fib[(k - 1) - 1] * bound \in Nat
        /\ Fib[(k - 1) - 1] * bound <= Fib[k - 1] * bound
    BY <1>2, <2>1, PartsOfInterval
  <2>5. short' = Fib[(k - 1) - 1] * bound
    BY <1>1, <1>3, <2>2, <2>4
  <2> QED
    BY <1>1, <1>3, <2>2, <2>3, <2>4, <2>5
<1>5. \A peak \in Peaks[searcher][market][bound] :
          /\ a <= peak /\ peak <= b /\ peak \in Nat
          /\ GoesLeft => peak <= d
          /\ ~GoesLeft => c <= peak
  <2> SUFFICES ASSUME NEW peak \in Peaks[searcher][market][bound]
               PROVE  /\ a <= peak /\ peak <= b /\ peak \in Nat
                      /\ GoesLeft => peak <= d
                      /\ ~GoesLeft => c <= peak
    OBVIOUS
  <2>1. peak \in 0 .. Size(bound)
    BY PeakFacts DEF IInv, Types
  <2>2. (GoesLeft => peak <= d) /\ (~GoesLeft => c <= peak)
    BY <1>1, <1>4, PeakBetween DEF IInv
  <2> QED
    BY <1>1, <1>2, <2>1, <2>2 DEF IInv, PeakKept, Upper
<1>6. Types' /\ Limited'
  <2>1. a' \in Nat
    BY <1>3 DEF Narrow, c
  <2>2. Types'
    BY <1>1, <1>3, <1>4, <2>1 DEF IInv, Types
  <2>3. Limited'
    BY <1>1 DEF IInv, Searching, Limited, Upper
  <2> QED
    BY <2>2, <2>3
<1>7. k' \in 1 .. Depth - 1 /\ Upper' = Upper
  BY <1>1, <1>2, FibFacts DEF Upper, Size
<1>8. CASE GoesLeft
  <2>1. a' = a /\ fd' = fc /\ fc' = F(a' + short')
    BY <1>8 DEF Narrow
  <2>2. Inside'
    BY <1>1, <1>2, <1>3, <1>4, <1>7, <2>1 DEF Inside
  <2>3. ValuesAreCurrent'
    <3>1. c' = a' + short' /\ d' = c
      BY <1>1, <2>1 DEF c, d
    <3> QED
      BY <1>1, <1>3, <1>4, <2>1, <3>1 DEF ValuesAreCurrent, F
  <2>4. PeakKept'
    <3>1. b' = d
      BY <1>1, <1>3, <1>4, <2>1 DEF b, d
    <3> QED
      BY <1>1, <1>5, <1>8, <2>1, <3>1 DEF PeakKept
  <2> QED
    BY <1>6, <2>2, <2>3, <2>4 DEF IInv, Searching
<1>9. CASE ~GoesLeft
  <2>1. a' = c /\ fc' = fd /\ fd' = F(a' + long')
    BY <1>9 DEF Narrow
  <2>0. a' + long' + short' = a + long + short
    <3>1. a' = a + short
      BY <2>1 DEF c
    <3>2. \A p, q, r \in Nat : (p + q) + q + (r - q) = p + r + q
      BY SMT
    <3> QED
      BY <1>1, <1>3, <3>1, <3>2
  <2>2. Inside'
    BY <1>1, <1>3, <1>4, <1>7, <2>0 DEF Inside
  <2>3. ValuesAreCurrent'
    <3>1. c' = d /\ d' = a' + long'
      BY <1>1, <1>3, <2>1 DEF c, d
    <3> QED
      BY <1>1, <1>3, <1>4, <2>1, <3>1 DEF ValuesAreCurrent, F
  <2>4. PeakKept'
    <3>1. b' = b
      BY <2>0 DEF b
    <3> QED
      BY <1>1, <1>5, <1>9, <2>1, <3>1 DEF PeakKept
  <2> QED
    BY <1>6, <2>2, <2>3, <2>4 DEF IInv, Searching
<1> QED
  BY <1>8, <1>9

LEMMA InitEstablishesIInv == Init => IInv
<1> SUFFICES ASSUME Init PROVE IInv
  OBVIOUS
<1>1. 1 \in 0 .. 2 * MaxBound /\ 1 \in 1 .. MaxBound
  BY GoldenAssumption
<1> QED
  BY <1>1 DEF Init, IInv, Types, Searching, PeakKept

LEMMA NextKeepsIInv == IInv /\ [Next]_vars => IInv'
<1> SUFFICES ASSUME IInv, [Next]_vars PROVE IInv'
  OBVIOUS
<1> USE DEF query
<1>1. CASE Probe
  BY <1>1, Zenon DEF Probe, Finish, section, IInv, Types, Searching, PeakKept
<1>2. CASE Double
  <2>1. /\ bound' = 2 * bound /\ 2 * bound <= MaxBound /\ phase = "bracket" /\ phase' = "bracket"
        /\ UNCHANGED <<market, limit, searcher, outcome, a, long, short>>
    BY <1>2 DEF Double, WantsDoubling, section
  <2>2. bound \in 1 .. MaxBound /\ MaxBound \in Nat
    BY <2>1, GoldenAssumption DEF IInv, Types
  <2>3. bound' \in 0 .. 2 * MaxBound /\ bound' \in 1 .. MaxBound
    BY <2>1, <2>2
  <2>4. Types'
    BY <2>1, <2>3 DEF IInv, Types
  <2> QED
    BY <2>1, <2>4 DEF IInv, Searching, PeakKept
<1>3. CASE Divide
  BY <1>3, DivideKeepsIInv
<1>4. CASE Narrow
  BY <1>4, NarrowKeepsIInv
<1>5. CASE Answer
  <2>1. /\ UNCHANGED <<market, limit, searcher, bound, a, long, short>> /\ phase' = "done"
    BY <1>5 DEF Answer, Finish, section
  <2>2. Types'
    BY <2>1 DEF IInv, Types
  <2> QED
    BY <2>1, <2>2 DEF IInv, Searching, PeakKept
<1>6. CASE UNCHANGED vars
  BY <1>6, Zenon DEF vars, section, IInv, Types, Searching, Inside, Limited, ValuesAreCurrent,
     PeakKept, Upper, b, c, d, F
<1> QED
  BY <1>1, <1>2, <1>3, <1>4, <1>5, <1>6 DEF Next, Done

LEMMA InvariantOfSearch == Spec => []IInv
BY InitEstablishesIInv, NextKeepsIInv, PTL DEF Spec

(* For every market and whatever points coincide or tie: a search that      *)
(* starts over an interval with one peak never drops it (the golden-section *)
(* loops of route.rs, pmm.rs, velodrome_stable.rs, dodo_pmm.rs and          *)
(* curve_cryptoswap.rs).                                                    *)
THEOREM PeakIsKept == Spec => []PeakKept
<1>1. IInv => PeakKept
  BY DEF IInv
<1> QED
  BY <1>1, InvariantOfSearch, PTL

(* The values the search compares are those of its two inner points, which  *)
(* never cross, although one of them is handed on from round to round.      *)
THEOREM ValuesStayCurrent == Spec => []ValuesAreCurrent
<1>1. IInv => ValuesAreCurrent
  BY DEF IInv, Searching, ValuesAreCurrent
<1> QED
  BY <1>1, InvariantOfSearch, PTL

-----------------------------------------------------------------------------
(* The size that is tried is near the best one under max_size.             *)

(* Nothing is tried before the search is over. *)
Untried == phase # "done" => tried = 0

(* The bound grows by doubling only. *)
Doubled == phase \in {"probe", "bracket"} => \E i \in Nat : bound = TwoTo[i]

(* The doubling and max_size leave out no size that could be the best: of  *)
(* Route none below max_size, of VelodromeStable none unless its doublings *)
(* ran out.                                                                *)
Covered ==
    phase = "search" =>
        \A peak \in Peaks[searcher][market][2 * MaxBound] :
            /\ searcher = "route" => Clip(peak) = Smaller(peak, Upper)
            /\ searcher = "velodrome" /\ bound < MaxBound => peak <= Upper

NInv == IInv /\ Untried /\ Doubled /\ Covered /\ NearBest

(* A size grows with its number of bounds. *)
LEMMA SizeGrows ==
    ASSUME NEW m \in Nat, NEW n \in Nat, m <= n
    PROVE  Size(m) \in Nat /\ Size(n) \in Nat /\ Size(m) <= Size(n)
<1>1. \A p, q, r \in Nat : p <= q => r * p \in Nat /\ r * q \in Nat /\ r * p <= r * q
  BY SMT
<1> QED
  BY <1>1, FibFacts DEF Size

(* A peak over all sizes a search may reach. *)
LEMMA PeakRange ==
    ASSUME NEW s \in Searchers, NEW m \in Markets,
           NEW peak \in Peaks[s][m][2 * MaxBound]
    PROVE  /\ peak \in Nat /\ peak <= Size(2 * MaxBound)
           /\ PeakAt(s, m, peak, Size(2 * MaxBound))
<1>1. 2 * MaxBound \in 0 .. 2 * MaxBound
  BY GoldenAssumption
<1>2. peak \in 0 .. Size(2 * MaxBound) /\ PeakAt(s, m, peak, Size(2 * MaxBound))
  BY <1>1, PeakFacts
<1>3. Size(2 * MaxBound) \in Nat
  <2>1. 2 * MaxBound \in Nat
    BY GoldenAssumption
  <2> QED
    BY <2>1, SizeIsNat
<1> QED
  BY <1>2, <1>3

(* Over fewer sizes the peak is the same, or the last of them. *)
LEMMA PeakRestricted ==
    ASSUME NEW s \in Searchers, NEW m \in Markets, NEW n \in 0 .. 2 * MaxBound,
           NEW peak \in Peaks[s][m][2 * MaxBound]
    PROVE  Smaller(peak, Size(n)) \in Peaks[s][m][n]
<1> DEFINE p == Smaller(peak, Size(n))
           G(x) == Gross(s, m, x)
<1>1. /\ peak \in Nat /\ PeakAt(s, m, peak, Size(2 * MaxBound))
      /\ Size(n) \in Nat /\ Size(n) <= Size(2 * MaxBound) /\ Size(2 * MaxBound) \in Nat
      /\ peak <= Size(2 * MaxBound)
  <2>1. peak \in Nat /\ peak <= Size(2 * MaxBound) /\ PeakAt(s, m, peak, Size(2 * MaxBound))
    BY PeakRange
  <2>2. n \in Nat /\ 2 * MaxBound \in Nat /\ n <= 2 * MaxBound
    BY GoldenAssumption
  <2> QED
    BY <2>1, <2>2, SizeGrows
<1>2. p \in 0 .. Size(n) /\ p <= peak /\ (p = peak \/ p = Size(n))
  BY <1>1 DEF Smaller
<1>3. \A x \in 0 .. Size(2 * MaxBound) : G(x) \in Int /\ G(x) <= G(peak)
  BY <1>1, GrossIsInt DEF PeakAt
<1>4. \A y, z \in 0 .. p : y < z => G(y) < G(z)
  <2>1. ASSUME NEW y \in 0 .. p, NEW z \in 0 .. p, y < z PROVE G(y) < G(z)
    <3>1. y \in 0 .. peak /\ z \in 0 .. peak
      BY <1>1, <1>2
    <3> QED
      BY <1>1, <2>1, <3>1 DEF PeakAt
  <2> QED
    BY <2>1
<1>5. \A y, z \in p .. Size(n) : y < z =>
          IF TieGoesLeft(s) THEN G(y) >= G(z) ELSE G(y) > G(z)
  <2>1. ASSUME NEW y \in p .. Size(n), NEW z \in p .. Size(n), y < z
        PROVE  IF TieGoesLeft(s) THEN G(y) >= G(z) ELSE G(y) > G(z)
    <3>1. p = peak
      BY <1>1, <1>2, <2>1
    <3>2. y \in peak .. Size(2 * MaxBound) /\ z \in peak .. Size(2 * MaxBound)
      BY <1>1, <1>2, <2>1, <3>1
    <3> QED
      BY <1>1, <2>1, <3>2 DEF PeakAt
  <2> QED
    BY <2>1
<1>6. \A y \in 0 .. Size(n) : G(y) <= G(p)
  <2>1. CASE p = peak
    BY <1>1, <1>3, <2>1
  <2>2. CASE p = Size(n)
    <3>1. ASSUME NEW y \in 0 .. Size(n) PROVE G(y) <= G(p)
      <4>1. y = p \/ y < p
        BY <1>1, <2>2
      <4>2. G(y) \in Int /\ G(p) \in Int
        BY <1>1, <1>2, <1>3
      <4> QED
        BY <1>1, <1>2, <1>4, <2>2, <4>1, <4>2
    <3> QED
      BY <3>1
  <2> QED
    BY <1>2, <2>1, <2>2
<1>7. PeakAt(s, m, p, Size(n))
  BY <1>4, <1>5, <1>6 DEF PeakAt
<1> HIDE DEF p
<1>8. p \in Peaks[s][m][n]
  BY <1>2, <1>7 DEF Peaks
<1> QED
  BY <1>8 DEF p

(* Applying max_size does not move two sizes apart. *)
LEMMA ClipContracts ==
    ASSUME limit \in Limits \cup {NoLimit}, NEW x \in Nat, NEW y \in Nat, NEW w \in Nat,
           x - w <= y, y <= x + w
    PROVE  Clip(x) - w <= Clip(y) /\ Clip(y) <= Clip(x) + w
<1>1. limit = NoLimit \/ limit \in Nat
  BY MarketAssumption
<1> QED
  BY <1>1 DEF Clip, Smaller

(* An interval clipped to max_size ends at max_size. *)
LEMMA ClippedUpper ==
    ASSUME limit \in Limits \cup {NoLimit}, NEW n \in Nat
    PROVE  Size(ClippedBound(n)) = Clip(Size(n))
<1>1. CASE limit = NoLimit
  BY <1>1 DEF ClippedBound, Clip
<1>2. CASE limit # NoLimit
  <2> DEFINE q == limit \div Fib[Depth]
  <2>1. limit \in Nat /\ limit % Fib[Depth] = 0 /\ Fib[Depth] \in Nat \ {0}
    BY <1>2, MarketAssumption, GoldenAssumption, FibFacts
  <2>2. q \in Nat /\ limit = Size(q)
    <3>1. ASSUME NEW x \in Nat, NEW y \in Nat \ {0}, x % y = 0
          PROVE  x \div y \in Nat /\ x = y * (x \div y)
      <4>1. x = y * (x \div y) + (x % y)
        BY Z3
      <4>2. x \div y \in Nat
        BY Z3
      <4> QED
        BY <3>1, <4>1, <4>2
    <3> QED
      BY <2>1, <3>1 DEF Size
  <2> HIDE DEF q
  <2>3. ClippedBound(n) = Smaller(n, q) /\ Clip(Size(n)) = Smaller(Size(n), Size(q))
    BY <1>2, <2>2 DEF ClippedBound, Clip, q
  <2>4. CASE n <= q
    BY <2>2, <2>3, <2>4, SizeGrows DEF Smaller
  <2>5. CASE ~(n <= q)
    <3>1. Size(q) \in Nat /\ Size(n) \in Nat /\ Size(q) <= Size(n)
      BY <2>2, <2>5, SizeGrows
    <3>2. Smaller(n, q) = q
      BY <2>5 DEF Smaller
    <3>3. Smaller(Size(n), Size(q)) = Size(q)
      BY <3>1 DEF Smaller
    <3> QED
      BY <2>3, <3>2, <3>3
  <2> QED
    BY <2>2, <2>4, <2>5
<1> QED
  BY <1>1, <1>2

(* Where the doubling of Route stops there is no peak above the next bound. *)
LEMMA RouteStops ==
    ASSUME Types, Doubled, phase = "bracket", searcher = "route", ~WantsDoubling,
           NEW peak \in Peaks[searcher][market][2 * MaxBound]
    PROVE  peak <= Size(2 * bound)
<1>1. /\ market \in Markets /\ searcher \in Searchers /\ bound \in Nat \ {0} /\ bound <= MaxBound
      /\ MaxBound \in Nat
  BY GoldenAssumption DEF Types
<1>2. peak \in Nat /\ peak <= Size(2 * MaxBound) /\ PeakAt(searcher, market, peak, Size(2 * MaxBound))
  BY <1>1, PeakRange
<1>3. CASE 2 * bound <= MaxBound
  <2>1. ~(F(Size(2 * bound)) > F(Upper))
    BY <1>3 DEF WantsDoubling
  <2>2. /\ Size(2 * bound) \in Nat /\ Upper \in Nat /\ Upper < Size(2 * bound)
    <3>1. Fib[Depth] \in Nat \ {0}
      BY FibFacts
    <3>2. ASSUME NEW x \in Nat \ {0}, NEW y \in Nat \ {0}
          PROVE  x * y \in Nat /\ x * (2 * y) \in Nat /\ x * y < x * (2 * y)
      OBVIOUS
    <3> QED
      BY <1>1, <3>1, <3>2 DEF Upper, Size
  <2>3. ASSUME peak > Size(2 * bound) PROVE FALSE
    <3>1. Upper \in 0 .. peak /\ Size(2 * bound) \in 0 .. peak
      BY <1>2, <2>2, <2>3
    <3>2. F(Upper) < F(Size(2 * bound))
      BY <1>2, <2>2, <3>1 DEF PeakAt, F
    <3>3. F(Upper) \in Int /\ F(Size(2 * bound)) \in Int
      BY <1>1, <2>2, GrossIsInt DEF F
    <3> QED
      BY <2>1, <3>2, <3>3
  <2> QED
    BY <1>2, <2>2, <2>3
<1>4. CASE ~(2 * bound <= MaxBound)
  <2>1. bound = MaxBound
    <3>1. PICK i \in Nat : bound = TwoTo[i]
      BY DEF Doubled
    <3>2. PICK j \in Nat : MaxBound = TwoTo[j]
      BY <1>1, GoldenAssumption
    <3>3. ~(bound < MaxBound)
      BY <1>4, <3>1, <3>2, RoomToDouble
    <3> QED
      BY <1>1, <3>3
  <2> QED
    BY <1>2, <2>1
<1> QED
  BY <1>3, <1>4

(* Where that of VelodromeStable stops before its last doubling there is    *)
(* none above the bound.                                                    *)
LEMMA VelodromeStops ==
    ASSUME Types, Doubled, phase = "bracket", searcher = "velodrome", ~WantsDoubling,
           bound < MaxBound, NEW peak \in Peaks[searcher][market][2 * MaxBound]
    PROVE  peak <= Upper
<1>1. /\ market \in Markets /\ searcher \in Searchers /\ bound \in Nat \ {0} /\ bound <= MaxBound
      /\ MaxBound \in Nat /\ market.price \in Nat
  BY GoldenAssumption, MarketAssumption DEF Types
<1>2. peak \in Nat /\ PeakAt(searcher, market, peak, Size(2 * MaxBound))
  BY <1>1, PeakRange
<1>3. 2 * bound <= MaxBound
  <2>1. PICK i \in Nat : bound = TwoTo[i]
    BY DEF Doubled
  <2>2. PICK j \in Nat : MaxBound = TwoTo[j]
    BY <1>1, GoldenAssumption
  <2> QED
    BY <2>1, <2>2, RoomToDouble
<1>4. Upper \in Nat \ {0}
  <2>1. Fib[Depth] \in Nat \ {0}
    BY FibFacts
  <2>2. ASSUME NEW x \in Nat \ {0}, NEW y \in Nat \ {0} PROVE x * y \in Nat \ {0}
    OBVIOUS
  <2> QED
    BY <1>1, <2>1, <2>2 DEF Upper, Size
<1>5. F(Upper) <= 0
  <2>1. CASE Feasible(market, Upper)
    <3>1. ~(F(Upper) >= 0)
      BY <1>3, <2>1 DEF WantsDoubling
    <3>2. F(Upper) \in Int
      BY <1>1, <1>4, GrossIsInt DEF F
    <3> QED
      BY <3>1, <3>2
  <2>2. CASE ~Feasible(market, Upper)
    <3>1. F(Upper) = -(market.price * Upper)
      BY <2>2 DEF F, Gross, Miss
    <3>2. market.price * Upper \in Nat
      BY <1>1, <1>4
    <3> QED
      BY <3>1, <3>2
  <2> QED
    BY <2>1, <2>2
<1>6. F(0) = 0
  <2>1. Output(market, 0) = 0 /\ market.price * 0 = 0
    BY <1>1, MarketAssumption
  <2> QED
    BY <2>1 DEF F, Gross, Feasible
<1>7. ASSUME peak > Upper PROVE FALSE
  <2>1. 0 \in 0 .. peak /\ Upper \in 0 .. peak /\ 0 < Upper
    BY <1>2, <1>4, <1>7
  <2>2. F(0) < F(Upper)
    BY <1>2, <2>1 DEF PeakAt, F
  <2>3. F(Upper) \in Int
    BY <1>1, <1>4, GrossIsInt DEF F
  <2> QED
    BY <1>5, <1>6, <2>2, <2>3
<1> QED
  BY <1>2, <1>4, <1>7

(* The first interval covers the best size as far as max_size allows. *)
LEMMA DivideCovers ==
    ASSUME NInv, Divide
    PROVE  Covered'
<1> SUFFICES ASSUME phase' = "search",
                    NEW peak \in Peaks[searcher'][market'][2 * MaxBound]
             PROVE  /\ searcher' = "route" => Clip(peak)' = Smaller(peak, Upper')
                    /\ searcher' = "velodrome" /\ bound' < MaxBound => peak <= Upper'
  BY DEF Covered
<1>1. /\ market' = market /\ limit' = limit /\ searcher' = searcher
      /\ phase = "bracket" /\ ~WantsDoubling
  BY DEF Divide, query
<1>2. /\ Types /\ Doubled /\ bound \in Nat /\ peak \in Nat
      /\ peak \in Peaks[searcher][market][2 * MaxBound]
      /\ limit \in Limits \cup {NoLimit}
  <2>1. Types /\ Doubled /\ market \in Markets /\ searcher \in Searchers
    BY DEF NInv, IInv, Types
  <2>2. peak \in Nat
    BY <1>1, <2>1, PeakRange
  <2> QED
    BY <1>1, <2>1, <2>2, GoldenAssumption DEF Types
<1>3. PICK n \in UpperEnds :
          bound' = IF ClipsInterval(searcher) THEN ClippedBound(n) ELSE n
  BY DEF Divide
<1>4. CASE searcher = "route"
  <2>1. n = 2 * bound /\ bound' = ClippedBound(n) /\ n \in Nat
    BY <1>2, <1>3, <1>4 DEF UpperEnds, ClipsInterval
  <2>2. peak <= Size(n) /\ Size(n) \in Nat
    BY <1>1, <1>2, <1>4, <2>1, RouteStops, SizeIsNat
  <2>3. Upper' = Clip(Size(n))
    BY <1>2, <2>1, ClippedUpper DEF Upper, Size
  <2>4. limit = NoLimit \/ limit \in Nat
    BY <1>2, MarketAssumption
  <2>5. Clip(peak) = Smaller(peak, Clip(Size(n)))
    BY <1>2, <2>2, <2>4 DEF Clip, Smaller
  <2>6. Clip(peak)' = Clip(peak)
    BY <1>1 DEF Clip
  <2> QED
    BY <1>1, <1>4, <2>3, <2>5, <2>6
<1>5. CASE searcher = "velodrome"
  <2>1. n = bound /\ bound' = bound
    BY <1>3, <1>5 DEF UpperEnds, ClipsInterval
  <2>2. bound < MaxBound => peak <= Upper
    BY <1>1, <1>2, <1>5, VelodromeStops
  <2>3. Upper' = Upper
    BY <2>1 DEF Upper, Size
  <2> QED
    BY <1>1, <1>5, <2>1, <2>2, <2>3
<1> QED
  BY <1>1, <1>4, <1>5

(* The middle of the last interval is within half of it of the best size. *)
LEMMA AnswerIsNear ==
    ASSUME NInv, Answer
    PROVE  NearBest'
<1>1. /\ market' = market /\ limit' = limit /\ searcher' = searcher /\ bound' = bound
      /\ phase = "search" /\ k = 1 /\ tried' = SizeFound
  BY DEF Answer, query
<1> SUFFICES ASSUME NEW peak \in Peaks[searcher][market][2 * MaxBound]
             PROVE  LET Reaches == searcher = "route" \/ (searcher = "velodrome" /\ bound < MaxBound)
                        best == Clip(IF Reaches THEN peak ELSE Smaller(peak, Upper))
                    IN best - bound <= tried' /\ tried' <= best + bound
  BY <1>1 DEF NearBest, Upper, Size, Clip
<1> DEFINE p == Smaller(peak, Upper)
           Reaches == searcher = "route" \/ (searcher = "velodrome" /\ bound < MaxBound)
           best == Clip(IF Reaches THEN peak ELSE p)
<1>2. /\ market \in Markets /\ searcher \in Searchers /\ limit \in Limits \cup {NoLimit}
      /\ bound \in 0 .. 2 * MaxBound /\ bound \in Nat /\ a \in Nat
  BY GoldenAssumption DEF NInv, IInv, Types
<1>3. long = bound /\ short = bound /\ b = a + 2 * bound
  <2>1. 1 * bound = bound /\ Fib[1] = 1 /\ Fib[0] = 1
    BY <1>2, FibFacts
  <2>2. long = Fib[1] * bound /\ short = Fib[0] * bound
    BY <1>1 DEF NInv, IInv, Searching, Inside
  <2> QED
    BY <1>2, <2>1, <2>2 DEF b
<1>4. p \in Peaks[searcher][market][bound] /\ peak \in Nat /\ Upper \in Nat
  BY <1>2, PeakRestricted, PeakRange, SizeIsNat DEF Upper
<1>5. p \in Nat /\ a <= p /\ p <= a + 2 * bound
  <2>1. a <= p /\ p <= b
    BY <1>1, <1>4 DEF NInv, IInv, PeakKept
  <2> QED
    BY <1>3, <1>4, <2>1 DEF Smaller
<1>6. Middle \in Nat /\ p - bound <= Middle /\ Middle <= p + bound
  BY <1>2, <1>5 DEF Middle
<1>7. ASSUME searcher = "route" PROVE best - bound <= tried' /\ tried' <= best + bound
  <2>1. tried' = Middle
    BY <1>1, <1>7 DEF SizeFound, ClipsSize
  <2>2. best = p
    BY <1>1, <1>7 DEF NInv, Covered
  <2> HIDE DEF p, best
  <2> QED
    BY <1>6, <2>1, <2>2
<1>8. ASSUME searcher # "route" PROVE best - bound <= tried' /\ tried' <= best + bound
  <2>1. tried' = Clip(Middle)
    BY <1>1, <1>8 DEF SizeFound, ClipsSize
  <2>2. best = Clip(p)
    <3>1. CASE Reaches
      <4>1. peak <= Upper
        BY <1>1, <1>8, <3>1 DEF NInv, Covered
      <4>2. p = peak
        BY <4>1 DEF Smaller
      <4> QED
        BY <3>1, <4>2
    <3>2. CASE ~Reaches
      BY <3>2
    <3> QED
      BY <3>1, <3>2
  <2>3. Clip(p) - bound <= Clip(Middle) /\ Clip(Middle) <= Clip(p) + bound
    BY <1>2, <1>5, <1>6, ClipContracts
  <2> HIDE DEF p, best
  <2> QED
    BY <2>1, <2>2, <2>3
<1> QED
  BY <1>7, <1>8

(* Every step keeps the invariant. *)
LEMMA NearStep ==
    ASSUME NInv, [Next]_vars
    PROVE  NInv'
<1> USE DEF query
<1>0. IInv'
  BY NextKeepsIInv DEF NInv
<1>1. CASE Probe
  <2>1. phase = "probe" /\ phase' # "search" /\ UNCHANGED <<bound, tried>> /\ tried = 0
    BY <1>1 DEF Probe, Finish, NInv, Untried
  <2> QED
    BY <1>0, <2>1 DEF NInv, Untried, Doubled, Covered, NearBest
<1>2. CASE Double
  <2>1. phase = "bracket" /\ phase' = "bracket" /\ bound' = 2 * bound /\ tried' = tried /\ tried = 0
    BY <1>2 DEF Double, NInv, Untried
  <2>2. Doubled'
    <3>1. PICK i \in Nat : bound = TwoTo[i]
      BY <2>1 DEF NInv, Doubled
    <3>2. bound' = TwoTo[i + 1] /\ i + 1 \in Nat
      BY <2>1, <3>1, TwoToRec
    <3> QED
      BY <3>2 DEF Doubled
  <2> QED
    BY <1>0, <2>1, <2>2 DEF NInv, Untried, Covered, NearBest
<1>3. CASE Divide
  <2>1. phase = "bracket" /\ phase' \in {"search", "done"} /\ tried' = tried /\ tried = 0
    BY <1>3 DEF Divide, Finish, NInv, Untried
  <2> QED
    BY <1>0, <1>3, <2>1, DivideCovers DEF NInv, Untried, Doubled, NearBest
<1>4. CASE Narrow
  <2>1. /\ market' = market /\ limit' = limit /\ searcher' = searcher /\ bound' = bound
        /\ phase = "search" /\ phase' = "search" /\ tried' = tried
    BY <1>4 DEF Narrow
  <2>2. Covered'
    BY <2>1 DEF NInv, Covered, Clip, Upper, Size
  <2> QED
    BY <1>0, <2>1, <2>2 DEF NInv, Untried, Doubled, NearBest
<1>5. CASE Answer
  <2>1. phase' = "done"
    BY <1>5 DEF Answer, Finish
  <2> QED
    BY <1>0, <1>5, <2>1, AnswerIsNear DEF NInv, Untried, Doubled, Covered
<1>6. CASE UNCHANGED vars
  <2>1. UNCHANGED <<market, limit, searcher, phase, bound, tried>>
    BY <1>6 DEF vars
  <2>2. Covered' /\ NearBest'
    BY <2>1 DEF NInv, Covered, NearBest, Clip, Upper, Size
  <2> QED
    BY <1>0, <2>1, <2>2 DEF NInv, Untried, Doubled
<1> QED
  BY <1>1, <1>2, <1>3, <1>4, <1>5, <1>6 DEF Next, Done

(* For every market with one peak: the size that is tried in the end is      *)
(* within half of the last interval of the best one, wherever the doubling   *)
(* of the upper end stops and whether max_size is applied to the interval or *)
(* to the size found (route.rs:163-181, velodrome_stable.rs:200-243,         *)
(* profit.rs:34-47).                                                         *)
THEOREM SizeIsNearBest == Spec => []NearBest
<1>1. Init => NInv
  <2>1. TwoTo[0] = 1
    BY TwoToRec
  <2> QED
    BY <2>1, InitEstablishesIInv DEF Init, NInv, Untried, Doubled, Covered, NearBest
<1>2. NInv => NearBest
  BY DEF NInv
<1> QED
  BY <1>1, <1>2, NearStep, PTL DEF Spec

-----------------------------------------------------------------------------
(* Every search keeps the contract of optimal_size.                        *)

(* The size that is answered respects max_size, before or after the search. *)
LEMMA SizeFoundFacts ==
    ASSUME IInv, phase = "search", k = 1
    PROVE  SizeFound \in Nat /\ Within(limit, SizeFound)
<1>1. long = bound /\ short = bound /\ bound \in Nat
  <2>1. bound \in Nat
    BY GoldenAssumption DEF IInv, Types
  <2>2. 1 * bound = bound
    BY <2>1
  <2> QED
    BY <2>1, <2>2, FibFacts DEF IInv, Searching, Inside
<1>2. a \in Nat /\ Upper \in Nat /\ Middle \in Nat /\ Middle <= Upper
  <2>1. Upper \in Nat
    BY <1>1, SizeIsNat DEF Upper
  <2> QED
    BY <1>1, <2>1 DEF IInv, Types, Searching, Inside, Middle
<1>3. limit = NoLimit \/ limit \in Nat
  BY MarketAssumption DEF IInv, Types
<1>4. CASE ClipsSize(searcher)
  BY <1>2, <1>3, <1>4 DEF SizeFound, Clip, Smaller, Within
<1>5. CASE ~ClipsSize(searcher)
  <2>1. limit # NoLimit => Upper <= limit
    BY <1>5 DEF IInv, Searching, Limited, ClipsSize, ClipsInterval
  <2> QED
    BY <1>2, <1>3, <1>5, <2>1 DEF SizeFound, Within
<1> QED
  BY <1>4, <1>5

(* Nothing is earned with nothing. *)
LEMMA NoProfitAtZero == ASSUME NEW m \in Markets PROVE NetProfit(m, 0) <= 0
<1>1. m.price \in Nat /\ m.fixed \in Nat /\ Output(m, 0) = 0
  BY MarketAssumption
<1>2. m.price * 0 = 0
  BY <1>1
<1> QED
  BY <1>1, <1>2 DEF NetProfit

(* The contract speaks of the same market. *)
LEMMA SameMarket ==
    ASSUME NEW m, NEW x
    PROVE  /\ Contract!Output(m, x) = Output(m, x)
           /\ Contract!Feasible(m, x) = Feasible(m, x)
           /\ Contract!NetProfit(m, x) = NetProfit(m, x)
           /\ Contract!WorthStarting(m) = WorthStarting(m)
           /\ Contract!Within(m, x) = Within(m, x)
BY DEF Contract!Output, Output, Contract!Quote, Quote, Contract!Feasible, Feasible,
       Contract!NetProfit, NetProfit, Contract!WorthStarting, WorthStarting,
       Contract!Within, Within

LEMMA AnswerKeepsContract ==
    ASSUME IInv, Answer PROVE Contract!Next
<1>1. /\ phase = "search" /\ k = 1 /\ tried' = SizeFound
      /\ UNCHANGED <<market, limit, searcher>>
  BY DEF Answer, query
<1>2. outcome = Pending /\ market \in Markets
      /\ (searcher = "route") = (Len(market.legs) >= 2)
  BY <1>1 DEF IInv, Types
<1>3. SizeFound \in Nat /\ Within(limit, SizeFound)
  BY <1>1, SizeFoundFacts
<1>4. ASSUME NEW e \in Errors, outcome' = Err(e),
             e = "NoArbitrageOpportunity" => searcher = "route"
      PROVE  Contract!Next
  <2>1. Contract!Refuse(e)
    BY <1>1, <1>2, <1>4 DEF Contract!Refuse, Contract!Pending, Contract!Err, Pending, Err
  <2> QED
    BY <2>1, <1>4 DEF Contract!Next, Contract!Errors, Errors
<1>5. ASSUME outcome' = Ok(tried', NetProfit(market, tried')),
             Feasible(market, tried'), ~(NetProfit(market, tried') <= 0)
      PROVE  Contract!Next
  <2>1. tried' \in Nat \ {0}
    BY <1>1, <1>2, <1>3, <1>5, NoProfitAtZero
  <2>2. NetProfit(market, tried') > 0
    <3>1. market.price \in Nat /\ market.fixed \in Nat /\ Output(market, tried') \in Nat
      BY <1>2, <1>5, MarketAssumption DEF Feasible
    <3>2. market.price * tried' \in Int
      BY <2>1, <3>1
    <3>3. NetProfit(market, tried') \in Int
      BY <3>1, <3>2 DEF NetProfit
    <3> QED
      BY <1>5, <3>3
  <2>3. outcome'.kind = "ok" /\ outcome'.size = tried'
    BY <1>5 DEF Ok
  <2>4. Contract!Accept(tried')
    BY <1>1, <1>2, <1>3, <1>5, <2>2, SameMarket
    DEF Contract!Accept, Contract!Pending, Pending, Contract!Ok, Ok
  <2> QED
    BY <2>1, <2>3, <2>4 DEF Contract!Next
<1>6. /\ "NoProfitableSize" \in Errors /\ QuoteErrors \subseteq Errors
      /\ "NoArbitrageOpportunity" \notin QuoteErrors
  BY DEF Errors, QuoteErrors
<1>7. \/ outcome' = Err("NoProfitableSize") \/ \E e \in QuoteErrors : outcome' = Err(e)
      \/ /\ outcome' = Ok(tried', NetProfit(market, tried'))
         /\ Feasible(market, tried') /\ ~(NetProfit(market, tried') <= 0)
      \/ \E e \in Errors : searcher = "route" /\ outcome' = Err(e)
  BY Zenon DEF Answer, Finish, TierFails
<1> QED
  BY <1>4, <1>5, <1>6, <1>7

LEMMA StepKeepsContract ==
    ASSUME IInv, [Next]_vars PROVE [Contract!Next]_<<market, limit, outcome>>
<1> USE DEF query
<1>1. CASE Probe
  <2>1. /\ phase = "probe" /\ UNCHANGED <<market, limit, searcher>>
        /\ \/ outcome' = Err("InvalidReserves")
           \/ \E e \in QuoteErrors : outcome' = Err(e)
           \/ ~WorthStarting(market) /\ outcome' = Err("NoArbitrageOpportunity")
           \/ UNCHANGED outcome
    BY <1>1, Zenon DEF Probe, Finish
  <2>2. outcome = Pending
    BY <2>1 DEF IInv, Types
  <2>3. ASSUME NEW e \in Errors, outcome' = Err(e),
               e = "NoArbitrageOpportunity" => ~WorthStarting(market)
        PROVE  Contract!Next
    <3>1. Contract!Refuse(e)
      BY <2>1, <2>2, <2>3, SameMarket
      DEF Contract!Refuse, Contract!Pending, Contract!Err, Pending, Err
    <3> QED
      BY <3>1, <2>3 DEF Contract!Next, Contract!Errors, Errors
  <2>4. /\ "NoArbitrageOpportunity" \in Errors /\ "InvalidReserves" \in Errors
        /\ QuoteErrors \subseteq Errors /\ "NoArbitrageOpportunity" \notin QuoteErrors
    BY DEF Errors, QuoteErrors
  <2> QED
    BY <2>1, <2>3, <2>4
<1>2. CASE Double
  BY <1>2 DEF Double
<1>3. CASE Divide
  <2>1. CASE UNCHANGED outcome
    BY <1>3, <2>1 DEF Divide
  <2>2. CASE ~ UNCHANGED outcome
    <3>1. /\ outcome' = Err("NoProfitableSize") /\ phase = "bracket"
          /\ UNCHANGED <<market, limit, searcher>>
      BY <1>3, <2>2 DEF Divide, Finish
    <3>2. outcome = Pending
      BY <3>1 DEF IInv, Types
    <3>3. "NoProfitableSize" \in Errors
      BY DEF Errors
    <3>4. Contract!Refuse("NoProfitableSize")
      BY <3>1, <3>2 DEF Contract!Refuse, Contract!Pending, Contract!Err, Pending, Err
    <3> QED
      BY <3>3, <3>4 DEF Contract!Next, Contract!Errors, Errors
  <2> QED
    BY <2>1, <2>2
<1>4. CASE Narrow
  BY <1>4 DEF Narrow
<1>5. CASE Answer
  BY <1>5, AnswerKeepsContract
<1>6. CASE UNCHANGED vars
  BY <1>6 DEF vars
<1> QED
  BY <1>1, <1>2, <1>3, <1>4, <1>5, <1>6 DEF Next, Done

(* For every curve, max_size, fixed cost and search: one answer, never      *)
(* above max_size, with the profit of the size it names, and "no arbitrage" *)
(* only where there is none or a leg of a route said so.                    *)
THEOREM SearchesKeepContract == Spec => MeetsContract
<1>1. Init => Contract!Init
  BY MarketAssumption, SameMarket DEF Init, Contract!Init, Contract!Pending, Pending
<1> QED
  BY <1>1, InvariantOfSearch, StepKeepsContract, PTL
  DEF Spec, MeetsContract, Contract!Spec

-----------------------------------------------------------------------------
(* Quotes.  First, arithmetic.                                             *)

(* What a truncating division loses is less than the divisor. *)
LEMMA DivisionBounds ==
    ASSUME NEW p \in Int, NEW q \in Nat \ {0}
    PROVE  p \div q \in Int /\ q * (p \div q) <= p /\ p < q * (p \div q) + q
BY SMT

(* A product grows with its factors. *)
LEMMA ProductGrows ==
    ASSUME NEW x \in Int, NEW y \in Int, x <= y, NEW z \in Nat
    PROVE  x * z <= y * z /\ z * x <= z * y
<1>1. y - x >= 0
  OBVIOUS
<1>2. (y - x) * z >= 0
  BY <1>1
<1>3. (y - x) * z = y * z - x * z
  OBVIOUS
<1> QED
  BY <1>2, <1>3

(* The cubic of VelodromeStable and its derivative, and how much it rises *)
(* from one place to another.                                             *)
Cubic(X, v) == v * (v * v + X * X)
Slope(X, v) == 3 * v * v + X * X

LEMMA CubicDifference ==
    ASSUME NEW X \in Nat, NEW u \in Nat, NEW v \in Nat
    PROVE  Cubic(X, v) - Cubic(X, u) = (v - u) * (v * v + v * u + u * u + X * X)
BY DEF Cubic

LEMMA CubicGap ==
    ASSUME NEW X \in Nat, NEW u \in Nat, NEW v \in Nat, NEW w \in Nat, u + w <= v
    PROVE  Cubic(X, v) - Cubic(X, u) >= w * (v * v + X * X)
<1> DEFINE s == v * v + X * X
           r == v * v + v * u + u * u + X * X
<1>1. v * v \in Nat /\ v * u \in Nat /\ u * u \in Nat /\ X * X \in Nat
  OBVIOUS
<1>2. s \in Nat /\ r \in Nat /\ s <= r
  BY <1>1
<1>3. w * s <= w * r
  BY <1>2, ProductGrows
<1>4. w * r <= (v - u) * r
  BY <1>2, ProductGrows
<1>5. (v - u) * r \in Int /\ w * s \in Int /\ w * r \in Int
  BY <1>2
<1>6. Cubic(X, v) - Cubic(X, u) = (v - u) * r
  BY CubicDifference
<1> HIDE DEF r, s
<1>7. Cubic(X, v) - Cubic(X, u) >= w * s
  BY <1>3, <1>4, <1>5, <1>6
<1> QED
  BY <1>7 DEF s

(* The cubic lies above its tangent. *)
LEMMA CubicBack ==
    ASSUME NEW X \in Int, NEW v \in Int, NEW t \in Int
    PROVE  Cubic(X, v - t) = Cubic(X, v) - Slope(X, v) * t + (t * t) * (3 * v - t)
<1>1. (v - t) * (v - t) = v * v - 2 * (v * t) + t * t
  OBVIOUS
<1>2. (v - t) * (v * v - 2 * (v * t) + t * t + X * X)
      = v * (v * v + X * X) - (3 * v * v + X * X) * t + (t * t) * (3 * v - t)
  OBVIOUS
<1> QED
  BY <1>1, <1>2 DEF Cubic, Slope

(* A step of Newton's method from above the root, truncated, stays above it, *)
(* and the root is no further below than three such steps and three units.  *)
LEMMA NewtonStep ==
    ASSUME NEW v \in Nat \ {0}, NEW X \in Nat \ {0}, NEW target \in Nat,
           Cubic(X, v) >= target,
           NEW t, t = (Cubic(X, v) - target) \div Slope(X, v)
    PROVE  /\ t \in Nat /\ t < v
           /\ Cubic(X, v - t) >= target
           /\ \A u \in Nat : u + 3 * (t + 1) <= v => Cubic(X, u) < target
<1> DEFINE P == Slope(X, v)
           h == Cubic(X, v) - target
<1>1. v * v \in Nat /\ X * X \in Nat /\ X * X > 0 /\ v * v > 0
  OBVIOUS
<1>2. P \in Nat \ {0} /\ h \in Nat /\ Cubic(X, v) \in Nat
  BY <1>1 DEF Slope, Cubic
<1>3. t \in Int /\ P * t <= h /\ h < P * t + P
  <2> HIDE DEF P, h
  <2>1. t = h \div P
    BY DEF P, h
  <2>2. /\ h \div P \in Int /\ P * (h \div P) <= h
        /\ h < P * (h \div P) + P
    <3>1. h \in Int /\ P \in Nat \ {0}
      BY <1>2
    <3> QED
      BY <3>1, DivisionBounds
  <2> QED
    BY <2>1, <2>2
<1>4. t >= 0
  <2> HIDE DEF P, h
  <2>1. SUFFICES ASSUME t + 1 <= 0 PROVE FALSE
    BY <1>3
  <2>2. P * (t + 1) <= P * 0
    BY <1>2, <1>3, <2>1, ProductGrows
  <2> QED
    BY <1>2, <1>3, <2>2
<1>5. t < v
  <2>1. SUFFICES ASSUME v <= t PROVE FALSE
    BY <1>3
  <2>2. P * v <= P * t
    BY <1>2, <1>3, <2>1, ProductGrows
  <2>3. P * v = Cubic(X, v) + 2 * (v * (v * v))
    BY DEF Slope, Cubic
  <2>4. v * (v * v) \in Nat /\ v * (v * v) > 0
    BY <1>1
  <2>5. P * t \in Int /\ P * v \in Int
    BY <1>2, <1>3
  <2> HIDE DEF P
  <2> QED
    BY <1>2, <1>3, <2>2, <2>3, <2>4, <2>5
<1>6. Cubic(X, v - t) >= target
  <2>1. Cubic(X, v - t) = Cubic(X, v) - P * t + (t * t) * (3 * v - t)
    BY <1>3, CubicBack
  <2>2. t * t \in Nat /\ 3 * v - t \in Nat
    BY <1>3, <1>4, <1>5
  <2>3. (t * t) * (3 * v - t) \in Nat
    BY <2>2
  <2>4. P * t \in Int
    BY <1>2, <1>3
  <2> HIDE DEF P
  <2> QED
    BY <1>2, <1>3, <2>1, <2>3, <2>4
<1>7. ASSUME NEW u \in Nat, u + 3 * (t + 1) <= v PROVE Cubic(X, u) < target
  <2>1. 3 * (t + 1) \in Nat
    BY <1>3, <1>4
  <2>2. Cubic(X, v) - Cubic(X, u) >= 3 * (t + 1) * (v * v + X * X)
    BY <1>7, <2>1, CubicGap
  <2>3. 3 * (t + 1) * (v * v + X * X) = (P * t + P) + 2 * ((t + 1) * (X * X))
    BY <1>3 DEF Slope
  <2>4. (t + 1) * (X * X) \in Nat
    BY <1>1, <1>3, <1>4
  <2>5. Cubic(X, u) \in Int /\ P * t \in Int
    BY <1>2, <1>3 DEF Cubic
  <2> HIDE DEF P
  <2> QED
    BY <1>2, <1>3, <2>2, <2>3, <2>4, <2>5
<1> QED
  BY <1>3, <1>4, <1>5, <1>6, <1>7

-----------------------------------------------------------------------------
(* A VelodromeStable pool, whose output reserve stays above the root of its *)
(* cubic: v is above it, by less than s.                                    *)

Near(v, s) ==
    /\ v \in 1 .. OldOutput /\ H(v) >= 0
    /\ \A u \in 1 .. OldOutput : u + s <= v => H(u) <= 0

(* Two steps within the tolerance, and what they are rounded by. *)
Shortfall == 2 * (Greater(OldOutput, Token) \div Precision) + 3

(* H and HPrime are that cubic, less its target, and its derivative. *)
LEMMA HIsCubic == \A v : H(v) = Cubic(NewInput, v) - CTarget /\ HPrime(v) = Slope(NewInput, v)
BY DEF H, HPrime, Cubic, Slope

(* The reserve that the iteration starts from is above the root, because the *)
(* input only adds to the other one.                                         *)
LEMMA VelodromePool ==
    ASSUME pool \in Pools, pool.curve = "velodrome", size \in Nat
    PROVE  /\ OldOutput \in Nat \ {0} /\ NewInput \in Nat \ {0} /\ CTarget \in Nat
           /\ Cubic(NewInput, OldOutput) >= CTarget
           /\ size = 0 => Cubic(NewInput, OldOutput) < CTarget + NewInput
<1> DEFINE r == pool.reserves[pool.input]
           y == OldOutput
           e == AfterFee(size)
           X == NewInput
           q == (y * SumSquares) \div X
<1>1. r \in Nat \ {0} /\ y \in Nat \ {0} /\ SumSquares = y * y + r * r
  <2>1. pool.input \in {1, 2} /\ pool.reserves \in Seq(Nat \ {0}) /\ Len(pool.reserves) > 1
    BY NewtonAssumption
  <2>2. pool.reserves[1] \in Nat \ {0} /\ pool.reserves[2] \in Nat \ {0}
    BY <2>1
  <2> QED
    BY <2>1, <2>2 DEF OldOutput, Bought, SumSquares
<1>2. e \in Nat /\ (size = 0 => e = 0)
  <2>1. pool.fee \in Nat /\ One \in Nat \ {0}
    BY NewtonAssumption
  <2>2. size * pool.fee \in Nat /\ (size = 0 => size * pool.fee = 0)
    BY <2>1
  <2> QED
    BY <2>1, <2>2, DivisionFloor DEF AfterFee
<1>3. X = r + e
  BY DEF NewInput
<1>4. X \in Nat \ {0} /\ r <= X /\ (size = 0 => X = r)
  BY <1>1, <1>2, <1>3
<1> HIDE DEF r, y, e, X
<1>5. y * SumSquares \in Nat /\ y * (y * y + X * X) \in Nat
  BY <1>1, <1>4
<1>6. q \in Nat /\ X * q <= y * SumSquares /\ y * SumSquares < X * q + X
  <2> DEFINE z == y * SumSquares
  <2>1. z \in Nat
    BY <1>5
  <2> HIDE DEF z
  <2>2. z \div X \in Nat /\ X * (z \div X) <= z /\ z < X * (z \div X) + X
    BY <1>4, <2>1, DivisionFloor, DivisionBounds
  <2> QED
    BY <2>2 DEF z
<1>7. y * SumSquares <= y * (y * y + X * X)
  <2>1. r * r <= X * X
    BY <1>1, <1>4
  <2> QED
    BY <1>1, <1>4, <2>1, ProductGrows
<1>8. CTarget = q * r
  BY DEF CTarget, y, r, X
<1> HIDE DEF q
<1>9. q * r \in Nat /\ q * r <= X * q
  BY <1>1, <1>4, <1>6, ProductGrows
<1>10. Cubic(X, y) = y * (y * y + X * X)
  BY DEF Cubic
<1>11. Cubic(X, y) >= CTarget
  BY <1>1, <1>4, <1>5, <1>6, <1>7, <1>8, <1>9, <1>10
<1>12. size = 0 => Cubic(X, y) < CTarget + X
  BY <1>1, <1>4, <1>5, <1>6, <1>8, <1>9, <1>10
<1> QED
  BY <1>1, <1>4, <1>8, <1>9, <1>11, <1>12 DEF X, y

(* A size of zero buys nothing: the reserve itself is near the root. *)
LEMMA NothingIsNear ==
    ASSUME pool \in Pools, pool.curve = "velodrome", size = 0, NEW s \in Nat \ {0}
    PROVE  Near(OldOutput, s)
<1> DEFINE y == OldOutput
           X == NewInput
<1>1. /\ y \in Nat \ {0} /\ X \in Nat \ {0} /\ CTarget \in Nat
      /\ Cubic(X, y) >= CTarget /\ Cubic(X, y) < CTarget + X
  BY VelodromePool
<1> HIDE DEF y, X
<1>2. ASSUME NEW u \in 1 .. y, u + s <= y PROVE Cubic(X, u) < CTarget
  <2>1. Cubic(X, y) - Cubic(X, u) >= 1 * (y * y + X * X)
    <3>1. u \in Nat /\ y \in Nat /\ X \in Nat /\ 1 \in Nat /\ u + 1 <= y
      BY <1>1, <1>2
    <3> QED
      BY <3>1, CubicGap
  <2>2. y * y \in Nat /\ X * X >= X /\ X * X \in Nat
    BY <1>1
  <2>3. Cubic(X, y) \in Int /\ Cubic(X, u) \in Int
    BY <1>1 DEF Cubic
  <2> QED
    BY <1>1, <2>1, <2>2, <2>3
<1>3. Cubic(X, y) \in Int /\ \A u \in 1 .. y : Cubic(X, u) \in Int
  BY <1>1 DEF Cubic
<1> QED
  BY <1>1, <1>2, <1>3, HIsCubic DEF Near, y, X

(* A round keeps the iterate above the root, and does not raise it; and one *)
(* that ends the iteration leaves it near the root.                         *)
LEMMA VelodromeRound ==
    ASSUME pool \in Pools, pool.curve = "velodrome", size \in Nat,
           NEW v \in 1 .. OldOutput, H(v) >= 0, NEW w, w = VelodromeNext(v)
    PROVE  /\ w \in 1 .. v /\ H(w) >= 0 /\ HPrime(v) > 0
           /\ Abs(w - v) * Precision <= Greater(Abs(w), Token) => Near(w, Shortfall)
<1> DEFINE X == NewInput
           t == H(v) \div HPrime(v)
<1>1. OldOutput \in Nat \ {0} /\ X \in Nat \ {0} /\ CTarget \in Nat /\ v \in Nat \ {0}
  BY VelodromePool
<1>2. Cubic(X, v) \in Int /\ Cubic(X, v) >= CTarget
      /\ t = (Cubic(X, v) - CTarget) \div Slope(X, v)
  <2>1. Cubic(X, v) \in Int
    BY <1>1 DEF Cubic
  <2> QED
    BY <1>1, <2>1, HIsCubic
<1>3. w = v - t
  BY DEF VelodromeNext
<1> HIDE DEF X, t
<1>4. /\ t \in Nat /\ t < v /\ Cubic(X, v - t) >= CTarget
      /\ \A u \in Nat : u + 3 * (t + 1) <= v => Cubic(X, u) < CTarget
  BY <1>1, <1>2, NewtonStep
<1>5. w \in 1 .. v /\ Cubic(X, w) \in Int /\ Cubic(X, w) >= CTarget
  <2>1. w \in 1 .. v
    BY <1>1, <1>3, <1>4
  <2> QED
    BY <1>1, <1>3, <1>4, <2>1 DEF Cubic
<1>6. H(w) >= 0
  BY <1>1, <1>5, HIsCubic DEF X
<1>7. HPrime(v) > 0
  <2>1. v * v \in Nat \ {0} /\ X * X \in Nat
    BY <1>1
  <2>2. Slope(X, v) > 0
    BY <1>1, <2>1 DEF Slope
  <2> QED
    BY <2>2, HIsCubic DEF X
<1>8. ASSUME Abs(w - v) * Precision <= Greater(Abs(w), Token) PROVE Near(w, Shortfall)
  <2> DEFINE g == Greater(OldOutput, Token)
  <2>1. Precision \in Nat \ {0} /\ Token \in Nat
    BY NewtonAssumption
  <2>2. g \in Nat /\ Greater(Abs(w), Token) <= g
    BY <1>1, <1>5, <2>1 DEF Greater, Abs
  <2>3. Abs(w - v) = t
    BY <1>1, <1>3, <1>4 DEF Abs
  <2>4. t * Precision \in Nat /\ t * Precision <= g
    BY <1>1, <1>4, <1>5, <1>8, <2>1, <2>2, <2>3 DEF Greater, Abs
  <2> HIDE DEF g
  <2>5. t <= g \div Precision /\ g \div Precision \in Nat
    <3>1. g \div Precision \in Nat /\ g < Precision * (g \div Precision) + Precision
      BY <2>1, <2>2, DivisionFloor, DivisionBounds
    <3> DEFINE m == g \div Precision
    <3>2. SUFFICES ASSUME m + 1 <= t PROVE FALSE
      BY <1>4, <3>1
    <3> HIDE DEF m
    <3>3. m \in Nat /\ g < Precision * m + Precision
      BY <3>1 DEF m
    <3>4. (m + 1) * Precision <= t * Precision
      BY <1>4, <2>1, <3>2, <3>3, ProductGrows
    <3>5. (m + 1) * Precision = Precision * m + Precision /\ Precision * m \in Nat
      BY <2>1, <3>3
    <3> QED
      BY <2>1, <2>2, <2>4, <3>3, <3>4, <3>5
  <2>6. Shortfall \in Nat /\ Shortfall >= 2 * t + 3
    BY <1>4, <2>5 DEF Shortfall, g
  <2>7. ASSUME NEW u \in 1 .. OldOutput, u + Shortfall <= w PROVE H(u) <= 0
    <3>1. u \in Nat /\ u + 3 * (t + 1) <= v
      BY <1>1, <1>3, <1>4, <1>5, <2>6, <2>7
    <3>2. Cubic(X, u) < CTarget
      BY <1>4, <3>1
    <3>3. Cubic(X, u) \in Int
      BY <1>1, <3>1 DEF Cubic
    <3> QED
      BY <1>1, <3>2, <3>3, HIsCubic DEF X
  <2> QED
    BY <1>1, <1>5, <1>6, <2>7 DEF Near
<1> QED
  BY <1>5, <1>6, <1>7, <1>8

(* A set that holds all numbers up to u and none above v. *)
LEMMA CountBetween ==
    ASSUME NEW v \in Nat, NEW u \in Int, u <= v, NEW S, S \subseteq 1 .. v, 1 .. u \subseteq S
    PROVE  Cardinality(S) \in Nat /\ u <= Cardinality(S) /\ Cardinality(S) <= v
<1>1. IsFiniteSet(1 .. v) /\ Cardinality(1 .. v) = v
  BY FS_Interval
<1>2. IsFiniteSet(S) /\ Cardinality(S) \in Nat /\ Cardinality(S) <= v
  BY <1>1, FS_Subset, FS_CardinalityType
<1>3. CASE u <= 0
  BY <1>2, <1>3
<1>4. CASE u > 0
  <2>1. Cardinality(1 .. u) = u
    BY <1>4, FS_Interval
  <2>2. Cardinality(1 .. u) <= Cardinality(S)
    BY <1>2, FS_Subset
  <2> QED
    BY <1>2, <2>1, <2>2
<1> QED
  BY <1>3, <1>4

(* What is left of the reserve near the root is nearly the exact output. *)
LEMMA NearIsExact ==
    ASSUME pool \in Pools, pool.curve = "velodrome", size \in Nat,
           NEW v, NEW s \in Nat, Near(v, s)
    PROVE  /\ ExactOutput \in Int
           /\ OldOutput - v <= ExactOutput /\ OldOutput - v >= ExactOutput - s
<1> DEFINE y == OldOutput
           X == NewInput
           S == {u \in 1 .. y : H(u) <= 0}
<1>1. y \in Nat \ {0} /\ X \in Nat \ {0} /\ CTarget \in Nat
  BY VelodromePool
<1>2. /\ v \in 1 .. y /\ H(v) >= 0
      /\ \A u \in 1 .. y : u + s <= v => H(u) <= 0
  BY DEF Near
<1>3. ExactOutput = y - Cardinality(S)
  BY DEF ExactOutput, RootIn
<1> HIDE DEF y, X
<1>4. S \subseteq 1 .. v
  <2>1. SUFFICES ASSUME NEW u \in 1 .. y, H(u) <= 0, v + 1 <= u PROVE FALSE
    BY <1>1, <1>2
  <2>2. Cubic(X, u) - Cubic(X, v) >= 1 * (u * u + X * X)
    <3>1. u \in Nat /\ v \in Nat /\ X \in Nat /\ 1 \in Nat /\ v + 1 <= u
      BY <1>1, <1>2, <2>1
    <3> QED
      BY <3>1, CubicGap
  <2>3. u * u \in Nat /\ X * X > 0 /\ X * X \in Nat
    BY <1>1
  <2>4. Cubic(X, u) \in Int /\ Cubic(X, v) \in Int
    BY <1>1, <1>2 DEF Cubic
  <2>5. Cubic(X, u) <= CTarget /\ Cubic(X, v) >= CTarget
    BY <1>1, <1>2, <2>1, <2>4, HIsCubic DEF X
  <2> QED
    BY <1>1, <2>2, <2>3, <2>4, <2>5
<1>5. 1 .. (v - s) \subseteq S
  BY <1>1, <1>2
<1> HIDE DEF S
<1>6. Cardinality(S) \in Nat /\ v - s <= Cardinality(S) /\ Cardinality(S) <= v
  <2>1. v \in Nat /\ v - s \in Int /\ v - s <= v
    BY <1>1, <1>2
  <2> QED
    BY <1>4, <1>5, <2>1, CountBetween
<1>7. v \in Nat
  BY <1>1, <1>2
<1> QED
  BY <1>1, <1>3, <1>6, <1>7 DEF y

-----------------------------------------------------------------------------
(* A Pmm pool.                                                             *)

(* What is left below the pole is enough for a size to be filled. *)
LEMMA PmmPool ==
    ASSUME NEW p \in Pools, p.curve = "pmm"
    PROVE  /\ p.price \in Nat \ {0} /\ p.K \in Nat \ {0} /\ p.input = 1
           /\ p.reserves[1] \in Nat \ {0} /\ p.reserves[2] \in Nat \ {0}
           /\ CrossoverDelta(p) \in Nat /\ PoleMargin(p) \in Nat
           /\ PoleMargin(p) * p.price < p.K
<1>1. /\ p.price \in Nat \ {0} /\ p.K \in Nat \ {0} /\ p.input = 1
      /\ p.reserves \in Seq(Nat \ {0}) /\ Len(p.reserves) > 1
  BY NewtonAssumption
<1>2. p.reserves[1] \in Nat \ {0} /\ p.reserves[2] \in Nat \ {0}
  BY <1>1
<1>3. CrossoverDelta(p) \in Nat
  <2>1. TargetBaseReserve(p) \in Nat
    BY <1>1, <1>2, DivisionFloor DEF TargetBaseReserve
  <2> QED
    BY <1>2, <2>1 DEF CrossoverDelta, Greater
<1>4. Pole(p) \in Nat /\ p.price * Pole(p) <= p.K
  BY <1>1, DivisionFloor DEF Pole
<1>5. PoleMargin(p) \in Nat /\ 1000 * PoleMargin(p) <= Pole(p) * 999
  BY <1>4, DivisionFloor DEF PoleMargin
<1>6. PoleMargin(p) * p.price < p.K
  <2> DEFINE m == PoleMargin(p)
             r == p.price
             o == Pole(p)
  <2>1. m \in Nat /\ r \in Nat /\ o \in Nat /\ p.K \in Nat \ {0} /\ 1000 * m <= o * 999 /\ r * o <= p.K
    BY <1>1, <1>4, <1>5
  <2> HIDE DEF m, r, o
  <2>2. (1000 * m) * r <= (o * 999) * r
    BY <2>1, ProductGrows
  <2>3. (1000 * m) * r = 1000 * (m * r) /\ (o * 999) * r = 999 * (r * o)
    BY <2>1
  <2>4. m * r \in Nat /\ r * o \in Nat
    BY <2>1
  <2>5. m * r < p.K
    BY <2>1, <2>2, <2>3, <2>4
  <2> QED
    BY <2>5 DEF m, r
<1> QED
  BY <1>1, <1>2, <1>3, <1>5, <1>6

(* What a Pmm pays lies between nothing and its reserve, and below the pole *)
(* every size is paid for.                                                  *)
LEMMA PmmPays ==
    ASSUME NEW p \in Pools, p.curve = "pmm", NEW x \in Nat
    PROVE  /\ PmmQuote(p, x) # Unfillable => PmmQuote(p, x) \in 0 .. p.reserves[2]
           /\ x <= PoleMargin(p) => PmmQuote(p, x) # Unfillable
<1> DEFINE reverse == Lesser(x, CrossoverDelta(p))
           m == reverse * p.price
           restored == ReverseSellBase(p, reverse)
           basic == BasicSellBase(p, x - reverse)
<1>1. /\ p.price \in Nat \ {0} /\ p.K \in Nat \ {0}
      /\ p.reserves[2] \in Nat \ {0} /\ CrossoverDelta(p) \in Nat /\ PoleMargin(p) \in Nat
      /\ PoleMargin(p) * p.price < p.K
  BY PmmPool
<1>2. reverse \in Nat /\ reverse <= x
  BY <1>1 DEF Lesser
<1> HIDE DEF reverse
<1>3. m \in Nat
  BY <1>1, <1>2
<1>4. m < p.K => restored \in Nat
  <2>1. SUFFICES ASSUME m < p.K PROVE restored \in Nat
    OBVIOUS
  <2>2. p.K - m \in Nat \ {0} /\ m * p.K \in Nat
    BY <1>1, <1>3, <2>1
  <2>3. restored = (m * p.K) \div (p.K - m)
    BY <1>1, <1>3, <2>1 DEF ReverseSellBase
  <2> HIDE DEF m
  <2> QED
    BY <2>2, <2>3, DivisionFloor
<1>5. ~(m < p.K) => restored = Unfillable
  BY <1>1, <1>3 DEF ReverseSellBase
<1>6. basic \in Nat
  <2> DEFINE h == (x - reverse) * p.price
  <2>1. h \in Nat
    BY <1>1, <1>2
  <2> HIDE DEF h
  <2>2. h * p.K \in Nat /\ p.K + h \in Nat \ {0}
    BY <1>1, <2>1
  <2>3. basic = (h * p.K) \div (p.K + h)
    BY DEF BasicSellBase, h
  <2> QED
    BY <2>2, <2>3, DivisionFloor
<1>7. PmmQuote(p, x) = IF restored = Unfillable THEN Unfillable
                       ELSE Lesser(restored + basic, p.reserves[2])
  BY DEF PmmQuote, reverse
<1>8. x <= PoleMargin(p) => m < p.K
  <2>1. SUFFICES ASSUME x <= PoleMargin(p) PROVE m < p.K
    OBVIOUS
  <2>2. reverse * p.price <= PoleMargin(p) * p.price
    BY <1>1, <1>2, <2>1, ProductGrows
  <2>3. PoleMargin(p) * p.price \in Nat
    BY <1>1
  <2> QED
    BY <1>1, <1>3, <2>2, <2>3
<1> HIDE DEF m, restored, basic
<1>9. restored # Unfillable => restored \in Nat
  BY <1>4, <1>5
<1> QED
  BY <1>1, <1>4, <1>6, <1>7, <1>8, <1>9 DEF Lesser, Unfillable

(* What the quotes at the sample points are, by the loop. *)
IsSampled(f) ==
    f = [i \in Nat |->
            IF i = 0 THEN << >>
            ELSE LET q == PmmQuote(pool, Point(i - 1)) IN
                 IF q = Unfillable THEN f[i - 1] ELSE Append(f[i - 1], q)]

(* Where every size can be filled, no sample is left out. *)
LEMMA SampledAll ==
    ASSUME pool \in Pools, pool.curve = "pmm", value \in 0 .. PoleMargin(pool)
    PROVE  \A i \in 0 .. Samples :
              /\ PmmQuote(pool, Point(i)) \in Nat
              /\ Len(Sampled[Samples + 1]) = Samples + 1
              /\ Sampled[Samples + 1][i + 1] = PmmQuote(pool, Point(i))
<1> DEFINE quote(i) == PmmQuote(pool, Point(i))
           V == Seq(Int)
           step == [p \in Nat \X V |-> IF quote(p[1]) = Unfillable THEN p[2]
                                      ELSE Append(p[2], quote(p[1]))]
<1>1. Samples \in Nat \ {0} /\ PoleMargin(pool) \in Nat /\ value \in Nat /\ pool.reserves[2] \in Nat
  BY PmmPool, NewtonAssumption
<1>2. ASSUME NEW i \in Nat PROVE Point(i) \in Nat /\ (i <= Samples => Point(i) <= value)
  <2>1. value * i \in Nat
    BY <1>1
  <2>2. Point(i) \in Nat /\ Samples * Point(i) <= value * i
    BY <1>1, <2>1, DivisionFloor DEF Point
  <2>3. ASSUME i <= Samples, value + 1 <= Point(i) PROVE FALSE
    <3>1. Samples * (value + 1) <= Samples * Point(i)
      BY <1>1, <2>2, <2>3, ProductGrows
    <3>2. value * i <= value * Samples
      BY <1>1, <2>3, ProductGrows
    <3>3. Samples * (value + 1) = value * Samples + Samples /\ value * Samples \in Nat
      BY <1>1
    <3>4. Samples * Point(i) \in Nat
      BY <1>1, <2>2
    <3> QED
      BY <1>1, <2>1, <2>2, <3>1, <3>2, <3>3, <3>4
  <2> QED
    BY <1>1, <2>2, <2>3
<1>3. ASSUME NEW i \in Nat
      PROVE  /\ quote(i) # Unfillable => quote(i) \in Nat
             /\ i <= Samples => quote(i) # Unfillable
  <2>1. Point(i) \in Nat /\ (i <= Samples => Point(i) <= PoleMargin(pool))
    BY <1>1, <1>2
  <2> QED
    BY <1>1, <2>1, PmmPays
<1> HIDE DEF quote
<1>4. IsStep(step, V) /\ << >> \in V
  <2>1. ASSUME NEW p \in Nat \X V PROVE step[p] \in V
    BY <1>3
  <2> QED
    BY <2>1 DEF IsStep
<1>5. PICK f : IsRecursion(f, V, << >>, step)
  <2> HIDE DEF step, V
  <2> QED
    BY <1>4, Recursion
<1>6. \A i \in Nat : f[i] \in V /\ f[i + 1] = step[<<i, f[i]>>] /\ f[0] = << >>
  BY <1>5 DEF IsRecursion
<1>7. IsSampled(f)
  <2>1. ASSUME NEW i \in Nat \ {0}
        PROVE  f[i] = IF quote(i - 1) = Unfillable THEN f[i - 1] ELSE Append(f[i - 1], quote(i - 1))
    <3>1. i - 1 \in Nat /\ (i - 1) + 1 = i
      OBVIOUS
    <3>2. f[i] = step[<<i - 1, f[i - 1]>>] /\ f[i - 1] \in V
      BY <1>6, <3>1
    <3> QED
      BY <3>1, <3>2
  <2> QED
    BY <1>5, <1>6, <2>1 DEF IsSampled, IsRecursion, quote
<1>8. IsSampled(Sampled)
  <2>1. IsSampled(CHOOSE g : IsSampled(g))
    BY <1>7
  <2> QED
    BY <2>1 DEF Sampled, IsSampled
<1>9. \A i \in Nat : Sampled[i] = IF i = 0 THEN << >>
                                 ELSE IF quote(i - 1) = Unfillable THEN Sampled[i - 1]
                                 ELSE Append(Sampled[i - 1], quote(i - 1))
  BY <1>8 DEF IsSampled, quote
<1> DEFINE T == {m \in Nat : m <= Samples + 1 => Sampled[m] = [j \in 1 .. m |-> quote(j - 1)]}
<1>10. 0 \in T
  <2>1. [j \in 1 .. 0 |-> quote(j - 1)] = << >>
    OBVIOUS
  <2> QED
    BY <1>9, <2>1
<1>11. ASSUME NEW m \in Nat, m \in T PROVE m + 1 \in T
  <2>1. SUFFICES ASSUME m + 1 <= Samples + 1
                 PROVE  Sampled[m + 1] = [j \in 1 .. m + 1 |-> quote(j - 1)]
    OBVIOUS
  <2> DEFINE s == [j \in 1 .. m |-> quote(j - 1)]
             r == [j \in 1 .. m + 1 |-> quote(j - 1)]
  <2>2. Sampled[m] = s
    BY <1>11, <1>1, <2>1
  <2>3. quote(m) # Unfillable
    BY <1>1, <1>3, <2>1
  <2>4. Sampled[m + 1] = Append(s, quote(m))
    <3>1. m + 1 \in Nat /\ m + 1 # 0 /\ (m + 1) - 1 = m
      OBVIOUS
    <3> HIDE DEF s
    <3> QED
      BY <1>9, <2>2, <2>3, <3>1
  <2>5. Append(s, quote(m)) = r
    <3>1. \A j \in 1 .. m : quote(j - 1) \in Int
      BY <1>1, <1>3, <2>1
    <3>2. s \in Seq(Int) /\ Len(s) = m /\ quote(m) \in Int
      BY <1>1, <1>3, <2>1, <3>1
    <3>3. Append(s, quote(m)) = [j \in 1 .. m + 1 |-> IF j = m + 1 THEN quote(m) ELSE s[j]]
      BY <3>2
    <3> QED
      BY <3>3
  <2> QED
    BY <2>4, <2>5
<1>12. Sampled[Samples + 1] = [j \in 1 .. Samples + 1 |-> quote(j - 1)]
  <2> HIDE DEF T
  <2>1. \A m \in Nat : m \in T
    BY <1>10, <1>11, NatSet
  <2> QED
    BY <1>1, <2>1 DEF T
<1>13. ASSUME NEW i \in 0 .. Samples
       PROVE  /\ quote(i) \in Nat /\ Len(Sampled[Samples + 1]) = Samples + 1
              /\ Sampled[Samples + 1][i + 1] = quote(i)
  <2>1. i \in Nat /\ i <= Samples /\ i + 1 \in 1 .. Samples + 1 /\ (i + 1) - 1 = i
    BY <1>1
  <2> QED
    BY <1>1, <1>3, <1>12, <2>1
<1> QED
  BY <1>13 DEF quote

(* A sequence of N + 1 numbers whose slopes never rise. *)
Concave(f, N) == \A i \in 1 .. N - 1 : f[i + 1] - f[i] <= f[i] - f[i - 1]

(* What follows a point rises no faster than the step to it did ... *)
LEMMA RiseAfter ==
    ASSUME NEW N \in Nat, NEW f \in [0 .. N -> Int], Concave(f, N),
           NEW j \in 1 .. N, NEW m \in Nat, j + m <= N
    PROVE  /\ f[j + m] - f[j] <= m * (f[j] - f[j - 1])
           /\ f[j + m] - f[j + m - 1] <= f[j] - f[j - 1]
<1> DEFINE s == f[j] - f[j - 1]
           T == {i \in Nat : j + i <= N => /\ f[j + i] - f[j] <= i * s
                                           /\ f[j + i] - f[j + i - 1] <= s}
<1>1. s \in Int
  OBVIOUS
<1>2. 0 \in T
  BY <1>1
<1>3. ASSUME NEW i \in Nat, i \in T PROVE i + 1 \in T
  <2>1. SUFFICES ASSUME j + (i + 1) <= N
                 PROVE  /\ f[j + (i + 1)] - f[j] <= (i + 1) * s
                        /\ f[j + (i + 1)] - f[j + (i + 1) - 1] <= s
    OBVIOUS
  <2> DEFINE h == j + i
  <2>2. h \in 1 .. N - 1 /\ h - 1 \in 0 .. N /\ h + 1 \in 0 .. N /\ h \in 0 .. N
        /\ j + (i + 1) = h + 1 /\ j + (i + 1) - 1 = h
    BY <2>1
  <2>3. f[h + 1] - f[h] <= f[h] - f[h - 1]
    BY <2>2 DEF Concave
  <2>4. f[h] - f[j] <= i * s /\ f[h] - f[h - 1] <= s
    BY <1>3, <2>1
  <2>5. f[h] \in Int /\ f[h + 1] \in Int /\ f[h - 1] \in Int /\ f[j] \in Int
    BY <2>2
  <2>6. (i + 1) * s = i * s + s /\ i * s \in Int
    BY <1>1
  <2> HIDE DEF h, s
  <2> QED
    BY <1>1, <2>2, <2>3, <2>4, <2>5, <2>6
<1>4. m \in T
  <2> HIDE DEF T
  <2> QED
    BY <1>2, <1>3, NatSet
<1> QED
  BY <1>4

(* ... and what precedes it no slower. *)
LEMMA RiseBefore ==
    ASSUME NEW N \in Nat, NEW f \in [0 .. N -> Int], Concave(f, N),
           NEW j \in 1 .. N, NEW m \in Nat, m <= j
    PROVE  f[j] - f[j - m] >= m * (f[j] - f[j - 1])
<1> DEFINE s == f[j] - f[j - 1]
           T == {i \in Nat : i <= j => f[j] - f[j - i] >= i * s}
<1>1. s \in Int
  OBVIOUS
<1>2. 0 \in T
  BY <1>1
<1>3. ASSUME NEW i \in Nat, i \in T PROVE i + 1 \in T
  <2>1. SUFFICES ASSUME i + 1 <= j PROVE f[j] - f[j - (i + 1)] >= (i + 1) * s
    OBVIOUS
  <2> DEFINE h == j - i
  <2>2. h \in 1 .. N /\ h - 1 \in 0 .. N /\ h \in 0 .. N /\ j - (i + 1) = h - 1
        /\ h + i = j /\ h + i - 1 = j - 1 /\ h + i <= N
    BY <2>1
  <2>3. f[h + i] - f[h + i - 1] <= f[h] - f[h - 1]
    <3> HIDE DEF h
    <3> QED
      BY <2>2, RiseAfter
  <2>4. s <= f[h] - f[h - 1]
    BY <2>2, <2>3
  <2>5. f[j] - f[h] >= i * s
    BY <1>3, <2>1
  <2>6. f[h] \in Int /\ f[h - 1] \in Int /\ f[j] \in Int
    BY <2>2
  <2>7. (i + 1) * s = i * s + s /\ i * s \in Int
    BY <1>1
  <2> HIDE DEF h, s
  <2> QED
    BY <1>1, <2>2, <2>4, <2>5, <2>6, <2>7
<1>4. m \in T
  <2> HIDE DEF T
  <2> QED
    BY <1>2, <1>3, NatSet
<1> QED
  BY <1>4

(* So no point lies below the chord of two others. *)
LEMMA AboveChords ==
    ASSUME NEW N \in Nat, NEW f \in [0 .. N -> Int], Concave(f, N),
           NEW h \in 0 .. N, NEW i \in 0 .. N, NEW j \in 0 .. N, h < i, i < j
    PROVE  (j - h) * f[i] >= (j - i) * f[h] + (i - h) * f[j]
<1> DEFINE s == f[i] - f[i - 1]
           x == f[i] - f[h]
           y == f[j] - f[i]
<1>1. i \in 1 .. N /\ i - 1 \in 0 .. N /\ i - h \in Nat /\ j - i \in Nat
      /\ i - (i - h) = h /\ i + (j - i) = j
  OBVIOUS
<1>2. s \in Int /\ x \in Int /\ y \in Int
  BY <1>1
<1>3. x >= (i - h) * s
  <2>1. i - h <= i
    OBVIOUS
  <2>2. f[i] - f[i - (i - h)] >= (i - h) * (f[i] - f[i - 1])
    BY <1>1, <2>1, RiseBefore
  <2> QED
    BY <1>1, <2>2
<1>4. y <= (j - i) * s
  <2>1. i + (j - i) <= N
    BY <1>1
  <2>2. f[i + (j - i)] - f[i] <= (j - i) * (f[i] - f[i - 1])
    BY <1>1, <2>1, RiseAfter
  <2> QED
    BY <1>1, <2>2
<1>5. (j - i) * x >= (i - h) * y
  <2> DEFINE p == i - h
             r == j - i
  <2>1. p \in Nat /\ r \in Nat /\ x >= p * s /\ y <= r * s
    BY <1>1, <1>3, <1>4
  <2> HIDE DEF p, r, s, x, y
  <2>2. p * s \in Int /\ r * s \in Int
    BY <1>2, <2>1
  <2>3. r * (p * s) <= r * x /\ p * y <= p * (r * s)
    BY <1>2, <2>1, <2>2, ProductGrows
  <2>4. r * (p * s) = p * (r * s)
    BY <1>2, <2>1
  <2>5. r * x \in Int /\ p * y \in Int /\ r * (p * s) \in Int /\ p * (r * s) \in Int
    BY <1>2, <2>1, <2>2
  <2>6. r * x >= p * y
    BY <2>3, <2>4, <2>5
  <2> QED
    BY <2>6 DEF p, r
<1>6. f[h] \in Int /\ f[i] \in Int /\ f[j] \in Int
  OBVIOUS
<1> QED
  <2> DEFINE fh == f[h]
             fi == f[i]
             fj == f[j]
  <2>1. fh \in Int /\ fi \in Int /\ fj \in Int /\ (j - i) * (fi - fh) >= (i - h) * (fj - fi)
    BY <1>5, <1>6
  <2> HIDE DEF fh, fi, fj
  <2>2. (j - h) * fi >= (j - i) * fh + (i - h) * fj
    <3>1. (j - i) * (fi - fh) - (i - h) * (fj - fi) = (j - h) * fi - ((j - i) * fh + (i - h) * fj)
      BY <2>1
    <3>2. (j - i) * (fi - fh) \in Int /\ (i - h) * (fj - fi) \in Int
          /\ (j - h) * fi \in Int /\ (j - i) * fh \in Int /\ (i - h) * fj \in Int
      <4>1. j - i \in Int /\ i - h \in Int /\ j - h \in Int /\ fi - fh \in Int /\ fj - fi \in Int
        BY <2>1
      <4> QED
        BY <2>1, <4>1
    <3> QED
      BY <2>1, <3>1, <3>2
  <2> QED
    BY <2>2 DEF fh, fi, fj

(* What is confirmed is concave. *)
LEMMA ConfirmedIsConcave ==
    ASSUME NEW N \in Nat, N > 1, NEW s, Len(s) = N + 1, NEW f \in [0 .. N -> Int],
           \A i \in 0 .. N : s[i + 1] = f[i], NeverConvex(s)
    PROVE  Concave(f, N)
<1> DEFINE r == Differences(s)
           t == Differences(r)
<1>1. r = [i \in 1 .. N |-> s[i + 1] - s[i]]
  BY DEF Differences
<1>2. Len(r) = N
  BY <1>1
<1>3. t = [i \in 1 .. N - 1 |-> r[i + 1] - r[i]]
  <2> HIDE DEF r
  <2> QED
    BY <1>2 DEF Differences
<1>4. \A i \in 1 .. N - 1 : t[i] <= 0
  <2>1. ~(Len(s) < 3)
    OBVIOUS
  <2>2. \A i \in DOMAIN t : t[i] <= 0
    BY <2>1 DEF NeverConvex
  <2>3. DOMAIN t = 1 .. N - 1
    <3> HIDE DEF r
    <3> QED
      BY <1>3
  <2> HIDE DEF t
  <2> QED
    BY <2>2, <2>3
<1>5. ASSUME NEW i \in 1 .. N - 1 PROVE f[i + 1] - f[i] <= f[i] - f[i - 1]
  <2>1. i \in 1 .. N /\ i + 1 \in 1 .. N /\ i + 1 \in 0 .. N /\ i \in 0 .. N /\ i - 1 \in 0 .. N
        /\ (i - 1) + 1 = i
    OBVIOUS
  <2>2. r[i + 1] = f[i + 1] - f[i] /\ r[i] = f[i] - f[i - 1]
    BY <1>1, <2>1
  <2>3. t[i] = r[i + 1] - r[i] /\ t[i] <= 0
    <3> HIDE DEF r
    <3> QED
      BY <1>3, <1>4
  <2>4. f[i + 1] \in Int /\ f[i] \in Int /\ f[i - 1] \in Int
    BY <2>1
  <2> HIDE DEF r, t
  <2> QED
    BY <2>2, <2>3, <2>4
<1> QED
  BY <1>5 DEF Concave

-----------------------------------------------------------------------------
(* The invariant.  The iterate of VelodromeStable is above the root, and    *)
(* what it answers is what the reserve exceeds a value near the root by;    *)
(* the interval of Pmm stays below the pole.                                *)

VelodromeOK ==
    pool.curve = "velodrome" =>
        /\ pc # "done" => result = "none"
        /\ pc = "y" => size \in Nat /\ value \in 1 .. OldOutput /\ H(value) >= 0
        /\ result = "ok" =>
              size \in Nat /\ \E v \in 1 .. OldOutput : out = OldOutput - v /\ Near(v, Shortfall)

PmmOK ==
    pool.curve = "pmm" =>
        /\ value \in 0 .. PoleMargin(pool) /\ out \in 0 .. pool.reserves[2]
        /\ confirmed => pc = "done" /\ NeverConvex(Sampled[Samples + 1])

(* Who solves for which unknown. *)
Solving ==
    /\ pc = "d" => pool.curve \in {"stableswap", "cryptoswap"}
    /\ pc = "y" => pool.curve \in {"stableswap", "velodrome", "cryptoswap"}
    /\ pc \in {"bound", "check"} => pool.curve = "pmm"

QuoteInv == pool \in Pools /\ size \in Int /\ Solving /\ VelodromeOK /\ PmmOK

(* The shortfall is at least what the truncation costs. *)
LEMMA ShortfallIsPositive == pool \in Pools => Shortfall \in Nat \ {0}
<1>1. SUFFICES ASSUME pool \in Pools PROVE Shortfall \in Nat \ {0}
  OBVIOUS
<1>2. OldOutput \in Nat /\ Token \in Nat /\ Precision \in Nat \ {0}
  <2>1. pool.input \in {1, 2} /\ pool.reserves \in Seq(Nat \ {0}) /\ Len(pool.reserves) > 1
    BY <1>1, NewtonAssumption
  <2>2. pool.reserves[1] \in Nat /\ pool.reserves[2] \in Nat
    BY <2>1
  <2> QED
    BY <2>1, <2>2, NewtonAssumption DEF OldOutput, Bought
<1>3. Greater(OldOutput, Token) \in Nat
  BY <1>2 DEF Greater
<1>4. Greater(OldOutput, Token) \div Precision \in Nat
  BY <1>2, <1>3, DivisionFloor
<1> QED
  BY <1>4 DEF Shortfall

(* The invariant holds of every quote and search that begins. *)
LEMMA QuoteInvStarts == QuoteInit => QuoteInv
<1> SUFFICES ASSUME QuoteInit PROVE QuoteInv
  OBVIOUS
<1>1. CASE \E q \in Quotes : pool = q.pool /\ size = q.size /\ pc = "start" /\ value = 0
  <2>1. pool \in Pools /\ size \in Int /\ pc = "start" /\ value = 0 /\ out = 0
        /\ result = "none" /\ confirmed = FALSE
    BY <1>1, NewtonAssumption DEF QuoteInit, Pools
  <2>2. PmmOK
    BY <2>1, PmmPool DEF PmmOK
  <2> QED
    BY <2>1, <2>2 DEF QuoteInv, Solving, VelodromeOK
<1>2. CASE \E p \in Searches :
             /\ pool = p /\ size = 0 /\ pc = "bound"
             /\ value = Lesser(Greater(p.reserves[1], Token), PoleMargin(p))
  <2>1. /\ pool \in Pools /\ pool.curve = "pmm" /\ size = 0 /\ pc = "bound" /\ out = 0
        /\ result = "none" /\ confirmed = FALSE
        /\ value = Lesser(Greater(pool.reserves[1], Token), PoleMargin(pool))
    BY <1>2, NewtonAssumption DEF QuoteInit, Pools
  <2>2. Token \in Nat
    BY NewtonAssumption
  <2>3. PmmOK
    BY <2>1, <2>2, PmmPool DEF PmmOK, Lesser, Greater
  <2> QED
    BY <2>1, <2>3 DEF QuoteInv, Solving, VelodromeOK
<1> QED
  BY <1>1, <1>2 DEF QuoteInit

(* No step changes what is quoted. *)
LEMMA PoolStays ==
    ASSUME QuoteInv, QuoteNext
    PROVE  pool' = pool /\ size' = size
<1>1. CASE Start
  <2>1. pool.curve \in {"stableswap", "velodrome", "cryptoswap", "pmm", "dodo"} /\ size \in Int
    BY NewtonAssumption DEF QuoteInv
  <2>2. size < 0 \/ size = 0 \/ size > 0
    BY <2>1
  <2> QED
    BY <1>1, <2>1, <2>2 DEF Start, Solve, End
<1>2. CASE Round
  <2>1. ASSUME NEW v, Accept(v) PROVE pool' = pool /\ size' = size
    <3>1. CASE pc = "d"
      <4>1. size < 0 \/ size >= 0
        BY DEF QuoteInv
      <4> QED
        BY <2>1, <3>1, <4>1 DEF Accept, Solve, End, QuoteInv, Solving
    <3>2. CASE pc # "d"
      BY <2>1, <3>2 DEF Accept, StableOutput, End
    <3> QED
      BY <3>1, <3>2
  <2>2. ASSUME NEW v, Found(v) \/ GiveUp(v) \/ Continue(v) PROVE pool' = pool /\ size' = size
    BY <2>1, <2>2 DEF Found, GiveUp, Continue, End
  <2> QED
    BY <1>2, <2>2 DEF Round
<1>3. CASE DoubleBound \/ Check \/ Over
  BY <1>3 DEF DoubleBound, Check, Over, quotevars
<1> QED
  BY <1>1, <1>2, <1>3 DEF QuoteNext


(* What VelodromeStable answers, and where its iterate is. *)
LEMMA AnswerNow ==
    ASSUME pool' = pool, size' = size, NEW v \in 1 .. OldOutput, Near(v, Shortfall),
           out' = OldOutput - v
    PROVE  (\E w \in 1 .. OldOutput : out = OldOutput - w /\ Near(w, Shortfall))'
<1>1. OldOutput' = OldOutput /\ Shortfall' = Shortfall
  BY DEF OldOutput, Bought, Shortfall
<1>2. \A u : H(u)' = H(u)
  BY DEF H, NewInput, AfterFee, CTarget, OldOutput, Bought, SumSquares
<1>3. Near(v, Shortfall)'
  BY <1>1, <1>2 DEF Near
<1> QED
  BY <1>1, <1>3

LEMMA IterateNow ==
    ASSUME pool' = pool, size' = size, value' \in 1 .. OldOutput, H(value') >= 0
    PROVE  (value \in 1 .. OldOutput /\ H(value) >= 0)'
  BY DEF H, NewInput, AfterFee, CTarget, OldOutput, Bought, SumSquares

(* The checks of quote keep the invariant, *)
LEMMA StartKeepsInv == ASSUME QuoteInv, Start PROVE QuoteInv'
<1>1. pool' = pool /\ size' = size /\ pool' \in Pools /\ size' \in Int
  BY PoolStays DEF QuoteInv, QuoteNext
<1>2. pool.curve \in {"stableswap", "velodrome", "cryptoswap", "pmm", "dodo"} /\ size \in Int
  BY NewtonAssumption DEF QuoteInv
<1>3. size < 0 \/ size = 0 \/ size > 0
  BY <1>2
<1>4. CASE pool.curve = "velodrome"
  <2>1. CASE size < 0
    <3>1. size # 0 /\ ~(size > 0)
      BY <1>2, <2>1
    <3>2. pc' = "done" /\ result' = "InvalidReserves"
      BY <1>4, <2>1, <3>1 DEF Start, End
    <3> QED
      BY <1>1, <1>4, <3>2 DEF QuoteInv, Solving, VelodromeOK, PmmOK
  <2>2. CASE size = 0
    <3>1. pc' = "done" /\ result' = "ok" /\ out' = 0
      BY <1>2, <1>4, <2>2 DEF Start, End
    <3>2. OldOutput \in Nat \ {0} /\ Near(OldOutput, Shortfall)
      BY <1>4, <2>2, NothingIsNear, VelodromePool, ShortfallIsPositive DEF QuoteInv
    <3>3. OldOutput \in 1 .. OldOutput /\ out' = OldOutput - OldOutput
      BY <3>1, <3>2
    <3>4. (\E w \in 1 .. OldOutput : out = OldOutput - w /\ Near(w, Shortfall))'
      BY <1>1, <3>2, <3>3, AnswerNow
    <3>5. VelodromeOK'
      BY <1>1, <2>2, <3>1, <3>4 DEF VelodromeOK
    <3> QED
      BY <1>1, <1>4, <3>1, <3>5 DEF QuoteInv, Solving, PmmOK
  <2>3. CASE size > 0
    <3>1. pc' = "y" /\ value' = OldOutput /\ result' = result
      BY <1>2, <1>4, <2>3 DEF Start, Solve
    <3>2. OldOutput \in Nat \ {0} /\ H(OldOutput) >= 0
      <4>1. /\ OldOutput \in Nat \ {0} /\ NewInput \in Nat \ {0} /\ CTarget \in Nat
            /\ Cubic(NewInput, OldOutput) >= CTarget
        BY <1>2, <1>4, <2>3, VelodromePool DEF QuoteInv
      <4>2. Cubic(NewInput, OldOutput) \in Int
        BY <4>1 DEF Cubic
      <4> QED
        BY <4>1, <4>2, HIsCubic
    <3>3. value' \in 1 .. OldOutput /\ H(value') >= 0
      BY <3>1, <3>2
    <3>4. (value \in 1 .. OldOutput /\ H(value) >= 0)'
      BY <1>1, <3>3, IterateNow
    <3>5. result' = "none"
      BY <1>4, <3>1 DEF Start, QuoteInv, VelodromeOK
    <3>6. VelodromeOK'
      BY <1>1, <1>2, <2>3, <3>1, <3>4, <3>5 DEF VelodromeOK
    <3> QED
      BY <1>1, <1>4, <3>1, <3>6 DEF QuoteInv, Solving, PmmOK
  <2> QED
    BY <1>3, <2>1, <2>2, <2>3
<1>5. CASE pool.curve = "pmm"
  <2>1. /\ pool.reserves[2] \in Nat
        /\ size > 0 /\ PmmQuote(pool, size) # Unfillable => PmmQuote(pool, size) \in 0 .. pool.reserves[2]
    BY <1>2, <1>5, PmmPool, PmmPays DEF QuoteInv
  <2>2. /\ pc' = "done" /\ UNCHANGED <<value, confirmed>>
        /\ out' = 0 \/ (size > 0 /\ PmmQuote(pool, size) # Unfillable /\ out' = PmmQuote(pool, size))
    BY <1>2, <1>3, <1>5 DEF Start, End
  <2>3. out' \in 0 .. pool.reserves[2]
    BY <2>1, <2>2
  <2>4. PmmOK'
    <3>1. value \in 0 .. PoleMargin(pool) /\ pc = "start" /\ ~confirmed
      BY <1>5 DEF QuoteInv, PmmOK, Start
    <3> QED
      BY <1>1, <2>2, <2>3, <3>1 DEF PmmOK
  <2> QED
    BY <1>1, <1>5, <2>2, <2>4 DEF QuoteInv, Solving, VelodromeOK
<1>6. CASE pool.curve \in {"stableswap", "cryptoswap", "dodo"}
  <2>1. pc' = "done" \/ (pc' \in {"d", "y"} /\ pool.curve \in {"stableswap", "cryptoswap"})
    BY <1>2, <1>3, <1>6 DEF Start, End, Solve
  <2> QED
    BY <1>1, <1>6, <2>1 DEF QuoteInv, Solving, VelodromeOK, PmmOK
<1> QED
  BY <1>2, <1>4, <1>5, <1>6

(* a round keeps it, and does not raise the iterate of VelodromeStable, *)
LEMMA RoundKeepsInv ==
    ASSUME QuoteInv, Round
    PROVE  QuoteInv' /\ (pool.curve = "velodrome" /\ pc' = pc => value' <= value)
<1>1. pool' = pool /\ size' = size /\ pool' \in Pools /\ size' \in Int
  BY PoolStays DEF QuoteInv, QuoteNext
<1>2. pool.curve \in {"stableswap", "velodrome", "cryptoswap"} /\ pc \in {"d", "y"}
  BY DEF QuoteInv, Solving, Round
<1>3. CASE pool.curve = "velodrome"
  <2> DEFINE w == VelodromeNext(value)
  <2>1. pc = "y" /\ size \in Nat /\ value \in 1 .. OldOutput /\ H(value) >= 0 /\ result = "none"
    BY <1>2, <1>3 DEF QuoteInv, Solving, VelodromeOK
  <2>2. OldOutput \in Nat
    BY <1>3, <2>1, VelodromePool DEF QuoteInv
  <2>3. /\ w \in 1 .. value /\ H(w) >= 0 /\ HPrime(value) > 0
        /\ Abs(w - value) * Precision <= Greater(Abs(w), Token) => Near(w, Shortfall)
    BY <1>3, <2>1, VelodromeRound DEF QuoteInv
  <2> HIDE DEF w
  <2>4. w \in 1 .. OldOutput
    BY <2>1, <2>2, <2>3
  <2>5. HPrime(value) \in Int
    <3>1. NewInput \in Nat
      BY <1>3, <2>1, VelodromePool DEF QuoteInv
    <3> QED
      BY <2>1, <2>2, <3>1 DEF HPrime
  <2>6. (Close(value, w) /\ Found(w)) \/ Continue(w) \/ GiveUp(w)
    <3>1. ~AtRoot(value)
      BY <1>3 DEF AtRoot
    <3>2. ~Singular(value)
      BY <1>3, <2>3, <2>5 DEF Singular
    <3>3. NextValue(value) = w
      BY <1>3 DEF NextValue, w
    <3> QED
      BY <3>1, <3>2, <3>3 DEF Round
  <2>7. CASE Close(value, w) /\ Found(w)
    <3>1. Near(w, Shortfall)
      BY <1>3, <2>3, <2>7 DEF Close
    <3>2. pc' = "done" /\ result' = "ok" /\ out' = OldOutput - w
      BY <1>3, <2>1, <2>2, <2>4, <2>7 DEF Found, Accept, End, Greater
    <3>3. (\E u \in 1 .. OldOutput : out = OldOutput - u /\ Near(u, Shortfall))'
      BY <1>1, <2>4, <3>1, <3>2, AnswerNow
    <3>4. VelodromeOK'
      BY <1>1, <2>1, <3>2, <3>3 DEF VelodromeOK
    <3> QED
      BY <1>1, <1>3, <2>1, <3>2, <3>4 DEF QuoteInv, Solving, PmmOK
  <2>8. CASE Continue(w)
    <3>1. pc' = pc /\ value' = w /\ result' = result
      BY <2>8 DEF Continue
    <3>2. value' \in 1 .. OldOutput /\ H(value') >= 0
      BY <2>3, <2>4, <3>1
    <3>3. (value \in 1 .. OldOutput /\ H(value) >= 0)'
      BY <1>1, <3>2, IterateNow
    <3>4. VelodromeOK'
      BY <1>1, <2>1, <3>1, <3>3 DEF VelodromeOK
    <3>5. value' <= value
      BY <2>1, <2>2, <2>3, <3>1
    <3> QED
      BY <1>1, <1>3, <2>1, <3>1, <3>4, <3>5 DEF QuoteInv, Solving, PmmOK
  <2>9. CASE GiveUp(w)
    <3>1. pc' = "done" /\ result' = "DidNotConverge"
      BY <1>3, <2>9 DEF GiveUp, End
    <3> QED
      BY <1>1, <1>3, <2>1, <3>1 DEF QuoteInv, Solving, VelodromeOK, PmmOK
  <2> QED
    BY <2>6, <2>7, <2>8, <2>9
<1>4. CASE pool.curve # "velodrome"
  <2>1. ASSUME NEW v, Accept(v) PROVE pc' \in {"y", "done"}
    <3>1. size < 0 \/ size >= 0
      BY DEF QuoteInv
    <3> QED
      BY <1>2, <1>4, <2>1, <3>1 DEF Accept, StableOutput, Solve, End
  <2>2. ASSUME NEW v, Found(v) \/ GiveUp(v) \/ Continue(v) PROVE pc' \in {"y", "done"} \/ pc' = pc
    BY <2>1, <2>2 DEF Found, GiveUp, Continue, End
  <2>3. pc' \in {"y", "done"} \/ pc' = pc
    BY <2>2 DEF Round
  <2> QED
    BY <1>1, <1>2, <1>4, <2>3 DEF QuoteInv, Solving, VelodromeOK, PmmOK
<1> QED
  BY <1>3, <1>4

(* a doubling stays below the pole, *)
LEMMA DoubleKeepsInv == ASSUME QuoteInv, DoubleBound PROVE QuoteInv'
<1> DEFINE doubled == 2 * value
           m == PoleMargin(pool)
<1>1. pool' = pool /\ size' = size /\ pool' \in Pools /\ size' \in Int
  BY PoolStays DEF QuoteInv, QuoteNext
<1>2. pool.curve = "pmm" /\ pc = "bound" /\ m \in Nat /\ value \in 0 .. m
  BY PmmPool DEF DoubleBound, QuoteInv, Solving, PmmOK
<1>3. pc' \in {"bound", "check"} /\ UNCHANGED <<out, confirmed>>
      /\ (value' = value \/ (value' = doubled /\ ~(doubled >= m)))
  BY DEF DoubleBound
<1>4. value' \in 0 .. m
  BY <1>2, <1>3
<1>5. PmmOK'
  <2>1. ~confirmed /\ out \in 0 .. pool.reserves[2]
    BY <1>2 DEF QuoteInv, PmmOK
  <2> QED
    BY <1>1, <1>2, <1>3, <1>4, <2>1 DEF PmmOK
<1> QED
  BY <1>1, <1>2, <1>3, <1>5 DEF QuoteInv, Solving, VelodromeOK

(* the samples depend on the pool and the interval only, *)
LEMMA SampledNow ==
    ASSUME pool' = pool, value' = value
    PROVE  Sampled' = Sampled
BY DEF Sampled, Point

(* so that what is confirmed stays concave, *)
LEMMA CheckKeepsInv == ASSUME QuoteInv, Check PROVE QuoteInv'
<1>1. pool' = pool /\ size' = size /\ pool' \in Pools /\ size' \in Int
  BY PoolStays DEF QuoteInv, QuoteNext
<1>2. /\ pool.curve = "pmm" /\ value \in 0 .. PoleMargin(pool) /\ out \in 0 .. pool.reserves[2]
      /\ pc' = "done" /\ UNCHANGED <<value, out>>
      /\ confirmed' = NeverConvex(Sampled[Samples + 1])
  BY DEF Check, QuoteInv, Solving, PmmOK
<1>3. Sampled' = Sampled
  BY <1>1, <1>2, SampledNow
<1>4. NeverConvex(Sampled[Samples + 1])' = NeverConvex(Sampled[Samples + 1])
  BY <1>3 DEF NeverConvex, Differences
<1>5. PmmOK'
  BY <1>1, <1>2, <1>4 DEF PmmOK
<1> QED
  BY <1>1, <1>2, <1>5 DEF QuoteInv, Solving, VelodromeOK

(* and so do the steps that change nothing. *)
LEMMA StutterKeepsInv == ASSUME QuoteInv, UNCHANGED quotevars PROVE QuoteInv'
<1>1. UNCHANGED <<pool, size, pc, value, result, out, confirmed>>
  BY DEF quotevars
<1>2. VelodromeOK'
  <2>1. SUFFICES ASSUME pool.curve = "velodrome" PROVE VelodromeOK'
    BY <1>1 DEF VelodromeOK
  <2>2. VelodromeOK
    BY DEF QuoteInv
  <2>3. CASE result = "ok"
    <3>1. PICK v \in 1 .. OldOutput : out = OldOutput - v /\ Near(v, Shortfall)
      BY <2>1, <2>2, <2>3 DEF VelodromeOK
    <3>2. (\E w \in 1 .. OldOutput : out = OldOutput - w /\ Near(w, Shortfall))'
      BY <1>1, <3>1, AnswerNow
    <3>3. size' \in Nat /\ pc' = "done"
      BY <1>1, <2>1, <2>2, <2>3 DEF VelodromeOK
    <3> QED
      BY <3>2, <3>3 DEF VelodromeOK
  <2>4. CASE result # "ok" /\ pc = "y"
    <3>1. (value \in 1 .. OldOutput /\ H(value) >= 0)'
      BY <1>1, <2>1, <2>2, <2>4, IterateNow DEF VelodromeOK
    <3> QED
      BY <1>1, <2>1, <2>2, <2>4, <3>1 DEF VelodromeOK
  <2>5. CASE result # "ok" /\ pc # "y"
    BY <1>1, <2>1, <2>2, <2>5 DEF VelodromeOK
  <2> QED
    BY <2>3, <2>4, <2>5
<1>3. PmmOK'
  <2>1. Sampled' = Sampled
    BY <1>1, SampledNow
  <2>2. NeverConvex(Sampled[Samples + 1])' = NeverConvex(Sampled[Samples + 1])
    BY <2>1 DEF NeverConvex, Differences
  <2>3. PmmOK
    BY DEF QuoteInv
  <2> QED
    BY <1>1, <2>2, <2>3 DEF PmmOK
<1> QED
  BY <1>1, <1>2, <1>3 DEF QuoteInv, Solving

(* The invariant holds at every step of a quote and of a search. *)
LEMMA QuoteInvHolds == QuoteSpec => []QuoteInv
<1>1. QuoteInv /\ [QuoteNext]_quotevars => QuoteInv'
  BY StartKeepsInv, RoundKeepsInv, DoubleKeepsInv, CheckKeepsInv, StutterKeepsInv
     DEF QuoteNext, Over
<1> QED
  BY <1>1, QuoteInvStarts, PTL DEF QuoteSpec

(* No quote of VelodromeStable or Pmm gives out more than the reserve or     *)
(* less than nothing, and only Pmm gives out all of it.                      *)
THEOREM VelodromeAndPmmNeverDrain ==
    QuoteSpec => [](pool.curve \in {"velodrome", "pmm"} => NeverDrains)
<1>1. QuoteInv => (pool.curve \in {"velodrome", "pmm"} => NeverDrains)
  <2>1. SUFFICES ASSUME QuoteInv, result = "ok", pool.curve \in {"velodrome", "pmm"}
                 PROVE  0 <= out /\ out <= OldOutput /\ (out = OldOutput => pool.curve = "pmm")
    BY DEF NeverDrains
  <2>2. CASE pool.curve = "velodrome"
    <3>1. PICK v \in 1 .. OldOutput : out = OldOutput - v /\ size \in Nat
      BY <2>1, <2>2 DEF QuoteInv, VelodromeOK
    <3>2. OldOutput \in Nat
      BY <2>1, <2>2, <3>1, VelodromePool DEF QuoteInv
    <3> QED
      BY <2>2, <3>1, <3>2
  <2>3. CASE pool.curve = "pmm"
    BY <2>1, <2>3, PmmPool DEF QuoteInv, PmmOK, OldOutput, Bought
  <2> QED
    BY <2>1, <2>2, <2>3
<1> QED
  BY <1>1, QuoteInvHolds, PTL

(* An answer of VelodromeStable lies between the exact output less the *)
(* shortfall and the exact output.                                     *)
LEMMA VelodromeNearlyExact ==
    ASSUME QuoteInv, pool.curve = "velodrome", result = "ok"
    PROVE  ExactOutput \in Int /\ out \in Int /\ out <= ExactOutput /\ out >= ExactOutput - Shortfall
<1>1. PICK v \in 1 .. OldOutput : out = OldOutput - v /\ Near(v, Shortfall) /\ size \in Nat
  BY DEF QuoteInv, VelodromeOK
<1>2. Shortfall \in Nat /\ OldOutput \in Nat
  BY <1>1, ShortfallIsPositive, VelodromePool DEF QuoteInv
<1> QED
  BY <1>1, <1>2, NearIsExact DEF QuoteInv

(* What VelodromeStable quotes is never more than the root of its cubic      *)
(* allows, and less by no more than two steps within the tolerance and three *)
(* units (quote and solve_y of velodrome_stable.rs).                         *)
THEOREM VelodromeIsExact ==
    QuoteSpec => [](pool.curve = "velodrome" => ExactWithin(0, Shortfall))
<1>1. QuoteInv => (pool.curve = "velodrome" => ExactWithin(0, Shortfall))
  <2>1. SUFFICES ASSUME QuoteInv, pool.curve = "velodrome", result = "ok"
                 PROVE  out <= ExactOutput + 0 /\ out >= ExactOutput - Shortfall
    BY DEF ExactWithin
  <2> QED
    BY <2>1, VelodromeNearlyExact
<1> QED
  BY <1>1, QuoteInvHolds, PTL

(* With the slack for these two steps a quote of VelodromeStable is exact, as *)
(* INV-2 of docs/whitepaper.md asks.                                          *)
THEOREM VelodromeQuoteIsExact ==
    QuoteSpec => [](pool.curve = "velodrome" /\ Shortfall <= Slack => QuoteIsExact)
<1>1. QuoteInv => (pool.curve = "velodrome" /\ Shortfall <= Slack => QuoteIsExact)
  <2>1. SUFFICES ASSUME QuoteInv, pool.curve = "velodrome", Shortfall <= Slack, result = "ok"
                 PROVE  out <= ExactOutput + Noise /\ out >= ExactOutput - Slack
    BY DEF QuoteIsExact, ExactWithin
  <2>2. Noise \in Nat /\ Slack \in Nat /\ Shortfall \in Nat
    BY <2>1, ShortfallIsPositive, NewtonAssumption DEF QuoteInv
  <2> QED
    BY <2>1, <2>2, VelodromeNearlyExact
<1> QED
  BY <1>1, QuoteInvHolds, PTL

(* Newton's method for VelodromeStable never moves the iterate up. *)
THEOREM VelodromeDescends ==
    QuoteSpec => [][pool.curve = "velodrome" /\ pc' = pc /\ round' > round => value' <= value]_quotevars
<1>1. QuoteInv /\ [QuoteNext]_quotevars
      => [pool.curve = "velodrome" /\ pc' = pc /\ round' > round => value' <= value]_quotevars
  <2>1. SUFFICES ASSUME QuoteInv, QuoteNext, pool.curve = "velodrome", pc' = pc, ~(UNCHANGED quotevars)
                 PROVE  value' <= value
    OBVIOUS
  <2>2. CASE Round
    BY <2>1, <2>2, RoundKeepsInv
  <2>3. CASE Start
    <3>1. size < 0 \/ size = 0 \/ size > 0
      BY <2>1 DEF QuoteInv
    <3> QED
      BY <2>1, <2>3, <3>1 DEF Start, Solve, End
  <2>4. CASE DoubleBound \/ Check
    BY <2>1, <2>4 DEF DoubleBound, Check, QuoteInv, Solving
  <2> QED
    BY <2>1, <2>2, <2>3, <2>4 DEF QuoteNext, Over
<1> QED
  BY <1>1, QuoteInvHolds, PTL DEF QuoteSpec

(* The interval that Pmm searches can be filled all over, and is concave at  *)
(* the sample points where it is said to be confirmed; so it is sound if the *)
(* roundings do not keep a balanced pool from being confirmed.               *)
THEOREM PmmIntervalIsSound ==
    QuoteSpec => [](Searchable /\ (BalancedIsConfirmed => IntervalIsSound))
<1>1. QuoteInv => Searchable
  <2>1. SUFFICES ASSUME QuoteInv, pool \in Searches
                 PROVE  /\ \A x \in 0 .. value : PmmQuote(pool, x) # Unfillable
                        /\ confirmed =>
                              LET q == [i \in 0 .. Samples |-> PmmQuote(pool, Point(i))] IN
                              \A h, i, j \in 0 .. Samples :
                                  h < i /\ i < j => (j - h) * q[i] >= (j - i) * q[h] + (i - h) * q[j]
    BY DEF Searchable
  <2>2. /\ pool \in Pools /\ pool.curve = "pmm" /\ PoleMargin(pool) \in Nat
        /\ value \in 0 .. PoleMargin(pool)
    BY <2>1, NewtonAssumption, PmmPool DEF QuoteInv, PmmOK
  <2>3. \A x \in 0 .. value : PmmQuote(pool, x) # Unfillable
    <3>1. ASSUME NEW x \in 0 .. value PROVE x \in Nat /\ x <= PoleMargin(pool)
      BY <2>2
    <3> QED
      BY <2>2, <3>1, PmmPays
  <2>4. ASSUME confirmed
        PROVE  LET q == [i \in 0 .. Samples |-> PmmQuote(pool, Point(i))] IN
               \A h, i, j \in 0 .. Samples :
                   h < i /\ i < j => (j - h) * q[i] >= (j - i) * q[h] + (i - h) * q[j]
    <3> DEFINE q == [i \in 0 .. Samples |-> PmmQuote(pool, Point(i))]
               s == Sampled[Samples + 1]
    <3>1. Samples \in Nat /\ Samples > 1 /\ 0 \in 0 .. Samples
      BY NewtonAssumption
    <3>2. /\ \A i \in 0 .. Samples : q[i] \in Int /\ s[i + 1] = q[i]
          /\ Len(s) = Samples + 1
      BY <2>2, <3>1, SampledAll
    <3>3. NeverConvex(s)
      BY <2>1, <2>2, <2>4 DEF QuoteInv, PmmOK
    <3>4. q \in [0 .. Samples -> Int]
      BY <3>2
    <3> HIDE DEF q, s
    <3>5. Concave(q, Samples)
      BY <3>1, <3>2, <3>3, <3>4, ConfirmedIsConcave
    <3>6. \A h, i, j \in 0 .. Samples :
             h < i /\ i < j => (j - h) * q[i] >= (j - i) * q[h] + (i - h) * q[j]
      BY <3>1, <3>4, <3>5, AboveChords
    <3> QED
      BY <3>6 DEF q
  <2> QED
    BY <2>3, <2>4
<1>2. QuoteInv => Searchable /\ (BalancedIsConfirmed => IntervalIsSound)
  BY <1>1 DEF IntervalIsSound
<1> QED
  BY <1>2, QuoteInvHolds, PTL

(* Only CryptoSwap answers with an iterate that did not converge: of every   *)
(* other curve, an iteration that used up its rounds is an error.            *)
Unconverged ==
    exhausted /\ pool.curve # "cryptoswap" => pc = "done" /\ result = "DidNotConverge"

(* What gave up has ended, in an error. *)
LEMMA UnconvergedStep ==
    ASSUME QuoteInv, Unconverged, [QuoteNext]_quotevars
    PROVE  Unconverged'
<1>1. CASE UNCHANGED quotevars
  BY <1>1 DEF Unconverged, quotevars
<1>2. CASE ~(UNCHANGED quotevars)
  <2>1. QuoteNext /\ pool' = pool
    BY <1>2, PoolStays
  <2>2. SUFFICES ASSUME pool.curve # "cryptoswap", exhausted' PROVE pc' = "done" /\ result' = "DidNotConverge"
    BY <2>1 DEF Unconverged
  <2>3. CASE Start \/ DoubleBound \/ Check \/ Over
    <3>1. exhausted' = exhausted /\ pc # "done"
      <4>1. CASE Start
        BY <4>1 DEF Start
      <4>2. CASE DoubleBound \/ Check
        BY <4>2 DEF DoubleBound, Check
      <4>3. CASE Over
        BY <1>2, <4>3 DEF Over
      <4> QED
        BY <2>3, <4>1, <4>2, <4>3
    <3> QED
      BY <2>2, <3>1 DEF Unconverged
  <2>4. CASE Round
    <3>1. ~exhausted
      BY <2>2, <2>4 DEF Unconverged, Round
    <3>2. ASSUME NEW v, Found(v) \/ Continue(v) \/ GiveUp(v) PROVE GiveUp(v)
      BY <2>2, <3>1, <3>2 DEF Found, Continue
    <3>3. \E v : GiveUp(v)
      BY <2>4, <3>2 DEF Round
    <3> QED
      BY <2>2, <3>3 DEF GiveUp, End
  <2> QED
    BY <2>1, <2>3, <2>4 DEF QuoteNext
<1> QED
  BY <1>1, <1>2

THEOREM OthersReportUnconverged ==
    QuoteSpec => [](pool.curve # "cryptoswap" => UnconvergedIsError)
<1>1. QuoteInit => Unconverged
  BY DEF QuoteInit, Unconverged
<1>2. Unconverged => (pool.curve # "cryptoswap" => UnconvergedIsError)
  BY DEF Unconverged, UnconvergedIsError
<1> QED
  BY <1>1, <1>2, QuoteInvHolds, UnconvergedStep, PTL DEF QuoteSpec

=============================================================================
