--------------------------- MODULE GoldenSection ----------------------------
(***************************************************************************)
(* The five golden-section searches behind optimal_size: Route             *)
(* (crates/sizing-router/src/route.rs), Pmm, VelodromeStable, DodoPmm and  *)
(* CurveCryptoSwap (crates/sizing-core/src/curves).  They differ in where  *)
(* the search starts, in the side a tie goes to, in what an infeasible     *)
(* size is worth to the search, and in when max_size is applied.           *)
(*                                                                         *)
(* Positions are integers: a search over Fib[Depth] * bound divides it at  *)
(* Fibonacci numbers of bounds, which is what the golden ratio does to an  *)
(* interval, and stops at a width of 2 * bound, which stands for the       *)
(* code's tolerance or iteration count.                                    *)
(***************************************************************************)
EXTENDS SizingMarket, Powers

CONSTANTS
    Depth, Fib,     (* the Fibonacci numbers 1, 1, 2, 3 ... up to Fib[Depth] *)
    Uppers,         (* the upper ends Pmm, DodoPmm and CurveCryptoSwap start from *)
    MaxBound,       (* bound: hi doubles up to 2^61 in Route, 2^8 reserves in VelodromeStable *)
    Lowest,         (* Decimal::MIN *)
    Penalty         (* -1_000_000_000 *)

(* Upper ends are whole multiples of Fib[Depth], and Uppers is the multiples; *)
(* so that a clipped interval is one too, a max_size is such a size.  The      *)
(* bound starts from 1 and doubles, so the largest is a power of two.         *)
ASSUME GoldenAssumption ==
    /\ Depth \in Nat /\ Depth >= 2
    /\ Fib \in [0 .. Depth -> Nat \ {0}] /\ Fib[0] = 1 /\ Fib[1] = 1
    /\ \A n \in 2 .. Depth : Fib[n] = Fib[n - 1] + Fib[n - 2]
    /\ MaxBound \in Nat \ {0} /\ MaxBound \in {TwoTo[n] : n \in 0 .. MaxBound}
    /\ Uppers \subseteq 1 .. 2 * MaxBound
    /\ \A l \in Limits : l % Fib[Depth] = 0
    /\ Lowest \in Int /\ Penalty \in Int

VARIABLES
    market, limit,       (* what is sized, and max_size *)
    searcher,            (* whose optimal_size runs *)
    phase,
    bound,               (* the upper end, in multiples of Fib[Depth] *)
    a, long, short, k,   (* the interval is a .. a + long + short *)
    fc, fd,              (* the values kept for the two inner points *)
    tried,               (* optimal_delta, once it is known *)
    outcome

query == <<market, limit, searcher>>
section == <<a, long, short, k, fc, fd>>
vars == <<query, phase, bound, section, tried, outcome>>

Searchers == {"route", "pmm", "velodrome", "dodo", "cryptoswap"}

(* dodo and cryptoswap ask f1 < f2, the others fc > fd. *)
TieGoesLeft(s) == s \in {"dodo", "cryptoswap"}

(* The price of the first unit comes from a formula or from a small quote. *)
ProbesByFormula(s) == s \in {"pmm", "velodrome"}

(* Who clips the interval to max_size, and who clips the size found. *)
ClipsInterval(s) == s \in {"route", "dodo", "cryptoswap"}
ClipsSize(s) == s # "route"

(* The value an infeasible size has for the search. *)
Miss(s, m, x) ==
    CASE s \in {"route", "pmm"}       -> Lowest
      [] s = "velodrome"              -> -(m.price * x)
      [] OTHER                        -> Penalty

(* The profit the search sees, gross of the fixed cost. *)
Gross(s, m, x) ==
    IF Feasible(m, x) THEN Output(m, x) - m.price * x ELSE Miss(s, m, x)

F(x) == Gross(searcher, market, x)

Size(n) == Fib[Depth] * n
Upper == Size(bound)

Smaller(x, y) == IF x <= y THEN x ELSE y
Clip(x) == IF limit = NoLimit THEN x ELSE Smaller(x, limit)
ClippedBound(n) == IF limit = NoLimit THEN n ELSE Smaller(n, limit \div Fib[Depth])

Init ==
    /\ market \in Markets /\ limit \in Limits \cup {NoLimit}
    /\ searcher \in Searchers
    /\ (searcher = "route") = (Len(market.legs) >= 2)
    /\ ProbesByFormula(searcher) => Feasible(market, 1)
    /\ phase = "probe"
    /\ bound = 1
    /\ a = 0 /\ long = 0 /\ short = 0 /\ k = 1 /\ fc = 0 /\ fd = 0
    /\ tried = 0
    /\ outcome = Pending

Finish(result) == phase' = "done" /\ outcome' = result

(* What a size that cannot be filled comes back as: a curve passes on what  *)
(* quote says, a route says so itself.                                      *)
QuoteErrors ==
    IF searcher = "route" THEN {"InvalidReserves"} ELSE {"InvalidReserves", "DidNotConverge"}

(* The checks before the search: the reference price must be positive, the  *)
(* probe must be fillable, and its price above the reference.               *)
Probe ==
    /\ phase = "probe"
    /\ IF market.price = 0 THEN Finish(Err("InvalidReserves"))
       ELSE IF ~Feasible(market, 1) THEN \E e \in QuoteErrors : Finish(Err(e))
       ELSE IF ~WorthStarting(market) THEN Finish(Err("NoArbitrageOpportunity"))
       ELSE phase' = "bracket" /\ UNCHANGED outcome
    /\ UNCHANGED <<query, bound, section, tried>>

(* Route doubles hi while the profit grows; VelodromeStable doubles its     *)
(* bound while the average price is not below the reference.                *)
WantsDoubling ==
    /\ 2 * bound <= MaxBound
    /\ \/ searcher = "route" /\ F(Size(2 * bound)) > F(Upper)
       \/ searcher = "velodrome" /\ Feasible(market, Upper) /\ F(Upper) >= 0

Double ==
    /\ phase = "bracket"
    /\ WantsDoubling
    /\ bound' = 2 * bound
    /\ UNCHANGED <<query, phase, section, tried, outcome>>

(* Mutant: the last doubling of hi is forgotten. *)
UpperEndsShort == IF searcher \in {"route", "velodrome"} THEN {bound} ELSE Uppers

(* The upper end of the first interval, before max_size. *)
UpperEnds ==
    CASE searcher = "route"     -> {2 * bound}
      [] searcher = "velodrome" -> {bound}
      [] OTHER                  -> Uppers

(* The inner points divide the interval in the golden ratio. *)
Divide ==
    /\ ~WantsDoubling
    /\ phase = "bracket"
    /\ \E n \in UpperEnds :
          bound' = IF ClipsInterval(searcher) THEN ClippedBound(n) ELSE n
    /\ IF searcher = "route" /\ bound' = 0
       THEN Finish(Err("NoProfitableSize")) /\ UNCHANGED section
       ELSE /\ phase' = "search" /\ UNCHANGED outcome
            /\ k' = Depth - 1
            /\ a' = 0 /\ long' = Fib[k'] * bound' /\ short' = Fib[k' - 1] * bound'
            /\ fc' = F(short') /\ fd' = F(long')
    /\ UNCHANGED <<query, tried>>

-----------------------------------------------------------------------------
(* The search.                                                             *)

c == a + short
d == a + long
b == a + long + short

(* Mutant: ties go right in every search. *)
TiesGoRight == fc > fd

GoesLeft == IF TieGoesLeft(searcher) THEN ~(fc < fd) ELSE fc > fd

(* Mutant: the value of the point that is kept is not handed over. *)
NarrowStale ==
    /\ phase = "search" /\ k > 1
    /\ k' = k - 1 /\ long' = short /\ short' = long - short
    /\ IF GoesLeft
       THEN a' = a /\ fd' = fd /\ fc' = F(a' + short')
       ELSE a' = c /\ fc' = fc /\ fd' = F(a' + long')
    /\ UNCHANGED <<query, phase, bound, tried, outcome>>

(* The interval loses its right end, or its left end; the inner point that  *)
(* stays inside keeps its value and only the other one is evaluated.  (Pmm  *)
(* evaluates both again, to the same values.)                               *)
Narrow ==
    /\ phase = "search" /\ k > 1
    /\ k' = k - 1 /\ long' = short /\ short' = long - short
    /\ IF GoesLeft
       THEN a' = a /\ fd' = fc /\ fc' = F(a' + short')
       ELSE a' = c /\ fc' = fd /\ fd' = F(a' + long')
    /\ UNCHANGED <<query, phase, bound, tried, outcome>>

(* The middle of the last interval, and what becomes of it. *)
Middle == a + bound

(* Mutant: max_size is not applied to the size found. *)
SizeUnclipped == Middle

(* NetProfit::restrict_domain, for those who call it. *)
SizeFound == IF ClipsSize(searcher) THEN Clip(Middle) ELSE Middle

(* A leg's diagnostic_tier is an optimal_size of its own, at 0.999 of the   *)
(* leg's price for 0.000001, and its error becomes the route's.             *)
TierFails(error) == searcher = "route" /\ error \in Errors

Answer ==
    /\ phase = "search" /\ k = 1
    /\ tried' = SizeFound
    /\ IF ClipsSize(searcher) /\ tried' = 0 THEN Finish(Err("NoProfitableSize"))
       ELSE IF ~Feasible(market, tried') THEN \E e \in QuoteErrors : Finish(Err(e))
       ELSE IF NetProfit(market, tried') <= 0 THEN Finish(Err("NoProfitableSize"))
       ELSE \/ Finish(Ok(tried', NetProfit(market, tried')))
            \/ \E e \in Errors : TierFails(e) /\ Finish(Err(e))
    /\ UNCHANGED <<query, bound, section>>

Done == phase = "done" /\ UNCHANGED vars

Next == Probe \/ Double \/ Divide \/ Narrow \/ Answer \/ Done

Spec == Init /\ [][Next]_vars

-----------------------------------------------------------------------------

(* A size x such that the profit the search sees rises all the way to x and *)
(* falls all the way from it; flat stretches may follow where a tie goes    *)
(* left (the penalty of sizes that cannot be filled is one).                *)
PeakAt(s, m, x, top) ==
    /\ \A y \in 0 .. top : Gross(s, m, y) <= Gross(s, m, x)
    /\ \A y, z \in 0 .. x : y < z => Gross(s, m, y) < Gross(s, m, z)
    /\ \A y, z \in x .. top : y < z =>
          IF TieGoesLeft(s) THEN Gross(s, m, y) >= Gross(s, m, z)
          ELSE Gross(s, m, y) > Gross(s, m, z)

(* The peaks over the sizes up to Size(n), worked out once. *)
Peaks ==
    [s \in Searchers |-> [m \in Markets |-> [n \in 0 .. 2 * MaxBound |->
        {x \in 0 .. Size(n) : PeakAt(s, m, x, Size(n))}]]]

(* The interval of the search never loses the maximum of the profit over    *)
(* the sizes it began with, whichever points coincide or tie on the way     *)
(* (route.rs:211-241, velodrome_stable.rs:216-243, pmm.rs:402-415,          *)
(* dodo_pmm.rs:264-287, curve_cryptoswap.rs:250-272).                       *)
PeakKept ==
    phase = "search" => \A peak \in Peaks[searcher][market][bound] : a <= peak /\ peak <= b

(* The two values kept from round to round are those of the two inner       *)
(* points, in their order, although each round evaluates only one of them.  *)
ValuesAreCurrent ==
    phase = "search" => short <= long /\ fc = F(c) /\ fd = F(d)

(* The size that is tried in the end is within half of the last interval of *)
(* the best size under max_size: clipping before or after the search comes  *)
(* to the same (route.rs:163-181, profit.rs:34-47), and the doubling of     *)
(* Route and VelodromeStable does not stop short of the best size, unless   *)
(* the latter runs out of its eight doublings.                              *)
NearBest ==
    (phase = "done" /\ tried # 0) =>
        \A peak \in Peaks[searcher][market][2 * MaxBound] :
            LET Reaches == searcher = "route" \/ (searcher = "velodrome" /\ bound < MaxBound)
                best == Clip(IF Reaches THEN peak ELSE Smaller(peak, Upper))
            IN best - bound <= tried /\ tried <= best + bound

Contract == INSTANCE SizingContract

(* Whatever the curve does, the answer keeps the contract of optimal_size:  *)
(* what is returned respects max_size, which is applied before the search   *)
(* or after it, and the profit returned is that of the size returned and    *)
(* not of another point the search has been at (route.rs:180-202,           *)
(* pmm.rs:418-438, velodrome_stable.rs:237-262, dodo_pmm.rs:281-310).       *)
MeetsContract == Contract!Spec

-----------------------------------------------------------------------------

(* docs/ROUTING_SPEC.md:63: the router "directly searches for" the argmax of *)
(* Profit_R over x >= 0.  When sizes above a leg's capacity cannot be filled *)
(* and both inner points are such sizes, the tie moves the interval to them. *)
RouteFindsProfit ==
    (phase = "done" /\ searcher = "route" /\ outcome = Err("InvalidReserves")
        /\ WorthStarting(market) /\ ~Feasible(market, tried)) =>
        \A x \in 1 .. tried : ~(Within(limit, x) /\ Feasible(market, x) /\ NetProfit(market, x) > 0)

=============================================================================
