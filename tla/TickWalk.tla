------------------------------ MODULE TickWalk ------------------------------
(***************************************************************************)
(* The two curves made of pieces: ConcentratedLiquidity and LiquidityBook  *)
(* (crates/sizing-core/src/curves/concentrated_liquidity.rs and dlmm.rs).  *)
(* quote and optimal_size each walk over the ranges, or bins, by a loop of *)
(* their own; optimal_size ends with the quote of the size it has found.   *)
(*                                                                         *)
(* Prices lie on a grid: liquidity L sells L units of input at price p     *)
(* before the price falls to p - 1.  Inputs are counted after the fee,     *)
(* which turns sqrt(x * y * f / P) into the position where the price       *)
(* meets the reference.  Decimal has 28 digits: a sum of two amounts of    *)
(* different size is rounded, by a member of Rounding.                     *)
(***************************************************************************)
EXTENDS SizingMarket

CONSTANTS
    Deltas,     (* the amounts quote is asked for *)
    Rounding,   (* what rounding may add to a sum *)
    Surplus     (* the longest excess over a book's capacity that is quoted *)

Smaller(x, y) == IF x <= y THEN x ELSE y

-----------------------------------------------------------------------------
(* Pools as their constructors leave them.                                 *)

IsTicks(pool) == pool.kind = "ticks"

(* Ranges are sorted by their lower price, may leave gaps and may overlap;  *)
(* the current price is in one of them, and not above the last one's.       *)
TicksAccepted(pool) ==
    LET ranges == pool.pieces
    IN /\ ranges \in Seq([lower : Nat, upper : Nat, liquidity : Nat]) /\ ranges # <<>>
       /\ \A i \in DOMAIN ranges :
             /\ 0 < ranges[i].lower /\ ranges[i].lower < ranges[i].upper
             /\ ranges[i].liquidity > 0
       /\ \A i, j \in DOMAIN ranges : i < j => ranges[i].lower <= ranges[j].lower
       /\ pool.current \in Nat /\ pool.current <= ranges[Len(ranges)].upper
       /\ \E i \in DOMAIN ranges :
             ranges[i].lower <= pool.current /\ pool.current <= ranges[i].upper

(* Bins may be empty and come in any order. *)
BinsAccepted(pool) ==
    /\ pool.pieces \in Seq([price : Nat, size : Nat])
    /\ \A i \in DOMAIN pool.pieces : pool.pieces[i].price > 0
    /\ pool.active \in DOMAIN pool.pieces

Accepted(pool) == IF IsTicks(pool) THEN TicksAccepted(pool) ELSE BinsAccepted(pool)

(* rposition: the last range that holds the current price. *)
Active(pool) ==
    IF ~IsTicks(pool) THEN pool.active
    ELSE CHOOSE i \in DOMAIN pool.pieces :
            /\ pool.pieces[i].lower <= pool.current /\ pool.current <= pool.pieces[i].upper
            /\ \A j \in i + 1 .. Len(pool.pieces) :
                  pool.current < pool.pieces[j].lower \/ pool.current > pool.pieces[j].upper

(* Mutant: the end of the ranges is not tested. *)
NeverLast(pool, i) == FALSE

IsLast(pool, i) == IF IsTicks(pool) THEN i = 1 ELSE i = Len(pool.pieces)

Following(pool, i) == IF IsTicks(pool) THEN i - 1 ELSE i + 1

(* What a pool is entered at: ticks at the current price. *)
EntryPrice(pool) == IF IsTicks(pool) THEN pool.current ELSE 0

(* The price after a piece was used up. *)
ExitPrice(pool, i) == IF IsTicks(pool) THEN pool.pieces[i].lower ELSE 0

-----------------------------------------------------------------------------
(* One piece, entered at price p.                                          *)

(* max_in_this_tick, bin_input_cap. *)
Capacity(pool, i, p) ==
    IF IsTicks(pool) THEN pool.pieces[i].liquidity * (p - pool.pieces[i].lower)
    ELSE pool.pieces[i].size

(* marginal_p, effective_price. *)
Marginal(pool, i, p) == IF IsTicks(pool) THEN p ELSE pool.pieces[i].price

(* unconstrained_delta_k: down to where the price meets the reference.  A   *)
(* bin that is worth taking is worth taking whole.                          *)
Wanted(pool, i, p, price) ==
    IF IsTicks(pool) THEN pool.pieces[i].liquidity * (p - price) ELSE Capacity(pool, i, p)

(* out_piece for an input of x. *)
Filled(pool, i, p, x) ==
    IF IsTicks(pool)
    THEN LET L == pool.pieces[i].liquidity
             fallen == x \div L
         IN L * (fallen * p - (fallen * (fallen - 1)) \div 2) + (x % L) * (p - fallen)
    ELSE pool.pieces[i].price * x

-----------------------------------------------------------------------------
(* What a pool sells, without a walk: the units of input it takes at each   *)
(* price, from the first price to the last.                                 *)

LowestPrice(pool) == pool.pieces[1].lower

(* In a gap, and where ranges overlap, the range is the last of those at or *)
(* below the active one that begin below the price.                         *)
SellerAt(pool, p) ==
    CHOOSE i \in 1 .. Active(pool) :
        /\ pool.pieces[i].lower < p
        /\ \A j \in i + 1 .. Active(pool) : pool.pieces[j].lower >= p

Rungs(pool) ==
    IF IsTicks(pool)
    THEN [n \in 1 .. pool.current - LowestPrice(pool) |->
            LET p == pool.current - n + 1
            IN [price |-> p, size |-> pool.pieces[SellerAt(pool, p)].liquidity]]
    ELSE SubSeq(pool.pieces, pool.active, Len(pool.pieces))

UpTo(rungs) ==
    LET upTo[n \in 0 .. Len(rungs)] == IF n = 0 THEN 0 ELSE upTo[n - 1] + rungs[n].size
    IN upTo

Total(pool) == LET rungs == Rungs(pool) IN UpTo(rungs)[Len(rungs)]

(* Each rung takes what is left of x, as far as it can. *)
Take(rung, before) ==
    LET taken == Smaller(before.left, rung.size)
    IN [left |-> before.left - taken, out |-> before.out + rung.price * taken]

Taking(rungs, x) ==
    LET after[n \in 0 .. Len(rungs)] ==
            IF n = 0 THEN [left |-> x, out |-> 0] ELSE Take(rungs[n], after[n - 1])
    IN after

(* The output for x. *)
Sold(pool, x) == LET rungs == Rungs(pool) IN Taking(rungs, x)[Len(rungs)].out

(* quote as a table: ranges refuse what is too much, bins give all they have. *)
OutputTable(pool) ==
    [x \in 0 .. IF IsTicks(pool) THEN Total(pool) ELSE Total(pool) + Surplus |-> Sold(pool, x)]

(* Here a market also names its pool, and its only leg is that pool's quote. *)
(* Rounding adds less than one unit at every boundary that is crossed.       *)
ASSUME TickAssumption ==
    /\ \A m \in Markets : Accepted(m.pool) /\ m.legs = <<OutputTable(m.pool)>>
    /\ \A m \in Markets : Len(m.pool.pieces) <= Surplus
    /\ Deltas \subseteq Int /\ Rounding \subseteq -1 .. 1 /\ Surplus \in Nat

-----------------------------------------------------------------------------

VARIABLES
    market, limit,   (* what is sized, and max_size *)
    asked,           (* "size" or "quote" *)
    phase,
    k, p,            (* the walk: the piece, and current_p *)
    sum,             (* cumulative_delta_in *)
    delta,           (* what is quoted: optimal_delta, or delta_in *)
    rest, out,       (* remaining_in and total_out *)
    outcome

query == <<market, limit, asked>>
walk == <<k, p>>
vars == <<query, phase, walk, sum, delta, rest, out, outcome>>

pool == market.pool

(* Mutant: max_size is not applied. *)
Unclipped(x) == x

Clip(x) == IF limit = NoLimit THEN x ELSE Smaller(x, limit)

Init ==
    /\ market \in Markets
    /\ \/ asked = "size" /\ limit \in Limits \cup {NoLimit} /\ delta = 0
       \/ asked = "quote" /\ limit = NoLimit /\ delta \in Deltas
    /\ phase = "start"
    /\ k = Active(pool) /\ p = EntryPrice(pool)
    /\ sum = 0 /\ rest = 0 /\ out = 0
    /\ outcome = Pending

Finish(result) == phase' = "done" /\ outcome' = result

Quoted(output) == [kind |-> "quoted", out |-> output]

-----------------------------------------------------------------------------
(* optimal_size: its checks, its walk, the size it chooses.                *)

Begin ==
    /\ phase = "start" /\ asked = "size"
    /\ IF market.price = 0 THEN Finish(Err("InvalidReserves"))
       ELSE IF Marginal(pool, k, p) <= market.price THEN Finish(Err("NoArbitrageOpportunity"))
       ELSE phase' = "sizing" /\ UNCHANGED outcome
    /\ UNCHANGED <<query, walk, sum, delta, rest, out>>

(* Adding to nothing, or adding nothing, is exact. *)
SumWith(x) == IF sum = 0 \/ x = 0 THEN {sum + x} ELSE {sum + x + e : e \in Rounding}

(* restrict_domain, and quote begins at the active piece. *)
Choose(total) ==
    /\ IF ~IsTicks(pool) /\ total = 0 THEN Finish(Err("NoArbitrageOpportunity")) /\ UNCHANGED <<delta, rest>>
       ELSE IF Clip(total) = 0 THEN Finish(Err("NoProfitableSize")) /\ UNCHANGED <<delta, rest>>
       ELSE phase' = "quoting" /\ delta' = Clip(total) /\ rest' = delta' /\ UNCHANGED outcome
    /\ k' = Active(pool) /\ p' = EntryPrice(pool)
    /\ UNCHANGED <<query, out>>

WorthMore == Marginal(pool, k, p) > market.price

SizeStops ==
    /\ phase = "sizing" /\ ~WorthMore
    /\ Choose(sum)
    /\ UNCHANGED sum

(* Mutant: the ranges walked over before are forgotten. *)
SizeEndsHereAlone ==
    /\ phase = "sizing" /\ WorthMore /\ IsTicks(pool)
    /\ Wanted(pool, k, p, market.price) <= Capacity(pool, k, p)
    /\ sum' = Wanted(pool, k, p, market.price) /\ Choose(sum')

(* The optimum lies in this range. *)
SizeEndsHere ==
    /\ phase = "sizing" /\ WorthMore /\ IsTicks(pool)
    /\ Wanted(pool, k, p, market.price) <= Capacity(pool, k, p)
    /\ sum' \in SumWith(Wanted(pool, k, p, market.price))
    /\ Choose(sum')

(* The whole piece is taken. *)
SizeCrosses ==
    /\ phase = "sizing" /\ WorthMore
    /\ IsTicks(pool) => Wanted(pool, k, p, market.price) > Capacity(pool, k, p)
    /\ sum' \in SumWith(Capacity(pool, k, p))
    /\ IF IsLast(pool, k) THEN Choose(sum')
       ELSE /\ k' = Following(pool, k) /\ p' = ExitPrice(pool, k)
            /\ UNCHANGED <<query, phase, delta, rest, out, outcome>>

-----------------------------------------------------------------------------
(* quote, and what optimal_size makes of its result.                       *)

BeginQuote ==
    /\ phase = "start" /\ asked = "quote"
    /\ IF delta < 0 THEN Finish(Err("InvalidReserves")) /\ UNCHANGED rest
       ELSE IF delta = 0 THEN Finish(Quoted(0)) /\ UNCHANGED rest
       ELSE phase' = "quoting" /\ rest' = delta /\ UNCHANGED outcome
    /\ UNCHANGED <<query, walk, sum, delta, out>>

Settle(output) ==
    LET profit == output - market.price * delta - market.fixed
    IN IF asked = "quote" THEN Finish(Quoted(output))
       ELSE IF profit <= 0 THEN Finish(Err("NoProfitableSize"))
       ELSE Finish(Ok(delta, profit))

QuoteEndsHere ==
    /\ phase = "quoting" /\ rest <= Capacity(pool, k, p)
    /\ out' = out + Filled(pool, k, p, rest) /\ rest' = 0
    /\ Settle(out')
    /\ UNCHANGED <<query, walk, sum, delta>>

(* Mutant: the price of the range that was left is kept. *)
QuoteCrossesAtOldPrice ==
    /\ phase = "quoting" /\ rest > Capacity(pool, k, p)
    /\ out' = out + Filled(pool, k, p, Capacity(pool, k, p))
    /\ rest' = rest - Capacity(pool, k, p)
    /\ IF IsLast(pool, k)
       THEN /\ IF IsTicks(pool) THEN Finish(Err("InvalidReserves")) ELSE Settle(out')
            /\ UNCHANGED walk
       ELSE /\ k' = Following(pool, k) /\ p' = p
            /\ UNCHANGED <<phase, outcome>>
    /\ UNCHANGED <<query, sum, delta>>

(* Beyond the last range is an error, beyond the last bin is not. *)
QuoteCrosses ==
    /\ phase = "quoting" /\ rest > Capacity(pool, k, p)
    /\ out' = out + Filled(pool, k, p, Capacity(pool, k, p))
    /\ rest' = rest - Capacity(pool, k, p)
    /\ IF IsLast(pool, k)
       THEN /\ IF IsTicks(pool) THEN Finish(Err("InvalidReserves")) ELSE Settle(out')
            /\ UNCHANGED walk
       ELSE /\ k' = Following(pool, k) /\ p' = ExitPrice(pool, k)
            /\ UNCHANGED <<phase, outcome>>
    /\ UNCHANGED <<query, sum, delta>>

Done == phase = "done" /\ UNCHANGED vars

Next ==
    \/ Begin \/ SizeStops \/ SizeEndsHere \/ SizeCrosses
    \/ BeginQuote \/ QuoteEndsHere \/ QuoteCrosses
    \/ Done

Spec == Init /\ [][Next]_vars

-----------------------------------------------------------------------------

TypeOK ==
    /\ limit \in Limits \cup {NoLimit} /\ asked \in {"size", "quote"}
    /\ phase \in {"start", "sizing", "quoting", "done"}
    /\ k \in DOMAIN pool.pieces /\ p \in Nat
    /\ sum \in Nat /\ delta \in Int /\ rest \in Nat /\ out \in Nat

(* At every boundary of the walk of quote, the output so far is that of the *)
(* units that lie above it, one price after the other, gaps and overlaps    *)
(* between ranges included; the amount quoted is refused exactly if it is   *)
(* more than all ranges hold (concentrated_liquidity.rs:219-249,            *)
(* dlmm.rs:117-136).                                                        *)
QuoteFollowsPrices ==
    /\ phase = "quoting" => out = Output(market, delta - rest)
    /\ phase = "done" /\ outcome.kind = "quoted" => outcome.out = Sold(pool, delta)
    /\ phase = "done" /\ outcome = Err("InvalidReserves") /\ market.price > 0 =>
          delta < 0 \/ (IsTicks(pool) /\ delta > Total(pool))

(* Bins are not sorted by the constructor. *)
SortedByPrice ==
    \A i, j \in DOMAIN pool.pieces : IsTicks(pool) \/ i >= j \/ pool.pieces[i].price >= pool.pieces[j].price

(* The sizes that nothing within max_size beats, before the fixed cost or   *)
(* after it.                                                                *)
IsBest(x) ==
    \A y \in 0 .. Total(pool) : Within(limit, y) => NetProfit(market, y) <= NetProfit(market, x)

Near(x) == {y \in 0 .. Total(pool) : Within(limit, y) /\ -Len(pool.pieces) < y - x /\ y - x < Len(pool.pieces)}

(* The claim behind ProvenOptimal: the walk of optimal_size, which prices   *)
(* whole pieces, and the walk of quote, which fills them, agree on the      *)
(* boundaries, so that the size tried is the best one but for one unit of   *)
(* rounding at each boundary; and when nothing is tried, nothing would have *)
(* been profitable (concentrated_liquidity.rs:286-327, dlmm.rs:166-186).    *)
SizeIsBest ==
    (phase = "done" /\ asked = "size" /\ market.price > 0 /\ SortedByPrice) =>
        IF delta = 0 THEN \A y \in 0 .. Total(pool) : Within(limit, y) => NetProfit(market, y) <= 0
        ELSE \E y \in Near(delta) : IsBest(y)

Contract == INSTANCE SizingContract
                WITH outcome <- IF asked = "size" /\ SortedByPrice THEN outcome ELSE Pending

(* The answer of optimal_size keeps the contract of the trait: its size is  *)
(* within max_size and its profit is that of the size returned, although it *)
(* was found by another loop (concentrated_liquidity.rs:329-352,            *)
(* dlmm.rs:184-201).  (In a book that is not sorted, an empty active bin    *)
(* may deny an arbitrage that the next one has.)                            *)
MeetsContract == Contract!Spec

=============================================================================
