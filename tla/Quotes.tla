------------------------------- MODULE Quotes -------------------------------
(***************************************************************************)
(* quote of five curves of crates/sizing-core/src/curves, and the interval *)
(* that Pmm searches.  StableSwap (solve_d, then solve_new_output_reserve), *)
(* VelodromeStable (solve_y) and CurveCryptoSwap (compute_d, then solve_y) *)
(* have no closed form: one action is one round of Newton's method.  Pmm   *)
(* and DodoPmm have one, in Regimes; Pmm's optimal_size first doubles its  *)
(* bound and looks at the shape of quote below it.                         *)
(*                                                                         *)
(* Amounts are on a grid, so that a division loses up to one unit; all     *)
(* three invariants are homogeneous, the size of the unit does not matter  *)
(* to them, and Token is the number of units of one token.  Fractions are  *)
(* in units of 1 / One, and a relative tolerance is 1 / Precision: an      *)
(* amount of a few units cannot meet it, so that a solve for one may use   *)
(* up its rounds.                                                          *)
(***************************************************************************)
EXTENDS Regimes, FiniteSets, SequencesExt

CONSTANTS
    Quotes,      (* [pool, size] that are asked for *)
    Searches,    (* Pmm pools that are sized *)
    Precision,   (* the inverse of NEWTON_TOLERANCE *)
    Token,
    Nudge,       (* the inverse of the relative step of CryptoSwap's derivative *)
    MaxRounds,   (* MAX_NEWTON_ITERATIONS *)
    MaxDoublings,(* the doublings search_upper_bound allows: 200 *)
    Samples,     (* UNIMODALITY_CHECK_SAMPLES *)
    Noise,       (* bound on what the roundings of the grid add up to *)
    Slack        (* bound on what the tolerance costs an output *)

(* What the constructors accept: positive reserves, a fee that keeps a part *)
(* of the input in (0, 1], and a Pmm whose price and K are positive.         *)
Pools == {q.pool : q \in Quotes} \cup Searches

ASSUME NewtonAssumption ==
    /\ {One, Precision, Token, Nudge, MaxRounds, MaxDoublings} \subseteq Nat \ {0}
    /\ Samples \in Nat /\ Samples > 1 /\ {Noise, Slack} \subseteq Nat
    /\ \A q \in Quotes : q.size \in Int
    /\ \A p \in Pools :
         /\ p.curve \in {"stableswap", "velodrome", "cryptoswap", "pmm", "dodo"}
         /\ p.input \in {1, 2} /\ p.reserves \in Seq(Nat \ {0}) /\ Len(p.reserves) > 1
         /\ p.curve # "pmm" => p.fee \in 1 .. One
         /\ p.curve = "pmm" => p.input = 1 /\ {p.price, p.K} \subseteq Nat \ {0}
    /\ \A p \in Searches : p.curve = "pmm"

VARIABLES
    pool,        (* the curve with its reserves and parameters *)
    size,        (* delta_in *)
    pc,          (* "start", the unknown that is solved for, "bound", "check", "done" *)
    D,           (* the invariant, once it is known *)
    value,       (* the iterate, or the upper end of the interval *)
    round,       (* rounds begun, or doublings done *)
    result,      (* "none", "ok" or an error *)
    out,         (* the output *)
    confirmed,   (* unimodality_confirmed *)
    exhausted    (* history: a solve ended without being close to a root *)

quotevars == <<pool, size, pc, D, value, round, result, out, confirmed, exhausted>>

Abs(v) == IF v < 0 THEN -v ELSE v

Assets == Len(pool.reserves)
Total(amounts) == FoldLeft(LAMBDA sum, r : sum + r, 0, amounts)
AfterFee(amount) == (amount * pool.fee) \div One

(* The input reserve after the trade: StableSwap takes its fee from the output. *)
NewInput ==
    pool.reserves[pool.input]
    + (IF pool.curve = "stableswap" THEN size ELSE AfterFee(size))

Bought == IF pool.input = 1 THEN 2 ELSE 1
OldOutput == pool.reserves[Bought]

-----------------------------------------------------------------------------
(* StableSwap.                                                             *)

Ann == pool.A * Assets ^ Assets

(* d_p, with the divisions between the multiplications as in the code. *)
DP(v) == FoldLeft(LAMBDA acc, r : (acc * v) \div (Assets * r), v, pool.reserves)

StableDenominator(v) == (Ann - 1) * v + (Assets + 1) * DP(v)
StableNext(v) == ((Ann * Total(pool.reserves) + DP(v) * Assets) * v) \div StableDenominator(v)

(* The reserves but the output's, after the trade. *)
Others == <<NewInput>> \o SubSeq(pool.reserves, 3, Assets)

C(inv) ==
    LET c == FoldLeft(LAMBDA acc, x : (acc * inv) \div (x * Assets), inv, Others)
    IN (c * inv) \div (Ann * Assets)
B(inv) == Total(Others) + inv \div Ann

OutputDenominator(v) == 2 * v + B(D) - D
OutputNext(v) == (v * v + C(D)) \div OutputDenominator(v)

(* VelodromeStable. *)

SumSquares == pool.reserves[1] * pool.reserves[1] + pool.reserves[2] * pool.reserves[2]
CTarget == ((OldOutput * SumSquares) \div NewInput) * pool.reserves[pool.input]
H(v) == v * (v * v + NewInput * NewInput) - CTarget

(* Mutant: the derivative misses a factor. *)
HPrimeSmall(v) == v * v + NewInput * NewInput

HPrime(v) == 3 * v * v + NewInput * NewInput
VelodromeNext(v) == v - H(v) \div HPrime(v)

(* CurveCryptoSwap: the residual, in units of amounts, and its derivative as *)
(* a difference over Step.  The clamp keeps the iterate of solve_y between   *)
(* the smallest amount and max_y.                                            *)

Residual(inv, x0, x1) ==
    LET k0 == Lesser((4 * x0 * x1) \div ((inv * inv) \div One), One)
        g == (pool.gamma * One) \div (pool.gamma + One - k0)
        k == (((pool.A * k0 * g) \div One) * g) \div One
        left == (((k * inv) \div One) * pool.gamma) \div One + inv
        right == (((pool.A * k0 * (x0 + x1)) \div One) * pool.gamma) \div One
                 + (((inv * inv) \div (4 * x0)) * inv) \div x1 IN
    left - right

ResidualAt(v) ==
    IF pc = "d" THEN Residual(v, pool.reserves[1], pool.reserves[2])
    ELSE IF pool.input = 1 THEN Residual(D, NewInput, v) ELSE Residual(D, v, NewInput)

Step(v) == Greater(v \div Nudge, 1)
Rise(v) == ResidualAt(v + Step(v)) - ResidualAt(v)
MaxY == (D * D) \div (4 * NewInput)

(* Mutant: no smallest amount. *)
ClampAbove(v) == IF pc = "d" THEN v ELSE Lesser(v, MaxY)

Clamp(v) == IF pc = "d" THEN v ELSE Greater(Lesser(v, MaxY), 1)
CryptoNext(v) == Clamp(v - (ResidualAt(v) * Step(v)) \div Rise(v))

-----------------------------------------------------------------------------
(* The rounds.                                                             *)

(* A derivative of zero ends the iteration. *)
Singular(v) ==
    CASE pool.curve = "stableswap" /\ pc = "d" -> StableDenominator(v) = 0
      [] pool.curve = "stableswap" /\ pc = "y" -> OutputDenominator(v) = 0
      [] pool.curve = "velodrome" -> HPrime(v) <= 0
      [] pool.curve = "cryptoswap" -> Rise(v) = 0

NextValue(v) ==
    CASE pool.curve = "stableswap" /\ pc = "d" -> StableNext(v)
      [] pool.curve = "stableswap" /\ pc = "y" -> OutputNext(v)
      [] pool.curve = "velodrome" -> VelodromeNext(v)
      [] pool.curve = "cryptoswap" -> CryptoNext(v)

(* Mutant: an absolute tolerance of one token. *)
CloseToAToken(v, next) == Abs(next - v) < Token

(* The test that ends the iteration: relative to the old value, to the new *)
(* one but at least to a token, or absolute.                               *)
Close(v, next) ==
    CASE pool.curve = "stableswap" ->
           IF v = 0 THEN next = v ELSE Abs(next - v) * Precision < Abs(v)
      [] pool.curve = "velodrome" -> Abs(next - v) * Precision <= Greater(Abs(next), Token)
      [] pool.curve = "cryptoswap" -> Abs(next - v) * Precision < Token

(* CryptoSwap looks at the residual before it takes a step. *)
AtRoot(v) == pool.curve = "cryptoswap" /\ Abs(ResidualAt(v)) * Precision < Token

(* A search starts at the base reserve, or a token if there is less, below *)
(* the pole.                                                               *)
QuoteInit ==
    /\ \/ \E q \in Quotes : pool = q.pool /\ size = q.size /\ pc = "start" /\ value = 0
       \/ \E p \in Searches :
             /\ pool = p /\ size = 0 /\ pc = "bound"
             /\ value = Lesser(Greater(p.reserves[1], Token), PoleMargin(p))
    /\ D = 0 /\ round = 0 /\ confirmed = FALSE
    /\ result = "none" /\ out = 0 /\ exhausted = FALSE

End(r, amount) ==
    /\ pc' = "done" /\ result' = r /\ out' = amount
    /\ UNCHANGED <<pool, size, D, value, round, confirmed>>

Solve(unknown, from, inv) ==
    /\ pc' = unknown /\ value' = from /\ D' = inv /\ round' = 0
    /\ UNCHANGED <<pool, size, result, out, confirmed>>

(* The checks of quote, and the start of the first iteration.  StableSwap   *)
(* solves for D before it looks at the size; a size of zero ends the others. *)
Start ==
    /\ pc = "start"
    /\ CASE pool.curve = "stableswap" -> Solve("d", Total(pool.reserves), 0)
         [] pool.curve # "stableswap" /\ size < 0 -> End("InvalidReserves", 0)
         [] pool.curve # "stableswap" /\ size = 0 -> End("ok", 0)
         [] pool.curve = "pmm" /\ size > 0 ->
              IF PmmQuote(pool, size) = Unfillable THEN End("InvalidReserves", 0)
              ELSE End("ok", PmmQuote(pool, size))
         [] pool.curve = "dodo" /\ size > 0 -> End("ok", DodoQuote(pool, size))
         [] pool.curve = "velodrome" /\ size > 0 -> Solve("y", OldOutput, 0)
         [] pool.curve = "cryptoswap" /\ size > 0 ->
              Solve("d", 2 * SquareRoot(pool.reserves[1] * pool.reserves[2]), 0)
    /\ UNCHANGED exhausted

(* quote_with_d: an output below zero by less than the tolerance is zero. *)
StableOutput(raw) ==
    IF raw >= 0 THEN End("ok", AfterFee(raw))
    ELSE IF Abs(raw) * Precision < OldOutput THEN End("ok", 0)
    ELSE End("InvalidReserves", 0)

(* The solution of D leads on to the output reserve, that one to the output. *)
Accept(v) ==
    IF pc = "d"
    THEN CASE pool.curve = "stableswap" /\ size < 0 -> End("InvalidReserves", 0)
           [] pool.curve = "stableswap" /\ size >= 0 -> Solve("y", v, v)
           [] pool.curve = "cryptoswap" ->
                Solve("y", Lesser((v * v) \div (4 * NewInput), OldOutput), v)
    ELSE IF pool.curve = "stableswap" THEN StableOutput(OldOutput - v)
    ELSE End("ok", Greater(OldOutput - v, 0))

(* The iteration ends without being close to a root.  CryptoSwap answers *)
(* with the last iterate.                                                *)
GiveUp(v) ==
    /\ exhausted' = TRUE
    /\ IF pool.curve = "cryptoswap" THEN Accept(v) ELSE End("DidNotConverge", 0)

Found(v) == exhausted' = exhausted /\ Accept(v)

Continue(v) ==
    /\ value' = v /\ round' = round + 1
    /\ UNCHANGED <<pool, size, pc, D, result, out, confirmed, exhausted>>

RoundLeft == round + 1 < MaxRounds

Round ==
    /\ pc \in {"d", "y"}
    /\ IF AtRoot(value) THEN Found(value)
       ELSE IF Singular(value) THEN GiveUp(value)
       ELSE LET next == NextValue(value) IN
            IF Close(value, next) THEN Found(next)
            ELSE IF RoundLeft THEN Continue(next)
            ELSE GiveUp(next)

-----------------------------------------------------------------------------
(* What Pmm's optimal_size does before it searches.                        *)

(* search_upper_bound doubles until the pole is near, nearly all of the quote *)
(* reserve is bought, or it has doubled too often.                            *)
DoubleBound ==
    /\ pc = "bound"
    /\ LET doubled == 2 * value
           output == PmmQuote(pool, doubled)
           beyond == doubled >= PoleMargin(pool) \/ output = Unfillable
           enough == output >= (pool.reserves[2] * 9999) \div 10000 IN
       /\ value' = IF beyond THEN value ELSE doubled
       /\ round' = IF beyond \/ enough THEN round ELSE round + 1
       /\ pc' = IF beyond \/ enough \/ round' > MaxDoublings THEN "check" ELSE "bound"
    /\ UNCHANGED <<pool, size, D, result, out, confirmed, exhausted>>

(* The quotes at the first i sample points; a size that cannot be filled has *)
(* none.                                                                      *)
Point(i) == (value * i) \div Samples

Sampled[i \in Nat] ==
    IF i = 0 THEN << >>
    ELSE LET q == PmmQuote(pool, Point(i - 1)) IN
         IF q = Unfillable THEN Sampled[i - 1] ELSE Append(Sampled[i - 1], q)

Differences(s) == [i \in 1 .. Len(s) - 1 |-> s[i + 1] - s[i]]

(* Mutant: only a change of the curvature's sign counts. *)
NeverFlips(s) ==
    \/ Len(s) < 3
    \/ LET bends == Differences(Differences(s)) IN
       (\A i \in DOMAIN bends : bends[i] <= 0) \/ (\A i \in DOMAIN bends : bends[i] >= 0)

(* check_unimodality: no sign is positive, so that none can change. *)
NeverConvex(s) ==
    \/ Len(s) < 3
    \/ LET bends == Differences(Differences(s)) IN \A i \in DOMAIN bends : bends[i] <= 0

Check ==
    /\ pc = "check" /\ pc' = "done"
    /\ confirmed' = NeverConvex(Sampled[Samples + 1])
    /\ result' = "ok"
    /\ UNCHANGED <<pool, size, D, value, round, out, exhausted>>

Over == pc = "done" /\ UNCHANGED quotevars

QuoteNext == Start \/ Round \/ DoubleBound \/ Check \/ Over

QuoteSpec == QuoteInit /\ [][QuoteNext]_quotevars

-----------------------------------------------------------------------------
(* Properties.                                                             *)

(* The root of a function that falls through zero: the numbers of a range *)
(* that lie below it, counted.                                            *)
RootIn(range, Below(_)) == Cardinality({v \in range : Below(v)})

ExactD ==
    RootIn(1 .. Total(pool.reserves),
           LAMBDA v : Ann * Total(pool.reserves) + v >= Ann * v + DP(v))

ExactOutput ==
    CASE pool.curve = "stableswap" ->
           LET inv == ExactD IN
           AfterFee(OldOutput - RootIn(1 .. Total(pool.reserves), LAMBDA y : y * y + (B(inv) - inv) * y <= C(inv)))
      [] pool.curve = "velodrome" ->
           OldOutput - RootIn(1 .. OldOutput, LAMBDA y : H(y) <= 0)

ExactWithin(above, below) ==
    result = "ok" /\ pool.curve \in {"stableswap", "velodrome"} =>
        /\ out <= ExactOutput + above
        /\ out >= ExactOutput - below

(* A quote that is given is the exact one, that of the invariant itself: it *)
(* promises no more than the pool pays, and falls short by no more than the *)
(* tolerance costs; an iteration that is not done ends in an error and not  *)
(* in a quote (INV-2 of docs/whitepaper.md).                                *)
QuoteIsExact == ExactWithin(Noise, Slack)

(* No quote gives out more than the reserve or less than nothing, however   *)
(* the iterations ended; and only Pmm gives out all of it.  (DodoPmm is left *)
(* out: its formulas, which have no cap, go on beyond its reserves.)         *)
NeverDrains ==
    result = "ok" /\ pool.curve # "dodo" =>
        0 <= out /\ out <= OldOutput /\ (out = OldOutput => pool.curve = "pmm")

(* A DodoPmm pool after a trade, and one that is sold the other way round. *)
After(amount, paid) ==
    [pool EXCEPT !.reserves = [@ EXCEPT ![pool.input] = @ + AfterFee(amount), ![Bought] = @ - paid]]
Turned(p) == [p EXCEPT !.input = 3 - @]

(* What a DodoPmm pool pays depends on where it ends up and not on the way:  *)
(* a trade made in two parts is paid like the whole, also where a part ends  *)
(* in one regime and the other begins there, and a trade that is taken back  *)
(* gains nothing.  query_sell_base and query_sell_quote are six formulas     *)
(* that must agree on one curve.                                             *)
NoPathPays ==
    result = "ok" /\ pool.curve = "dodo" /\ out < OldOutput =>
        /\ \A more \in {q.size : q \in {q \in Quotes : q.pool = pool}} \ {-1, 0} :
              Abs(DodoQuote(pool, size + more) - (out + DodoQuote(After(size, out), more))) <= Slack
        /\ out > 0 => DodoQuote(Turned(After(size, out)), out) <= size + Noise

(* The interval that Pmm searches can be filled all over; and where it is    *)
(* said to be confirmed, no reference price makes the profit at the sample   *)
(* points fall and rise again: no point lies below the chord of two others.  *)
Searchable ==
    pool \in Searches /\ pc = "done" =>
        /\ \A x \in 0 .. value : PmmQuote(pool, x) # Unfillable
        /\ confirmed =>
              LET q == [i \in 0 .. Samples |-> PmmQuote(pool, Point(i))] IN
              \A i, j, k \in 0 .. Samples :
                  i < j /\ j < k => (k - i) * q[j] >= (k - j) * q[i] + (j - i) * q[k]

(* A pool without a part that restores its balance is confirmed. *)
BalancedIsConfirmed ==
    pool \in Searches /\ pc = "done" /\ CrossoverDelta(pool) = 0 => confirmed

(* Pmm searches an interval it can fill, and says that the search may be     *)
(* trusted where it may, and where it must (check_unimodality, which the     *)
(* search_interval and unimodality_confirmed of its answer come from).       *)
IntervalIsSound == Searchable /\ BalancedIsConfirmed

(* Newton's method comes down to the root from above and never crosses it: *)
(* from the start for the invariant of StableSwap and for Velodrome, from  *)
(* the second round on for the output reserve of StableSwap.  This is why  *)
(* an early stop makes an output smaller and never larger.                 *)
Descends ==
    [][ pool.curve \in {"stableswap", "velodrome"} /\ pc = pc' /\ round' > round
        /\ (pool.curve = "velodrome" \/ pc = "d" \/ round > 0)
          => value' <= value + Noise ]_quotevars

(* An iteration that does not converge is an error (docs/ERRORS.md:44 says *)
(* so of Curve CryptoSwap).                                                *)
UnconvergedIsError == exhausted => result \in {"none", "DidNotConverge"}

=============================================================================
