------------------------------ MODULE MCEngine ------------------------------
(* Engine with configurations of two or three pools: every curve that       *)
(* build_leg knows and one it does not, parameters that the constructors   *)
(* refuse, one pool in both directions under one identifier, an index      *)
(* beyond two reserves, weights beyond the largest Decimal, and routes with *)
(* a pool that is not configured.                                          *)
EXTENDS Engine, SequencesExt

Pool(id, curve, input, output) ==
    [id |-> id, curve |-> curve, fee |-> 99, input |-> input, output |-> output,
     amplification |-> {}, gamma |-> {}, weights |-> {}]

Routes(rs) == [k \in DOMAIN rs |-> [id |-> <<"r1", "r2", "r3">>[k], legs |-> rs[k]]]

Config(ps, rs, min) == [pools |-> ps, routes |-> Routes(rs), min_profit |-> min]

MCConfigs == {
    Config(<<>>, <<>>, 5),
    Config(<<Pool("a", "cpmm", 0, 1), Pool("b", "stableswap", 0, 1)>>,
           <<<<"a", "b">>, <<"b", "b">>>>, 1),
    Config(<<Pool("a", "cpmm", 0, 1), Pool("a", "cpmm", 1, 0), Pool("b", "balancer", 1, 0)>>,
           <<<<"a", "b">>, <<"b", "a">>>>, 2),
    Config(<<Pool("a", "cpmm", 0, 2), Pool("b", "pmm", 0, 1)>>, <<<<"b", "a">>>>, 0),
    Config(<<Pool("a", "clmm", 0, 1), Pool("b", "cryptoswap", 1, 0)>>,
           <<<<"a", "b", "a">>, <<"a">>, <<"a", "missing">>>>, 1),
    Config(<<[Pool("a", "cpmm", 0, 1) EXCEPT !.fee = 0], Pool("b", "dodo", 0, 1)>>,
           <<<<"b", "a">>, <<"b", "b">>>>, 0),
    Config(<<[Pool("a", "stableswap", 0, 1) EXCEPT !.amplification = {50}],
             Pool("b", "cryptoswap", 2, 0), Pool("c", "velodrome", 0, 1)>>,
           <<<<"c", "b">>>>, 0),
    Config(<<[Pool("a", "balancer", 0, 1) EXCEPT !.weights = {<<80, 21>>}],
             [Pool("b", "balancer", 0, 1) EXCEPT !.weights = {<<80, 30>>}]>>,
           <<<<"a", "a">>, <<"a", "b">>>>, 1),
    Config(<<Pool("a", "cpmm", 0, 1), [Pool("b", "balancer", 0, 1) EXCEPT !.weights = {<<1000, 30>>}]>>,
           <<>>, 1)}

MCContents == {
    [reserves |-> <<>>, price |-> {}],
    [reserves |-> <<5>>, price |-> {0}],
    [reserves |-> <<3, 1>>, price |-> {}],
    [reserves |-> <<1, 4, 2>>, price |-> {}],
    [reserves |-> <<2, 7>>, price |-> {MaxDecimal}]}

(* What is bought less what is sold; a range always sells at a gain. *)
Gain(leg) ==
    IF leg.curve = "clmm" THEN 1
    ELSE At(leg.reserves, leg.direction[2]) - At(leg.reserves, leg.direction[1])

(* The product of the two reserves is larger than any Decimal. *)
Overflows(leg) ==
    /\ leg.curve # "clmm"
    /\ 100 * At(leg.reserves, leg.direction[1]) * At(leg.reserves, leg.direction[2]) > MaxDecimal

MCPoolProfit(leg) ==
    IF Overflows(leg) THEN Panicked ELSE IF Gain(leg) > 0 THEN Gain(leg) ELSE Failed

(* The order of the legs matters. *)
MCRouteProfit(chain) ==
    LET gain == FoldLeft(LAMBDA sum, leg : 2 * sum + Gain(leg), 0, chain) IN
    IF \E k \in DOMAIN chain : Overflows(chain[k]) THEN Panicked
    ELSE IF gain > 0 THEN gain ELSE Failed

=============================================================================
