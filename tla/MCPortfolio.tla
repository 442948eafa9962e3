----------------------------- MODULE MCPortfolio ----------------------------
(* Portfolio with up to two opportunities on concave pools of up to four    *)
(* units of input, with and without a fixed cost.                           *)
EXTENDS Portfolio, Sequences

Marginals == {24, 30, 60, 260}
NonIncreasing(s) == \A i, j \in DOMAIN s : i < j => s[i] >= s[j]

Cumulative(s) ==
    LET sum[i \in 0 .. Len(s)] == IF i = 0 THEN 0 ELSE sum[i - 1] + s[i] IN sum

MCCurves ==
    {[out |-> Cumulative(s), price |-> 20, fixed |-> f] :
        s \in {q \in [1 .. 4 -> Marginals] : NonIncreasing(q)}, f \in {0, 30}}

=============================================================================
