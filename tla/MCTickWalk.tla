----------------------------- MODULE MCTickWalk -----------------------------
(* TickWalk over pools of up to three ranges, with gaps and overlaps, and   *)
(* books of three bins, with empty ones and in any order.                   *)
EXTENDS TickWalk

MCRounding == {-1, 0, 1}
MCDeltas == {-1, 0, 1, 4, 7, 30}

Range(lower, upper) == [lower : {lower}, upper : {upper}, liquidity : {1, 3}]

Chains ==
    {<<r>> : r \in Range(1, 5)}
        \cup {<<r, s>> : r \in Range(1, 3), s \in Range(3, 6) \cup Range(2, 5) \cup Range(4, 6)}
        \cup {<<r, s, t>> : r \in Range(1, 2), s \in Range(2, 4), t \in Range(4, 6)}

Bins == {[price |-> 6, size |-> 3], [price |-> 4, size |-> 0], [price |-> 4, size |-> 3], [price |-> 2, size |-> 2]}

TickPools == [kind : {"ticks"}, pieces : Chains, current : {3, 5, 6}]
BinPools == [kind : {"bins"}, pieces : [1 .. 3 -> Bins], active : 1 .. 2]

MCMarkets ==
    {[pool |-> q, legs |-> <<OutputTable(q)>>, price |-> r, fixed |-> f] :
        q \in {t \in TickPools : TicksAccepted(t)} \cup BinPools, r \in {0, 1, 3, 4}, f \in {0, 5}}

=============================================================================
