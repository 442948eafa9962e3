-------------------------- MODULE MCGoldenSection ---------------------------
(* GoldenSection over piecewise linear legs with decreasing slopes, some of *)
(* which can fill only small inputs; routes of two of them.                 *)
EXTENDS GoldenSection

MCFib == [n \in 0 .. Depth |-> <<1, 1, 2, 3, 5, 8, 13>>[n + 1]]

MCLowest == -1000
MCPenalty == -500

Top == 104

(* Slope s up to turn, slope t from there to the capacity. *)
Leg(s, t, turn, capacity) ==
    [x \in 0 .. capacity |-> IF x <= turn THEN s * x ELSE s * turn + t * (x - turn)]

Pools == {Leg(5, 1, turn, capacity) : turn \in {2, 11, 30, 77}, capacity \in {8, 28, Top}} \cup {Leg(5, 1, 0, 0)}

MCMarkets ==
    [legs : {<<p>> : p \in Pools}, price : {0, 2, 5}, fixed : {0, 40}]
        \cup [legs : {<<p, Leg(2, 1, 110, 520)>> : p \in Pools}, price : {3, 10}, fixed : {0, 40}]

=============================================================================
