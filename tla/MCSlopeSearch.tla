--------------------------- MODULE MCSlopeSearch ---------------------------
(* SlopeSearch over curves of three slopes, concave ones and S-shaped ones, *)
(* and curves that cannot fill large inputs or a single one.                *)
EXTENDS SlopeSearch

Top == 90

(* Slope s up to turn, slope t up to twice that, slope u to the capacity. *)
Leg(s, t, u, turn, capacity) ==
    [x \in 0 .. capacity |->
        IF x <= turn THEN s * x
        ELSE IF x <= 2 * turn THEN s * turn + t * (x - turn)
        ELSE s * turn + t * turn + u * (x - 2 * turn)]

(* Newton's iterations fail at one size. *)
Without(leg, x) == [y \in DOMAIN leg \ {x} |-> leg[y]]

Curves ==
    {Leg(4, 2, 1, turn, capacity) : turn \in {0, 1, 3, 6, 11, 17, 30, Top}, capacity \in {9, 40, Top}}
        \cup {Leg(2, 4, 1, turn, Top) : turn \in {2, 5, 9, 23}}
        \cup {Without(Leg(4, 2, 1, 6, Top), x) : x \in {1, 7, 12}}

MCMarkets == [legs : {<<c>> : c \in Curves}, price : {0, 1, 2, 3}, fixed : {0, 5}]

=============================================================================
