-------------------------------- MODULE Powers -------------------------------
(* Powers of two, by which the loops of the code double and halve.          *)
EXTENDS Naturals

TwoTo[n \in Nat] == IF n = 0 THEN 1 ELSE 2 * TwoTo[n - 1]

=============================================================================
