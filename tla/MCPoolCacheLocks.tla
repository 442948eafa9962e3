-------------------------- MODULE MCPoolCacheLocks --------------------------
(* A small instance of PoolCacheLocks: block numbers 0..3, so that 3 is the *)
(* largest u64, and headers that extend, fork, skip, repeat and restart.    *)
EXTENDS PoolCacheLocks

CONSTANTS a, b

H(n, h, p) == [number |-> n, hash |-> h, parent |-> p]

MCHashes == {NoHash, a, b}
MCHeads == {H(0, a, b), H(1, a, b), H(2, b, a), H(2, a, b), H(3, a, b), H(3, NoHash, NoHash)}

=============================================================================
