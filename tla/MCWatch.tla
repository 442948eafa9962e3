------------------------------ MODULE MCWatch -------------------------------
(* Watch with two branches of the chain,  g - a1 - a2 - a3 - a4  and        *)
(* g - a1 - b2 - b3, and the polling loop counting from a number inside the *)
(* range of the real heights.                                               *)
EXTENDS Watch, TLC

CONSTANTS a1, a2, a3, a4, b2, b3

MCBlocks == {a1, a2, a3, a4, b2, b3}
MCHeight == a1 :> 1 @@ a2 :> 2 @@ a3 :> 3 @@ a4 :> 4 @@ b2 :> 2 @@ b3 :> 3
MCParent == a1 :> Genesis @@ a2 :> a1 @@ a3 :> a2 @@ a4 :> a3 @@ b2 :> a1 @@ b3 :> b2
MCHashes == MCBlocks \cup {Genesis, NoHash} \cup {MockHash(n) : n \in 0 .. MaxU64}

=============================================================================
