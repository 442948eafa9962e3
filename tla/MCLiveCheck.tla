----------------------------- MODULE MCLiveCheck ----------------------------
(* LiveCheck with words of four cells and two blocks: a chain on which all  *)
(* numbers differ from block to block, one whose pair is empty in one       *)
(* block, one with a number beyond u128, and one with a number that fits in *)
(* a u128 and not in a Decimal.                                             *)
EXTENDS LiveCheck

Block(r0, r1, b0, b1, b2, A, fee) ==
    [reserves |-> <<r0, r1>>, balances |-> <<b0, b1, b2>>, A |-> A, fee |-> fee]

MCChains == {
    <<Block(31, 32, 33, 34, 35, 2, 4), Block(41, 42, 43, 44, 45, 3, 5)>>,
    <<Block(31, 32, 33, 34, 35, 2, 4), Block(0, 42, 43, 44, 45, 0, 5)>>,
    <<Block(31, Huge, 33, 34, 35, 2, 4), Block(41, 42, 43, 44, Huge, 3, 20)>>,
    <<Block(31, 32, 33, 34, 35, 2, 4), Block(41, 51, 43, 44, 45, 51, 5)>>}

MCDecimalsOf == (61 :> 18) @@ (62 :> 6)

=============================================================================
