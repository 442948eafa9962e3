----------------------------- MODULE Multicall ------------------------------
(***************************************************************************)
(* The ABI codec of crates/sizing-integration/src/multicall.rs, and the    *)
(* Multicall3 contract it talks to.  Bytes are sequences of numbers.  A    *)
(* word has W cells instead of 32 bytes, a number sits in its last cell,   *)
(* and one that does not fit in the lower half of a word (16 bytes in the  *)
(* code) is Huge, which sets the first.  A selector is one cell.           *)
(***************************************************************************)
EXTENDS Naturals, Sequences, SequencesExt

CONSTANTS
    W,            (* cells of a word: 32 *)
    Aggregate3,   (* the selector of aggregate3 *)
    Huge          (* stands for the numbers of more than half a word *)

ASSUME MulticallAssumption ==
    W \in Nat /\ W >= 2 /\ W % 2 = 0 /\ Aggregate3 \in Nat /\ Huge \notin Nat

Zeros(n) == [k \in 1 .. n |-> 0]

(* word_uint256, word_bool and word_address. *)
Word(v) == IF v = Huge THEN <<1>> \o Zeros(W - 1) ELSE Zeros(W - 1) \o <<v>>
WordBool(b) == Word(IF b THEN 1 ELSE 0)

(* read_uint256: the lower 8 bytes of the word after offset o. *)
WordAt(data, o) == data[o + W]

Slice(data, o, n) == SubSeq(data, o + 1, o + n)
InRange(data, o, n) == o + n <= Len(data)

Padding(n) == (W - (n % W)) % W

(* encode_bytes_value: the length, the data, zeros up to a whole word. *)
EncodeBytes(data) == Word(Len(data)) \o data \o Zeros(Padding(Len(data)))

(* The offsets of elements that are not of a fixed length: they follow the *)
(* offsets, one after the other.                                           *)
Offsets(bodies) ==
    LET running[k \in DOMAIN bodies] ==
          IF k = 1 THEN W * Len(bodies) ELSE running[k - 1] + Len(bodies[k - 1])
    IN running

WithOffsets(bodies) ==
    FlattenSeq([k \in DOMAIN bodies |-> Word(Offsets(bodies)[k])]) \o FlattenSeq(bodies)

EncodeArray(bodies) == Word(W) \o Word(Len(bodies)) \o WithOffsets(bodies)

AllowFailure == FALSE

(* A tuple (target, allowFailure, callData). *)
EncodeCall(call) ==
    Word(call.target) \o WordBool(AllowFailure) \o Word(3 * W) \o EncodeBytes(call.data)

EncodeAggregate3(calls) ==
    <<Aggregate3>> \o EncodeArray([k \in DOMAIN calls |-> EncodeCall(calls[k])])

(* The start of the k-th element of the array that follows offset o. *)
Element(data, o, k) == o + W + WordAt(data, o + W * k)

(* Mutant: the data is taken to begin at its length. *)
BytesFromLength(data, o, word) ==
    LET start == o + WordAt(data, o + W * word) IN Slice(data, start, WordAt(data, start))

(* The bytes whose offset is the word-th word of the tuple at offset o. *)
BytesOf(data, o, word) ==
    LET start == o + WordAt(data, o + W * word) IN Slice(data, start + W, WordAt(data, start))

(* decode_aggregate3_result panics on an answer without a first word, which *)
(* is what an address without code gives, and on success = false.           *)
Succeeded(data, k) == WordAt(data, Element(data, WordAt(data, 0), k)) # 0

Decodes(data) ==
    /\ InRange(data, 0, W)
    /\ \A k \in 1 .. WordAt(data, WordAt(data, 0)) : Succeeded(data, k)

Decoded(data) ==
    LET base == WordAt(data, 0) IN
    [k \in 1 .. WordAt(data, base) |-> BytesOf(data, Element(data, base, k), 1)]

-----------------------------------------------------------------------------
(* The Multicall3 contract: it reads its calldata by the rules of the ABI, *)
(* makes the calls in one block, Answer(target, data) being what each gives *)
(* or Reverted, and returns an array of (success, returnData).  A call that *)
(* reverts makes all of them revert unless its failure is allowed.         *)

Reverted == <<"reverted">>

CallsIn(calldata) ==
    LET data == Tail(calldata)
        base == WordAt(data, 0) IN
    [k \in 1 .. WordAt(data, base) |->
        LET tuple == Element(data, base, k) IN
        [target |-> WordAt(data, tuple), lenient |-> WordAt(data, tuple + W) # 0,
         data |-> BytesOf(data, tuple, 2)]]

EncodeResult(bytes) ==
    IF bytes = Reverted THEN WordBool(FALSE) \o Word(2 * W) \o EncodeBytes(<<>>)
    ELSE WordBool(TRUE) \o Word(2 * W) \o EncodeBytes(bytes)

Aggregate(calldata, Answer(_, _)) ==
    LET calls == CallsIn(calldata)
        answers == [k \in DOMAIN calls |-> Answer(calls[k].target, calls[k].data)] IN
    IF Head(calldata) # Aggregate3
       \/ \E k \in DOMAIN calls : answers[k] = Reverted /\ ~calls[k].lenient
    THEN Reverted
    ELSE EncodeArray([k \in DOMAIN calls |-> EncodeResult(answers[k])])

=============================================================================
