----------------------------- MODULE LiveCheck ------------------------------
(***************************************************************************)
(* sizing-integration: main of crates/sizing-integration/src/main.rs reads *)
(* a Uniswap v2 pair and Curve's 3pool from a node, through batches of     *)
(* calls to Multicall3, and sizes a trade on each.  The node answers every *)
(* request from a block of its choice: the chain moves on between two of   *)
(* them, is reorganised, or another server answers.                        *)
(***************************************************************************)
EXTENDS Multicall, PoolConstructors

CONSTANTS
    Chains,     (* chains: what the contracts hold in each of Blocks *)
    Blocks,
    UniswapPair, ThreePool, NoCode,     (* addresses *)
    Token0, Token1,                     (* the addresses of the pair's tokens *)
    GetReserves, GetToken0, GetToken1, GetDecimals, GetBalance, GetA, GetFee,
    DecimalsOf,                         (* of each token *)
    FeeUnit,                            (* 1e10, the precision of fee() *)
    MaxRaw, MaxDecimals,                (* 2^96 - 1 and 28: what a Decimal holds *)
    U32                                 (* 2^32 *)

(* A number that a contract holds. *)
Words == Nat \cup {Huge}

ASSUME LiveAssumption ==
    /\ Chains \subseteq [Blocks -> [reserves : [1 .. 2 -> Words], balances : [1 .. 3 -> Words],
                                    A : Words, fee : Words]]
    /\ Blocks \subseteq Nat /\ FeeUnit \in Nat /\ MaxRaw \in Nat /\ MaxDecimals \in Nat
    /\ U32 \in Nat /\ DecimalsOf \in [{Token0, Token1} -> 0 .. U32 - 1]   \* a uint8
    /\ <<UniswapPair, ThreePool, NoCode, Token0, Token1>> \in Seq(Nat)
    /\ IsInjective(<<UniswapPair, ThreePool, NoCode, Token0, Token1>>)
    /\ <<GetReserves, GetToken0, GetToken1, GetDecimals, GetBalance, GetA, GetFee>> \in Seq(Nat)
    /\ IsInjective(<<GetReserves, GetToken0, GetToken1, GetDecimals, GetBalance, GetA, GetFee>>)

VARIABLES
    env,        (* RPC_URL is set, UNISWAP_POOL, CURVE_POOL, and whether the *)
                (* chain RPC_URL leads to has Multicall3                     *)
    chain,      (* the chain behind the node *)
    pc,         (* where main is: "start", "send", "wait", "size" or Ended *)
    batch,      (* the batch of calls it is at: "pair", "decimals", "3pool" *)
    request,    (* the calldata of the eth_call that is not answered yet *)
    reply,      (* what the node answered *)
    held,       (* what was read so far of the pool at hand *)
    reports,    (* the pools sized, with what was printed *)
    faulted     (* history: the node failed to answer *)

vars == <<env, chain, pc, batch, request, reply, held, reports, faulted>>

None == <<>>
Fault == <<"fault">>

Ended == {"done", "exited", "panicked"}

-----------------------------------------------------------------------------
(* The contracts: external.                                                *)

(* What an eth_call finds in block b, calldata data at address target. *)
InBlock(b, target, data) ==
    LET c == chain[b]
        selector == Head(data) IN
    CASE target = UniswapPair /\ selector = GetReserves ->
           Word(c.reserves[1]) \o Word(c.reserves[2]) \o Word(b)
      [] target = UniswapPair /\ selector = GetToken0 -> Word(Token0)
      [] target = UniswapPair /\ selector = GetToken1 -> Word(Token1)
      [] target \in {Token0, Token1} /\ selector = GetDecimals -> Word(DecimalsOf[target])
      [] target = ThreePool /\ selector = GetBalance /\ Len(data) = 1 + W
         /\ WordAt(data, 1) \in 0 .. 2 -> Word(c.balances[WordAt(data, 1) + 1])
      [] target = ThreePool /\ selector = GetA -> Word(c.A)
      [] target = ThreePool /\ selector = GetFee -> Word(c.fee)
      [] target = NoCode -> <<>>
      [] OTHER -> Reverted

NodeAnswer(b) ==
    IF ~env.multicall THEN <<>>
    ELSE Aggregate(request, LAMBDA target, data : InBlock(b, target, data))

-----------------------------------------------------------------------------
(* The program.                                                            *)

Call(target, data) == [target |-> target, data |-> data]

PairCalls(pool) ==
    <<Call(pool, <<GetReserves>>), Call(pool, <<GetToken0>>), Call(pool, <<GetToken1>>)>>

(* Mutant: both answers are asked of the first token. *)
DecimalsOfFirst(tokens) ==
    <<Call(tokens[1], <<GetDecimals>>), Call(tokens[1], <<GetDecimals>>)>>

DecimalsCalls(tokens) ==
    <<Call(tokens[1], <<GetDecimals>>), Call(tokens[2], <<GetDecimals>>)>>

ThreePoolCalls(pool) ==
    [k \in 1 .. 3 |-> Call(pool, <<GetBalance>> \o Word(k - 1))]
    \o <<Call(pool, <<GetA>>), Call(pool, <<GetFee>>)>>

Calls ==
    CASE batch = "pair" -> PairCalls(env.uniswap)
      [] batch = "decimals" -> DecimalsCalls(held.tokens)
      [] batch = "3pool" -> ThreePoolCalls(env.curve)

Goto(next, b) == pc' = next /\ batch' = b

(* Mutant: a failure starts the run again. *)
RunAgain == Goto("send", "pair") /\ held' = held /\ reports' = <<>>

Panic == Goto("panicked", batch) /\ UNCHANGED <<held, reports>>

Init ==
    /\ env \in [rpc : BOOLEAN, uniswap : {UniswapPair, NoCode}, curve : {ThreePool, UniswapPair},
                multicall : BOOLEAN]
    /\ chain \in Chains
    /\ pc = "start" /\ batch = "pair" /\ request = None /\ reply = None
    /\ held = None /\ reports = <<>> /\ faulted = FALSE

(* rpc_url exits if RPC_URL is not set. *)
Start ==
    /\ pc = "start" /\ Goto(IF env.rpc THEN "send" ELSE "exited", batch)
    /\ UNCHANGED <<env, chain, request, reply, held, reports, faulted>>

(* multicall_batch and eth_call up to the wait for the answer. *)
Send ==
    /\ pc = "send" /\ Goto("wait", batch)
    /\ request' = EncodeAggregate3(Calls) /\ reply' = None
    /\ UNCHANGED <<env, chain, held, reports, faulted>>

(* The node answers as of `latest`, whichever block that is. *)
Answer(b) ==
    /\ request # None /\ request' = None
    /\ reply' = NodeAnswer(b)
    /\ UNCHANGED <<env, chain, pc, batch, held, reports, faulted>>

(* The request fails, the answer is no JSON, or it has no result; after 30 *)
(* seconds the client gives up by itself.                                  *)
Fail ==
    /\ request # None /\ request' = None
    /\ reply' = Fault /\ faulted' = TRUE
    /\ UNCHANGED <<env, chain, pc, batch, held, reports>>

(* decode_uint256_as_u128, which wants a slot of one word that fits, and *)
(* decode_address.                                                       *)
Number(bytes, o) == WordAt(bytes, o)
FitsU128(slot) == Len(slot) = W /\ \A k \in 1 .. W \div 2 : slot[k] = 0
Address(bytes) == WordAt(bytes, 0)

(* Whether the decoding of each of the batch's answers holds. *)
Readable(answers) ==
    CASE batch = "pair" ->
           /\ InRange(answers[1], 0, 2 * W)
           /\ FitsU128(Slice(answers[1], 0, W)) /\ FitsU128(Slice(answers[1], W, W))
           /\ Len(answers[2]) = W /\ Len(answers[3]) = W
      [] batch \in {"decimals", "3pool"} -> \A k \in DOMAIN answers : FitsU128(answers[k])

Amount(raw, decimals) == [raw |-> raw, decimals |-> decimals]

Read(answers) ==
    CASE batch = "pair" ->
           [reserves |-> <<Number(answers[1], 0), Number(answers[1], W)>>,
            tokens |-> <<Address(answers[2]), Address(answers[3])>>]
      [] batch = "decimals" ->
           [amounts |-> [k \in 1 .. 2 |-> Amount(held.reserves[k], Number(answers[k], 0) % U32)]]
      [] batch = "3pool" ->
           [amounts |-> [k \in 1 .. 3 |-> Amount(Number(answers[k], 0), <<18, 6, 6>>[k])],
            A |-> Number(answers[4], 0), fee |-> Number(answers[5], 0)]

(* The rest of eth_call, decode_aggregate3_result, and the decoding of the *)
(* answers.  Every failure panics.                                         *)
Decode ==
    /\ pc = "wait" /\ request = None
    /\ reply' = None
    /\ IF reply \notin {Fault, Reverted} /\ Decodes(reply) /\ Readable(Decoded(reply))
       THEN held' = Read(Decoded(reply)) /\ reports' = reports
            /\ IF batch = "pair" THEN Goto("send", "decimals") ELSE Goto("size", batch)
       ELSE Panic
    /\ UNCHANGED <<env, chain, request, faulted>>

(* An environment variable that overrides a price or A(): a set of numbers, *)
(* empty if it is not set; one that does not parse panics.                  *)
Garbage == -1
Overrides == {{}, {7}, {Garbage}}
Override(o, default) == IF o = {} THEN default ELSE CHOOSE v \in o : TRUE

Raw(amounts) == [k \in DOMAIN amounts |-> amounts[k].raw]

(* normalize: neither the raw amount nor 10^decimals may be more than a *)
(* Decimal holds.                                                       *)
Normalizes(amounts) ==
    \A k \in DOMAIN amounts : amounts[k].raw <= MaxRaw /\ amounts[k].decimals <= MaxDecimals

Report(pool, price) == reports' = Append(reports, [pool |-> pool, price |-> price])

(* The rest of run_uniswap_v2.  The price is a thousandth below the pool's *)
(* own unless UNISWAP_REFERENCE_PRICE says another; an error of            *)
(* optimal_size is printed, but a Decimal that overflows, in the price or  *)
(* in the sizing, panics.                                                  *)
SizePair ==
    /\ pc = "size" /\ batch = "decimals"
    /\ \E price \in Overrides, overflows \in BOOLEAN :
         IF /\ Normalizes(held.amounts)
            /\ CpmmAccepted(held.amounts[1].raw, held.amounts[2].raw, One - 1)
            /\ price # {Garbage} /\ ~overflows
         THEN /\ Report([amounts |-> held.amounts], price) /\ held' = None /\ Goto("send", "3pool")
         ELSE Panic
    /\ UNCHANGED <<env, chain, request, reply, faulted>>

(* The rest of run_curve_3pool.  quoted says whether the small quote that *)
(* gives the marginal price succeeds.  A() is converted to a Decimal even *)
(* if it is overridden.                                                   *)
Size3Pool ==
    /\ pc = "size" /\ batch = "3pool"
    /\ \E A \in Overrides, price \in Overrides, quoted \in BOOLEAN, overflows \in BOOLEAN :
         LET pool == [amounts |-> held.amounts, A |-> Override(A, held.A),
                      retention |-> FeeUnit - held.fee] IN
         IF /\ Normalizes(held.amounts) /\ held.A <= MaxRaw /\ held.fee <= MaxRaw
            /\ A # {Garbage}
            /\ StableSwapAccepted(Raw(held.amounts), pool.A * One, (pool.retention * One) \div FeeUnit)
            /\ quoted /\ price # {Garbage} /\ ~overflows
         THEN Report(pool, price) /\ held' = None /\ Goto("done", batch)
         ELSE Panic
    /\ UNCHANGED <<env, chain, request, reply, faulted>>

Program == Start \/ Send \/ Decode \/ SizePair \/ Size3Pool

Node == Fail \/ \E b \in Blocks : Answer(b)

Over == pc \in Ended /\ UNCHANGED vars

Next == Program \/ Node \/ Over

(* The program runs, and a request is answered or given up. *)
Spec == Init /\ [][Next]_vars /\ WF_vars(Program) /\ WF_vars(Node)

-----------------------------------------------------------------------------
(* Properties.                                                             *)

(* The pools as they are in block b. *)
PairIn(b) ==
    [amounts |-> <<Amount(chain[b].reserves[1], DecimalsOf[Token0]),
                   Amount(chain[b].reserves[2], DecimalsOf[Token1])>>]

ThreePoolIn(b, A) ==
    [amounts |-> [k \in 1 .. 3 |-> Amount(chain[b].balances[k], <<18, 6, 6>>[k])],
     A |-> A, retention |-> FeeUnit - chain[b].fee]

(* A pool that is sized is the pool as it was in one block, every number in *)
(* its place and with its own token's decimals, although the pair's numbers *)
(* come in two batches and the node may answer each from another block; and *)
(* never a part of an answer, or another contract's.                        *)
SizesOneBlock ==
    /\ Len(reports) >= 1 => \E b \in Blocks : reports[1].pool = PairIn(b)
    /\ Len(reports) = 2 => \E b \in Blocks : \E A \in {chain[b].A, 7} :
                               reports[2].pool = ThreePoolIn(b, A)

(* A block whose pools the program can size: numbers that fit, none empty. *)
Sound(b) ==
    LET c == chain[b] IN
    /\ Huge \notin {c.reserves[1], c.reserves[2], c.balances[1], c.balances[2], c.balances[3],
                    c.A, c.fee}
    /\ AllPositive(c.reserves) /\ AllPositive(c.balances)

(* With the right addresses, a node that answers and pools that can be sized *)
(* nothing panics but in working with the amounts of a pool, once they are   *)
(* held: what the encoder writes the contract reads, and what it answers the *)
(* decoder reads, whatever the lengths of the data, and every number fits.   *)
HealthyRunDecodes ==
    /\ pc = "panicked" /\ ~faulted /\ \A b \in Blocks : Sound(b)
    /\ env.multicall /\ env.uniswap = UniswapPair /\ env.curve = ThreePool
    => "amounts" \in DOMAIN held

(* Whatever the node does, the program comes to an end. *)
RunEnds == <>(pc \in Ended)

=============================================================================
