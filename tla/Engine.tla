------------------------------- MODULE Engine -------------------------------
(***************************************************************************)
(* evaluate_opportunities and build_leg of crates/sizing-watch/src/        *)
(* engine.rs: one evaluation of the configured pools and routes against a  *)
(* PoolCache that other threads, which hold clones of it, go on writing.   *)
(*                                                                         *)
(* An evaluation takes one step per call of the cache, with everything the *)
(* code computes up to the next call: each call is indivisible (PoolCache).*)
(* Between two steps the node's chain may grow, a head may be recorded and *)
(* a pool may be updated.  What optimal_size finds is a function of what   *)
(* it is given, PoolProfit and RouteProfit: a profit, Failed for any error, *)
(* or Panicked, for the operators of Decimal panic where a result is larger *)
(* than the largest Decimal (curves/cpmm.rs:183, curves/dodo_pmm.rs,        *)
(* curves/curve_cryptoswap.rs:90 and 108, curves/pmm.rs:399).               *)
(***************************************************************************)
EXTENDS PoolConstructors

CONSTANTS
    Configs,          (* watch configurations: pools, routes, min_profit_usd *)
    Contents,         (* reserves and sqrt_price_current of an update: {} is None *)
    PoolProfit(_),    (* expected_profit of a leg's optimal_size, Failed or Panicked *)
    RouteProfit(_),   (* the same for a sequence of legs *)
    MaxBlock,         (* bound: height of the node's chain *)
    MaxUpdates,       (* bound: calls of update_pool after the start *)
    MaxU64,           (* the largest block number *)
    MaxDecimal        (* the largest Decimal, in hundredths *)

Failed == -1
Panicked == -2

ASSUME EngineAssumption ==
    /\ MaxBlock \in Nat \ {0} /\ MaxUpdates \in Nat
    /\ MaxU64 \in Nat /\ MaxBlock < MaxU64
    /\ MaxDecimal \in Nat
    /\ \A cfg \in Configs :
          /\ cfg.min_profit >= 0
          /\ cfg.pools \in Seq(Range(cfg.pools)) /\ cfg.routes \in Seq(Range(cfg.routes))
          /\ \A k \in DOMAIN cfg.routes : cfg.routes[k].legs \in Seq(Range(cfg.routes[k].legs))
    /\ \A c \in Contents : c.reserves \in Seq(Int)

VARIABLES
    config,     (* the WatchConfig *)
    states,     (* the cache's map of pool states *)
    head,       (* the cache's last block number *)
    tip,        (* the height of the chain *)
    updates,    (* bound counter: updates since the start *)
    pc,         (* where the evaluation is *)
    at,         (* the pool or the route it is at *)
    hop,        (* the leg it is at in the route *)
    legs,       (* `legs` of the route, each with the block of its data *)
    minBlock,   (* `min_block` of the route *)
    blockNum,   (* `block_num`, read first *)
    out,        (* the events printed *)
    touched     (* history: pools updated since the evaluation began *)

cache == <<states, head, tip, updates>>
route == <<hop, legs, minBlock>>
vars == <<config, cache, pc, at, route, blockNum, out, touched>>

Phases == {"idle", "pools", "routes", "done", "panicked"}

Ids == {config.pools[k].id : k \in DOMAIN config.pools}

NoState == [block |-> 0, reserves |-> <<>>, price |-> {}]
NoLeg == [curve |-> "none"]

OrElse(option, default) == IF option = {} THEN default ELSE CHOOSE v \in option : TRUE

-----------------------------------------------------------------------------
(* build_leg.                                                              *)

(* The first two reserves, which pmm, dodo and cryptoswap take. *)
Pair(s) == <<s.reserves[1], s.reserves[2]>>

(* A cpmm pool's configured indices are used unchecked: one beyond the *)
(* reserves panics.                                                    *)
IndexFails(c, s) ==
    /\ c.curve = "cpmm" /\ Len(s.reserves) >= 2
    /\ ~(Has(s.reserves, c.input) /\ Has(s.reserves, c.output))

(* The other panics of build_leg: 1.2 times the square root of the price, and *)
(* the sum of the configured weights, may be larger than any Decimal.         *)
BuildPanics(c, s) ==
    \/ IndexFails(c, s)
    \/ /\ c.curve = "clmm"
       /\ 120 * OrElse(s.price, One) \notin -100 * MaxDecimal .. 100 * MaxDecimal
    \/ /\ c.curve = "balancer"
       /\ BalancerOverflows(s.reserves, OrElse(c.weights, <<50, 50>>), c.input, c.output,
                             MaxDecimal)

Accepts(c, s) ==
    CASE c.curve = "cpmm" ->
           /\ Len(s.reserves) >= 2
           /\ CpmmAccepted(At(s.reserves, c.input), At(s.reserves, c.output), c.fee)
      [] c.curve = "stableswap" ->
           StableSwapAccepted(s.reserves, OrElse(c.amplification, 100 * One), c.fee)
      [] c.curve = "pmm" ->
           /\ Len(s.reserves) >= 2
           /\ PmmAccepted(s.reserves[1], s.reserves[2], One, 1)
      [] c.curve = "clmm" ->
           LET p == OrElse(s.price, One) IN
           RangeAccepted(IF s.reserves = <<>> THEN 1000000 ELSE s.reserves[1],
                         80 * p, 120 * p, 100 * p, c.fee)
      [] c.curve = "balancer" ->
           BalancerAccepted(s.reserves, OrElse(c.weights, <<50, 50>>), c.fee, c.input, c.output)
      [] c.curve = "dodo" ->
           /\ Len(s.reserves) >= 2
           /\ DodoAccepted(Pair(s), Pair(s), One, 10, c.fee)
      [] c.curve = "cryptoswap" ->
           /\ Len(s.reserves) >= 2
           /\ CryptoSwapAccepted(Pair(s), OrElse(c.amplification, 400000 * One),
                                 OrElse(c.gamma, 1), c.fee, c.input)
      [] OTHER -> FALSE   (* velodrome, dlmm and unknown types *)

(* The direction that is sized: only these three look at the configured one. *)
Direction(c) ==
    CASE c.curve \in {"cpmm", "balancer"} -> <<c.input, c.output>>
      [] c.curve = "cryptoswap" -> <<c.input, 1 - c.input>>
      [] OTHER -> <<0, 1>>

BuildLeg(c, s) ==
    IF Accepts(c, s)
    THEN [curve |-> c.curve, reserves |-> s.reserves, direction |-> Direction(c), block |-> s.block]
    ELSE NoLeg

-----------------------------------------------------------------------------
(* The other users of the cache.  A writer stores what a block of the chain *)
(* says of a pool, whether or not its head was passed to the cache yet.     *)

Mine ==
    /\ tip < MaxBlock /\ tip' = tip + 1
    /\ UNCHANGED <<config, states, head, updates, pc, at, route, blockNum, out, touched>>

NewHead ==
    /\ head < tip /\ head' = head + 1
    /\ UNCHANGED <<config, states, tip, updates, pc, at, route, blockNum, out, touched>>

Update(id, s) ==
    /\ updates < MaxUpdates /\ updates' = updates + 1
    /\ s.block \in states[id].block .. tip /\ s.block > 0
    /\ states' = [states EXCEPT ![id] = s]
    /\ touched' = touched \cup {id}
    /\ UNCHANGED <<config, head, tip, pc, at, route, blockNum, out>>

PoolStates ==
    {[block |-> b, reserves |-> c.reserves, price |-> c.price] : b \in 1 .. MaxBlock, c \in Contents}

Others == Mine \/ NewHead \/ \E id \in Ids, s \in PoolStates : Update(id, s)

(* main stores one and two million as the reserves of every pool, with block *)
(* 1, before it evaluates; a user of the library may not have stored all.    *)
Initial == [block |-> 1, reserves |-> <<1, 2>>, price |-> {One}]

Init ==
    /\ config \in Configs
    /\ \E loaded \in SUBSET Ids :
           states = [id \in Ids |-> IF id \in loaded THEN Initial ELSE NoState]
    /\ tip = 1 /\ head \in 0 .. 1 /\ updates = 0
    /\ pc = "idle" /\ at = 1
    /\ hop = 1 /\ legs = <<>> /\ minBlock = MaxU64
    /\ blockNum = 0
    /\ out = <<>> /\ touched = {}

-----------------------------------------------------------------------------
(* evaluate_opportunities.                                                 *)

Begin ==
    /\ pc = "idle" /\ pc' = "pools"
    /\ blockNum' = head
    /\ touched' = {}
    /\ UNCHANGED <<config, cache, at, route, out>>

Event(target, profit, from, label) ==
    [target |-> target, profit |-> profit, from |-> from,
     block_number |-> blockNum, pool_state_block |-> label]

(* Mutant: a profit equal to the threshold does not pay. *)
PaysMore(profit) == profit \notin {Failed, Panicked} /\ profit > config.min_profit

Pays(profit) == profit \notin {Failed, Panicked} /\ profit >= config.min_profit

Emit(event) == out' = Append(out, event)

(* Mutant: the events are collected, and printed at the end. *)
PanicLosesPrinted == pc' = "panicked" /\ out' = <<>> /\ UNCHANGED <<at, route>>

Panic == pc' = "panicked" /\ UNCHANGED <<at, route, out>>

(* One turn of the loop over config.pools. *)
EvaluatePool ==
    /\ pc = "pools" /\ at <= Len(config.pools)
    /\ LET c == config.pools[at]
           s == states[c.id]
           missing == s = NoState
           leg == BuildLeg(c, s)
           profit == PoolProfit(leg) IN
       IF ~missing /\ (BuildPanics(c, s) \/ (leg # NoLeg /\ profit = Panicked)) THEN Panic
       ELSE /\ at' = at + 1 /\ pc' = pc
            /\ IF missing \/ leg = NoLeg \/ ~Pays(profit) THEN out' = out
               ELSE Emit(Event(c.id, profit, <<s.block>>, s.block))
            /\ UNCHANGED route
    /\ UNCHANGED <<config, cache, blockNum, touched>>

FinishPools ==
    /\ pc = "pools" /\ at > Len(config.pools)
    /\ pc' = "routes" /\ at' = 1
    /\ UNCHANGED <<config, cache, route, blockNum, out, touched>>

(* Mutant: the last configuration with the identifier. *)
FindLast(id) ==
    LET found == {k \in DOMAIN config.pools : config.pools[k].id = id} IN
    IF found = {} THEN 0 ELSE CHOOSE k \in found : \A m \in found : m <= k

(* config.pools.iter().find(...): the first with the identifier, 0 for none. *)
Find(id) ==
    LET found == {k \in DOMAIN config.pools : config.pools[k].id = id} IN
    IF found = {} THEN 0 ELSE CHOOSE k \in found : \A m \in found : k <= m

Min2(a, b) == IF a < b THEN a ELSE b

(* One turn of the loop over route_cfg.legs.  The block counts even if no leg *)
(* can be built.                                                              *)
EvaluateHop ==
    /\ pc = "routes" /\ at <= Len(config.routes) /\ hop <= Len(config.routes[at].legs)
    /\ LET id == config.routes[at].legs[hop]
           k == Find(id) IN
       IF k = 0 \/ states[id] = NoState
       THEN hop' = hop + 1 /\ UNCHANGED <<pc, at, legs, minBlock, out>>
       ELSE LET c == config.pools[k]
                s == states[id]
                leg == BuildLeg(c, s) IN
            IF BuildPanics(c, s) THEN Panic
            ELSE /\ minBlock' = Min2(minBlock, s.block)
                 /\ legs' = IF leg = NoLeg THEN legs ELSE Append(legs, leg)
                 /\ hop' = hop + 1
                 /\ UNCHANGED <<pc, at, out>>
    /\ UNCHANGED <<config, cache, blockNum, touched>>

(* Mutant: legs that are missing do not count. *)
WholeIfTwo(r) == Len(legs) >= 2

Whole(r) == Len(legs) = Len(r.legs) /\ Len(legs) >= 2

(* Mutant: min_block is declared outside of the loop over the routes. *)
NextRouteKeepsBlock == at' = at + 1 /\ hop' = 1 /\ legs' = <<>> /\ minBlock' = minBlock

(* Mutant: legs is declared outside of the loop over the routes. *)
NextRouteKeepsLegs == at' = at + 1 /\ hop' = 1 /\ legs' = legs /\ minBlock' = MaxU64

NextRoute == at' = at + 1 /\ hop' = 1 /\ legs' = <<>> /\ minBlock' = MaxU64

(* The rest of a turn of the loop over config.routes. *)
EvaluateRoute ==
    /\ pc = "routes" /\ at <= Len(config.routes) /\ hop > Len(config.routes[at].legs)
    /\ LET r == config.routes[at]
           profit == RouteProfit(legs) IN
       IF Whole(r) /\ profit = Panicked THEN Panic
       ELSE /\ NextRoute /\ pc' = pc
            /\ IF Whole(r) /\ Pays(profit)
               THEN Emit(Event(r.id, profit, [k \in DOMAIN legs |-> legs[k].block],
                                IF minBlock = MaxU64 THEN blockNum ELSE minBlock))
               ELSE out' = out
    /\ UNCHANGED <<config, cache, blockNum, touched>>

Return ==
    /\ pc = "routes" /\ at > Len(config.routes)
    /\ pc' = "done"
    /\ UNCHANGED <<config, cache, at, route, blockNum, out, touched>>

Evaluation == Begin \/ EvaluatePool \/ FinishPools \/ EvaluateHop \/ EvaluateRoute \/ Return

(* The evaluation is over: nothing of it is left to happen. *)
Over == pc \in {"done", "panicked"} /\ UNCHANGED vars

(* What the others do after the end is of no interest. *)
Next == (pc \notin {"done", "panicked"} /\ Others) \/ Evaluation \/ Over

Spec == Init /\ [][Next]_vars

-----------------------------------------------------------------------------
(* Properties.                                                             *)

Labels == 0 .. MaxBlock

(* Types, and that a route's legs are those of the turns of this route. *)
TypeOK ==
    /\ config \in Configs
    /\ states \in [Ids -> PoolStates \cup {Initial, NoState}]
    /\ head \in 0 .. tip /\ tip \in 1 .. MaxBlock /\ updates \in 0 .. MaxUpdates
    /\ pc \in Phases /\ at \in Nat \ {0} /\ hop \in Nat \ {0}
    /\ Len(legs) < hop /\ \A k \in DOMAIN legs : legs[k].block \in Labels
    /\ minBlock \in Labels \cup {MaxU64} /\ blockNum \in 0 .. MaxBlock
    /\ \A k \in DOMAIN out : out[k].pool_state_block \in Labels
    /\ touched \subseteq Ids

(* What an instantaneous evaluation of the cache would print.  It is written *)
(* from the configuration and the cache, without the loops.                  *)
LegPanics(c) == states[c.id] # NoState /\ BuildPanics(c, states[c.id])

LegOf(c) ==
    IF states[c.id] = NoState \/ LegPanics(c) THEN NoLeg ELSE BuildLeg(c, states[c.id])

(* A panic is due as well, and no event can stand for it. *)
Promise(target, chain, profit) ==
    [target |-> target, profit |-> profit,
     due |-> profit = Panicked \/ (profit # Failed /\ profit >= config.min_profit),
     from |-> [j \in DOMAIN chain |-> chain[j].block]]

PoolPromise(c) ==
    IF LegPanics(c) THEN Promise(c.id, <<>>, Panicked)
    ELSE IF LegOf(c) = NoLeg THEN Promise(c.id, <<>>, Failed)
    ELSE Promise(c.id, <<LegOf(c)>>, PoolProfit(LegOf(c)))

FirstWith(id) ==
    config.pools[CHOOSE k \in DOMAIN config.pools :
                    /\ config.pools[k].id = id
                    /\ \A m \in 1 .. k - 1 : config.pools[m].id # id]

RoutePromise(r) ==
    LET hops == {r.legs[j] : j \in DOMAIN r.legs}
        usable == Len(r.legs) >= 2 /\ hops \subseteq Ids
                  /\ \A id \in hops : LegOf(FirstWith(id)) # NoLeg
        chain == [j \in DOMAIN r.legs |-> LegOf(FirstWith(r.legs[j]))] IN
    IF \E id \in hops \cap Ids : LegPanics(FirstWith(id)) THEN Promise(r.id, <<>>, Panicked)
    ELSE IF usable THEN Promise(r.id, chain, RouteProfit(chain))
    ELSE Promise(r.id, <<>>, Failed)

(* The targets, in the order of the config: its pools, then its routes. *)
Targets == Len(config.pools) + Len(config.routes)

PromiseOf(k) ==
    IF k <= Len(config.pools) THEN PoolPromise(config.pools[k])
    ELSE RoutePromise(config.routes[k - Len(config.pools)])

Blocks(event) == {event.from[k] : k \in DOMAIN event.from}

(* The pools that are read for a target; identifiers need not be distinct. *)
Needs(target) ==
    (Ids \cap {target})
        \cup UNION {Range(config.routes[k].legs) :
                      k \in {m \in DOMAIN config.routes : config.routes[m].id = target}}

Undisturbed(target) == Needs(target) \cap touched = {}

Keeps(event, promise) ==
    promise.due /\ event.profit = promise.profit /\ event.from = promise.from

(* The events are those of the first n targets. *)
Matching(n) ==
    \E place \in [DOMAIN out -> 1 .. n] :
        /\ \A j, m \in DOMAIN out : j < m => place[j] < place[m]
        /\ \A j \in DOMAIN out :
              /\ out[j].target = PromiseOf(place[j]).target
              /\ Undisturbed(out[j].target) => Keeps(out[j], PromiseOf(place[j]))
        /\ \A k \in 1 .. n :
              PromiseOf(k).due /\ Undisturbed(PromiseOf(k).target) =>
                  \E j \in DOMAIN out : place[j] = k

(* What was printed about the targets none of whose pools was written while *)
(* the evaluation went on is what an evaluation in one instant would have   *)
(* printed, in its order: nothing is left out, nothing is made of a part of *)
(* a route, no panic is passed over, and what happens to other pools has no *)
(* influence (engine.rs:162-282).                                           *)
MatchesInstant == pc = "done" => Matching(Targets)

(* The block an event names is that of the oldest data it was computed from, *)
(* also where a writer changed some legs of a route between their reads: the *)
(* data is never older than the event says, and no older than the event can  *)
(* say (engine.rs: min_block).                                               *)
LabelIsOldestLeg ==
    \A k \in DOMAIN out :
        /\ out[k].pool_state_block \in Blocks(out[k])
        /\ \A b \in Blocks(out[k]) : out[k].pool_state_block <= b

(* A panic loses nothing that came before it and has its cause in the target *)
(* it stops at: the events of all earlier targets are out, as an instant     *)
(* would have printed them, and unless a writer wrote to the target's pools  *)
(* meanwhile, building or sizing it panics (engine.rs:73-75, 92-93,          *)
(* 189-231, 240-277).                                                        *)
PanicKeepsEarlier ==
    pc = "panicked" =>
        \E n \in 1 .. Targets :
            /\ Matching(n - 1)
            /\ Undisturbed(PromiseOf(n).target) => PromiseOf(n).profit = Panicked

=============================================================================
