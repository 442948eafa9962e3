---------------------------- MODULE EngineProofs ----------------------------
(***************************************************************************)
(* Proofs about Engine, for every configuration, whatever the writers      *)
(* store and whenever they do: types and labels first, then that what is   *)
(* printed of undisturbed targets is what an instant would print, and what *)
(* a panic leaves behind.                                                  *)
(***************************************************************************)
EXTENDS Engine, SequenceTheorems, NaturalsInduction, WellFoundedInduction, TLAPS

-----------------------------------------------------------------------------
(* Sequences and the first of the pools with an identifier.                *)

LEMMA AppendGrows ==
    ASSUME NEW S, NEW s \in Seq(S), NEW e
    PROVE  Append(s, e) \in Seq(S \cup {e})
<1>1. s \in Seq(S \cup {e})
  OBVIOUS
<1> QED
  BY <1>1, AppendProperties

LEMMA PoolsAreSequence ==
    ASSUME NEW cfg \in Configs
    PROVE  Len(cfg.pools) \in Nat /\ DOMAIN cfg.pools = 1 .. Len(cfg.pools)
BY EngineAssumption, LenProperties

LEMMA RoutesAreSequences ==
    ASSUME NEW cfg \in Configs, NEW n \in Nat \ {0}, n <= Len(cfg.routes)
    PROVE  Len(cfg.routes[n].legs) \in Nat
<1>1. n \in DOMAIN cfg.routes
  BY EngineAssumption, LenProperties
<1> QED
  BY <1>1, EngineAssumption, LenProperties

LEMMA LeastIndex ==
    ASSUME NEW F \in SUBSET Nat, F # {}
    PROVE  \E k \in F : \A m \in F : k <= m
<1>1. PICK k \in F : \A m \in F : ~(<<m, k>> \in OpToRel(<, Nat))
  BY NatLessThanWellFounded, WFMin
<1>2. \A m \in F : k <= m
  <2>1. SUFFICES ASSUME NEW m \in F PROVE k <= m
    OBVIOUS
  <2>2. m \in Nat /\ k \in Nat
    OBVIOUS
  <2>3. ~(m < k)
    BY <1>1, <2>2 DEF OpToRel
  <2> QED
    BY <2>2, <2>3
<1> QED
  BY <1>2

LEMMA FindFirst ==
    ASSUME config \in Configs, NEW id, Find(id) # 0
    PROVE  Find(id) \in DOMAIN config.pools /\ config.pools[Find(id)].id = id
<1> DEFINE found == {k \in DOMAIN config.pools : config.pools[k].id = id}
<1>1. found # {}
  BY DEF Find
<1>2. found \subseteq Nat
  BY PoolsAreSequence
<1>4. \E k \in found : \A m \in found : k <= m
  BY <1>1, <1>2, LeastIndex
<1>5. Find(id) = CHOOSE k \in found : \A m \in found : k <= m
  BY <1>1 DEF Find
<1>6. Find(id) \in found
  BY <1>4, <1>5
<1> QED
  BY <1>6

LEMMA MinIsLeast ==
    ASSUME NEW x \in Int, NEW y \in Int
    PROVE  Min2(x, y) \in {x, y} /\ Min2(x, y) <= x /\ Min2(x, y) <= y
BY DEF Min2

-----------------------------------------------------------------------------
(* The cache holds blocks of the chain, and a leg that is built carries the *)
(* block of the state it was built from.                                    *)

PoolState == PoolStates \cup {Initial, NoState}

CacheOK ==
    /\ config \in Configs
    /\ tip \in 1 .. MaxBlock /\ head \in 0 .. tip
    /\ states \in [Ids -> PoolState]

LEMMA StateBlock ==
    ASSUME NEW s \in PoolState
    PROVE  s.block \in Labels /\ Len(s.reserves) \in Nat
BY EngineAssumption, LenProperties DEF PoolState, PoolStates, Initial, NoState, Labels

LEMMA LegBlock ==
    ASSUME NEW c, NEW s, BuildLeg(c, s) # NoLeg
    PROVE  BuildLeg(c, s).block = s.block
BY DEF BuildLeg

-----------------------------------------------------------------------------
(* The inductive invariant: the legs collected so far are fewer than the   *)
(* turns taken, and when each turn gave one, min_block is the least of     *)
(* their blocks.  Only such routes are sized, which makes the label right. *)

Sealed(e) ==
    /\ e.pool_state_block \in Labels
    /\ e.pool_state_block \in Blocks(e)
    /\ \A b \in Blocks(e) : e.pool_state_block <= b

LegsTyped == \E S : legs \in Seq(S) /\ \A l \in S : l.block \in Labels
OutSealed == \E S : out \in Seq(S) /\ \A e \in S : Sealed(e)

LeastBlock ==
    IF legs = <<>> THEN minBlock = MaxU64
    ELSE /\ \E k \in DOMAIN legs : legs[k].block = minBlock
         /\ \A k \in DOMAIN legs : minBlock <= legs[k].block

RouteOK ==
    /\ at \in Nat \ {0} /\ hop \in Nat \ {0}
    /\ LegsTyped /\ Len(legs) < hop
    /\ minBlock \in Labels \cup {MaxU64}
    /\ pc \in {"idle", "pools"} => hop = 1 /\ legs = <<>> /\ minBlock = MaxU64
    /\ pc = "routes" /\ at <= Len(config.routes) => hop <= Len(config.routes[at].legs) + 1
    /\ Len(legs) + 1 = hop => LeastBlock

EvaluationOK ==
    /\ pc \in Phases /\ blockNum \in Labels
    /\ updates \in 0 .. MaxUpdates /\ touched \subseteq Ids
    /\ RouteOK /\ OutSealed

IInv == CacheOK /\ EvaluationOK

-----------------------------------------------------------------------------
(* What each event is labelled with. *)

LEMMA EmitKeeps ==
    ASSUME OutSealed, NEW e, Sealed(e)
    PROVE  \E S : Append(out, e) \in Seq(S) /\ \A x \in S : Sealed(x)
<1>1. PICK S : out \in Seq(S) /\ \A x \in S : Sealed(x)
  BY DEF OutSealed
<1>2. Append(out, e) \in Seq(S \cup {e})
  BY <1>1, AppendGrows
<1> QED
  BY <1>1, <1>2

LEMMA PoolEventSealed ==
    ASSUME NEW s \in PoolState, NEW target, NEW profit
    PROVE  Sealed(Event(target, profit, <<s.block>>, s.block))
<1> DEFINE e == Event(target, profit, <<s.block>>, s.block)
<1>1. Blocks(e) = {s.block}
  BY DEF Blocks, Event
<1>2. s.block \in Int
  BY StateBlock DEF Labels
<1>3. e.pool_state_block = s.block
  BY DEF Event
<1> QED
  BY <1>1, <1>2, <1>3, StateBlock DEF Sealed

LEMMA RouteEventSealed ==
    ASSUME CacheOK, RouteOK, pc = "routes", at <= Len(config.routes),
           hop > Len(config.routes[at].legs), Whole(config.routes[at]),
           NEW target, NEW profit
    PROVE  Sealed(Event(target, profit, [k \in DOMAIN legs |-> legs[k].block],
                        IF minBlock = MaxU64 THEN blockNum ELSE minBlock))
<1> DEFINE from == [k \in DOMAIN legs |-> legs[k].block]
           label == IF minBlock = MaxU64 THEN blockNum ELSE minBlock
           e == Event(target, profit, from, label)
<1>1. PICK S : legs \in Seq(S) /\ \A l \in S : l.block \in Labels
  BY DEF RouteOK, LegsTyped
<1>2. Len(legs) \in Nat /\ DOMAIN legs = 1 .. Len(legs) /\ \A k \in DOMAIN legs : legs[k] \in S
  BY <1>1, LenProperties
<1>3. Len(legs) + 1 = hop /\ Len(legs) >= 2
  <2>1. Len(config.routes[at].legs) \in Nat
    BY RoutesAreSequences DEF CacheOK, RouteOK
  <2>2. Len(legs) = Len(config.routes[at].legs) /\ Len(legs) >= 2
    BY DEF Whole
  <2>3. hop \in Nat /\ hop <= Len(config.routes[at].legs) + 1
    BY DEF RouteOK
  <2> QED
    BY <2>1, <2>2, <2>3
<1>4. legs # <<>>
  BY <1>3
<1>5. LeastBlock
  BY <1>3 DEF RouteOK
<1>6. PICK k \in DOMAIN legs : legs[k].block = minBlock
  BY <1>4, <1>5 DEF LeastBlock
<1>7. \A j \in DOMAIN legs : minBlock <= legs[j].block
  BY <1>4, <1>5 DEF LeastBlock
<1>8. minBlock \in Labels
  BY <1>1, <1>2, <1>6
<1>9. minBlock # MaxU64
  BY <1>8, EngineAssumption DEF Labels
<1>10. Blocks(e) = {legs[j].block : j \in DOMAIN legs}
  BY DEF Blocks, Event
<1>11. e.pool_state_block = minBlock
  BY <1>9 DEF Event
<1> HIDE DEF e
<1>12. Sealed(e)
  BY <1>6, <1>7, <1>8, <1>10, <1>11 DEF Sealed
<1> QED
  BY <1>12 DEF e

-----------------------------------------------------------------------------
(* The cache stays as it is described whatever anybody does.               *)

LEMMA IdsStay ==
    ASSUME config' = config
    PROVE  Ids' = Ids
BY DEF Ids

LEMMA CacheInit ==
    ASSUME Init
    PROVE  CacheOK
<1>1. config \in Configs /\ tip \in 1 .. MaxBlock /\ head \in 0 .. tip
  BY EngineAssumption DEF Init
<1>2. states \in [Ids -> PoolState]
  BY DEF Init, PoolState
<1> QED
  BY <1>1, <1>2 DEF CacheOK

LEMMA CacheStep ==
    ASSUME CacheOK, [Next]_vars
    PROVE  CacheOK'
<1> USE EngineAssumption
<1>1. CASE Mine
  BY <1>1 DEF CacheOK, Mine, Ids
<1>2. CASE NewHead
  BY <1>2 DEF CacheOK, NewHead, Ids
<1>3. ASSUME NEW id \in Ids, NEW s \in PoolStates, Update(id, s)
      PROVE  CacheOK'
  <2>1. s \in PoolState
    BY DEF PoolState
  <2>2. states' \in [Ids -> PoolState]
    BY <1>3, <2>1 DEF CacheOK, Update
  <2> QED
    BY <1>3, <2>2, IdsStay DEF CacheOK, Update
<1>4. CASE Evaluation \/ Over \/ UNCHANGED vars
  <2>1. UNCHANGED <<config, cache>>
    BY <1>4 DEF Evaluation, Begin, EvaluatePool, FinishPools, EvaluateHop, EvaluateRoute, Return,
                Over, vars
  <2> QED
    BY <2>1, IdsStay DEF CacheOK, cache
<1> QED
  BY <1>1, <1>2, <1>3, <1>4 DEF Next, Others

-----------------------------------------------------------------------------
(* The evaluation keeps its part of the invariant.                         *)

LEMMA EvaluationInit ==
    ASSUME Init
    PROVE  EvaluationOK
<1>1. legs \in Seq({}) /\ out \in Seq({}) /\ Len(legs) = 0
  BY EmptySeq DEF Init
<1>2. LegsTyped /\ OutSealed
  BY <1>1 DEF LegsTyped, OutSealed
<1>3. RouteOK
  BY <1>1, <1>2, EngineAssumption DEF Init, RouteOK, LeastBlock
<1> QED
  BY <1>2, <1>3, EngineAssumption DEF Init, EvaluationOK, Phases, Labels

(* A step of somebody else leaves the evaluation alone. *)
LEMMA OthersLeaveRoute ==
    ASSUME EvaluationOK, UNCHANGED <<config, pc, at, route, blockNum, out>>,
           updates' \in 0 .. MaxUpdates, touched' \subseteq Ids
    PROVE  EvaluationOK'
<1>1. Ids' = Ids
  BY IdsStay
<1> QED
  BY <1>1 DEF EvaluationOK, RouteOK, LegsTyped, LeastBlock, OutSealed, Phases, route

LEMMA OthersKeep ==
    ASSUME CacheOK, EvaluationOK, Others \/ Over \/ UNCHANGED vars
    PROVE  EvaluationOK'
<1>1. UNCHANGED <<config, pc, at, route, blockNum, out>>
  BY DEF Others, Mine, NewHead, Update, Over, vars, route
<1>2. updates' \in 0 .. MaxUpdates /\ touched' \subseteq Ids
  BY EngineAssumption DEF Others, Mine, NewHead, Update, Over, vars, cache, EvaluationOK
<1> QED
  BY <1>1, <1>2, OthersLeaveRoute

LEMMA PoolsKeep ==
    ASSUME CacheOK, EvaluationOK, EvaluatePool
    PROVE  EvaluationOK'
<1> DEFINE c == config.pools[at]
           s == states[c.id]
<1>1. UNCHANGED <<config, updates, route, blockNum, touched>> /\ Ids' = Ids
  BY IdsStay DEF EvaluatePool, Panic, cache, route
<1>2. pc = "pools" /\ pc' \in {"pools", "panicked"} /\ at' \in Nat \ {0}
  BY DEF EvaluatePool, Panic, EvaluationOK, RouteOK
<1>3. RouteOK'
  BY <1>1, <1>2 DEF EvaluationOK, RouteOK, LegsTyped, LeastBlock, route
<1>4. s \in PoolState
  <2>1. at \in DOMAIN config.pools
    BY PoolsAreSequence DEF CacheOK, EvaluationOK, RouteOK, EvaluatePool
  <2>2. c.id \in Ids
    BY <2>1 DEF Ids
  <2> QED
    BY <2>2 DEF CacheOK
<1>5. OutSealed'
  <2>1. CASE out' = out
    BY <2>1 DEF EvaluationOK, OutSealed
  <2>2. ASSUME NEW profit, out' = Append(out, Event(c.id, profit, <<s.block>>, s.block))
        PROVE  OutSealed'
    <3> DEFINE e == Event(c.id, profit, <<s.block>>, s.block)
    <3>1. Sealed(e)
      BY <1>4, PoolEventSealed
    <3> HIDE DEF e
    <3>2. \E S : Append(out, e) \in Seq(S) /\ \A x \in S : Sealed(x)
      BY <3>1, EmitKeeps DEF EvaluationOK
    <3>3. out' = Append(out, e)
      BY <2>2 DEF e
    <3> QED
      BY <3>2, <3>3 DEF OutSealed
  <2> QED
    BY <2>1, <2>2 DEF EvaluatePool, Panic, Emit
<1> QED
  BY <1>1, <1>2, <1>3, <1>5 DEF EvaluationOK, Phases

LEMMA RoutesKeep ==
    ASSUME CacheOK, EvaluationOK, EvaluateRoute
    PROVE  EvaluationOK'
<1>1. UNCHANGED <<config, updates, blockNum, touched>> /\ Ids' = Ids
  BY IdsStay DEF EvaluateRoute, cache
<1>2. pc = "routes" /\ pc' \in {"routes", "panicked"}
  BY DEF EvaluateRoute, Panic
<1>3. RouteOK'
  <2>1. CASE UNCHANGED <<at, route>>
    <3>1. LegsTyped' /\ LeastBlock' = LeastBlock
      BY <2>1 DEF EvaluationOK, RouteOK, LegsTyped, LeastBlock, route
    <3> QED
      BY <1>1, <1>2, <2>1, <3>1 DEF EvaluationOK, RouteOK, route
  <2>2. CASE NextRoute
    <3>1. at' = at + 1 /\ hop' = 1 /\ legs' = <<>> /\ minBlock' = MaxU64
      BY <2>2 DEF NextRoute
    <3>2. LegsTyped' /\ Len(legs') = 0
      <4>1. legs' \in Seq({}) /\ Len(legs') = 0
        BY <3>1, EmptySeq
      <4> QED
        BY <4>1 DEF LegsTyped
    <3>3. at' \in Nat \ {0}
      BY <3>1 DEF EvaluationOK, RouteOK
    <3>4. at' <= Len(config'.routes) => 1 <= Len(config'.routes[at'].legs) + 1
      BY <1>1, <3>3, RoutesAreSequences DEF CacheOK
    <3> QED
      BY <1>1, <1>2, <3>1, <3>2, <3>3, <3>4 DEF RouteOK, LeastBlock
  <2> QED
    BY <2>1, <2>2 DEF EvaluateRoute, Panic
<1>4. OutSealed'
  <2>1. CASE out' = out
    BY <2>1 DEF EvaluationOK, OutSealed
  <2>2. CASE out' # out
    <3> DEFINE r == config.routes[at]
               e == Event(r.id, RouteProfit(legs), [k \in DOMAIN legs |-> legs[k].block],
                          IF minBlock = MaxU64 THEN blockNum ELSE minBlock)
    <3>1. Whole(r) /\ out' = Append(out, e)
      BY <2>2 DEF EvaluateRoute, Panic, Emit
    <3>2. Sealed(e)
      BY <3>1, RouteEventSealed DEF EvaluateRoute, EvaluationOK
    <3> HIDE DEF e
    <3>3. \E S : Append(out, e) \in Seq(S) /\ \A x \in S : Sealed(x)
      BY <3>2, EmitKeeps DEF EvaluationOK
    <3> QED
      BY <3>1, <3>3 DEF OutSealed
  <2> QED
    BY <2>1, <2>2
<1> QED
  BY <1>1, <1>2, <1>3, <1>4 DEF EvaluationOK, Phases

(* A turn that gives a leg keeps min_block least; a turn that gives none    *)
(* leaves a gap between the turns and the legs that is never made up for.   *)
LEMMA HopsKeep ==
    ASSUME CacheOK, EvaluationOK, EvaluateHop
    PROVE  EvaluationOK'
<1> DEFINE id == config.routes[at].legs[hop]
           n == Find(id)
           c == config.pools[n]
           s == states[id]
           leg == BuildLeg(c, s)
<1> USE EngineAssumption
<1>1. UNCHANGED <<config, updates, at, blockNum, touched, out>> /\ Ids' = Ids
  BY IdsStay DEF EvaluateHop, Panic, cache, route
<1>2. /\ pc = "routes" /\ pc' \in {"routes", "panicked"}
      /\ at \in Nat \ {0} /\ at <= Len(config.routes)
      /\ hop \in Nat \ {0} /\ hop <= Len(config.routes[at].legs)
  BY DEF EvaluateHop, Panic, EvaluationOK, RouteOK
<1>3. Len(config.routes[at].legs) \in Nat
  BY <1>2, RoutesAreSequences DEF CacheOK
<1>4. OutSealed' /\ pc' \in Phases
  BY <1>1, <1>2 DEF EvaluationOK, OutSealed, Phases
<1>5. PICK S : legs \in Seq(S) /\ \A l \in S : l.block \in Labels
  BY DEF EvaluationOK, RouteOK, LegsTyped
<1>6. Len(legs) \in Nat /\ DOMAIN legs = 1 .. Len(legs) /\ \A k \in DOMAIN legs : legs[k] \in S
  BY <1>5, LenProperties
<1>7. Len(legs) < hop /\ minBlock \in Labels \cup {MaxU64}
  BY DEF EvaluationOK, RouteOK
<1>8. CASE UNCHANGED route
  <2>1. RouteOK'
    BY <1>1, <1>2, <1>8 DEF EvaluationOK, RouteOK, LegsTyped, LeastBlock, route
  <2> QED
    BY <1>1, <1>4, <2>1 DEF EvaluationOK
<1>9. CASE hop' = hop + 1 /\ UNCHANGED <<pc, legs, minBlock>>
  <2>1. Len(legs') + 1 # hop' /\ Len(legs') < hop'
    BY <1>2, <1>6, <1>7, <1>9
  <2>2. LegsTyped'
    BY <1>5, <1>9 DEF LegsTyped
  <2>3. hop' \in Nat \ {0} /\ at' \in Nat \ {0} /\ hop' <= Len(config'.routes[at'].legs) + 1
    BY <1>1, <1>2, <1>3, <1>9
  <2>4. pc' = "routes" /\ minBlock' \in Labels \cup {MaxU64}
    BY <1>2, <1>7, <1>9
  <2>5. RouteOK'
    BY <2>1, <2>2, <2>3, <2>4 DEF RouteOK
  <2> QED
    BY <1>1, <1>4, <2>5 DEF EvaluationOK
<1>10. CASE /\ n # 0 /\ minBlock' = Min2(minBlock, s.block)
            /\ legs' = IF leg = NoLeg THEN legs ELSE Append(legs, leg)
            /\ hop' = hop + 1 /\ pc' = pc
  <2>1. s \in PoolState
    <3>1. id \in Ids
      BY <1>10, FindFirst DEF CacheOK, Ids
    <3> QED
      BY <3>1 DEF CacheOK
  <2>2. s.block \in Labels /\ s.block < MaxU64 /\ s.block \in Int
    <3>1. s.block \in Labels
      BY <2>1, StateBlock
    <3> QED
      BY <3>1 DEF Labels
  <2>3. minBlock \in Int
    BY <1>7 DEF Labels
  <2>4. minBlock' \in {minBlock, s.block} /\ minBlock' <= minBlock /\ minBlock' <= s.block
    BY <1>10, <2>2, <2>3, MinIsLeast
  <2>5. minBlock' \in Labels \cup {MaxU64}
    BY <1>7, <2>2, <2>4
  <2>6. CASE leg = NoLeg
    <3>1. Len(legs') + 1 # hop' /\ Len(legs') < hop'
      BY <1>2, <1>6, <1>7, <1>10, <2>6
    <3>2. LegsTyped'
      BY <1>5, <1>10, <2>6 DEF LegsTyped
    <3>3. hop' = hop + 1 /\ pc' = "routes"
      BY <1>2, <1>10
    <3>4. hop' \in Nat \ {0} /\ at' \in Nat \ {0} /\ hop' <= Len(config'.routes[at'].legs) + 1
      BY <1>1, <1>2, <1>3, <3>3
    <3>5. RouteOK'
      BY <2>5, <3>1, <3>2, <3>3, <3>4 DEF RouteOK
    <3> QED
      BY <1>1, <1>4, <3>5 DEF EvaluationOK
  <2>7. CASE leg # NoLeg
    <3>1. leg.block = s.block
      BY <2>7, LegBlock
    <3> HIDE DEF leg
    <3>2. legs' = Append(legs, leg)
      BY <1>10, <2>7
    <3>3. /\ Len(legs') = Len(legs) + 1 /\ DOMAIN legs' = 1 .. Len(legs) + 1
          /\ \A k \in 1 .. Len(legs) : legs'[k] = legs[k]
          /\ legs'[Len(legs) + 1] = leg
      <4>1. legs \in Seq(S \cup {leg}) /\ leg \in S \cup {leg}
        BY <1>5
      <4>2. legs' \in Seq(S \cup {leg})
        BY <3>2, <4>1, AppendProperties
      <4> QED
        BY <3>2, <4>1, <4>2, AppendProperties, LenProperties
    <3>4. legs' # <<>>
      BY <1>6, <3>3
    <3>5. LegsTyped'
      <4>1. legs' \in Seq(S \cup {leg})
        BY <1>5, <3>2, AppendGrows
      <4>2. \A l \in S \cup {leg} : l.block \in Labels
        BY <1>5, <2>2, <3>1
      <4> QED
        BY <4>1, <4>2 DEF LegsTyped
    <3>6. Len(legs') + 1 = hop' => LeastBlock'
      <4>1. SUFFICES ASSUME Len(legs) + 1 = hop PROVE LeastBlock'
        BY <1>2, <1>6, <1>10, <3>3
      <4>2. LeastBlock
        BY <4>1 DEF EvaluationOK, RouteOK
      <4>3. \A k \in 1 .. Len(legs) : minBlock <= legs[k].block
        BY <1>6, <4>2 DEF LeastBlock
      <4>4. \A k \in 1 .. Len(legs) : legs[k].block \in Int
        BY <1>5, <1>6 DEF Labels
      <4>5. \A k \in 1 .. Len(legs) : minBlock' <= legs[k].block
        BY <2>2, <2>3, <2>4, <4>3, <4>4
      <4>6. \A k \in DOMAIN legs' : minBlock' <= legs'[k].block
        BY <1>6, <2>4, <3>1, <3>3, <4>5
      <4>7. CASE minBlock' = s.block
        BY <1>6, <3>1, <3>3, <3>4, <4>6, <4>7 DEF LeastBlock
      <4>8. CASE minBlock' = minBlock /\ minBlock # s.block
        <5>1. minBlock < MaxU64
          BY <2>2, <2>3, <2>4, <4>8
        <5>2. legs # <<>>
          BY <2>3, <4>2, <5>1 DEF LeastBlock
        <5>3. PICK k \in DOMAIN legs : legs[k].block = minBlock
          BY <4>2, <5>2 DEF LeastBlock
        <5>4. k \in DOMAIN legs' /\ legs'[k].block = minBlock'
          BY <1>6, <3>3, <4>8, <5>3
        <5> QED
          BY <3>4, <4>6, <5>4 DEF LeastBlock
      <4> QED
        BY <2>4, <4>7, <4>8
    <3>7. hop' = hop + 1 /\ hop' \in Nat \ {0} /\ pc' = "routes"
      BY <1>2, <1>10
    <3>8. Len(legs') < hop'
      BY <1>2, <1>6, <1>7, <3>3, <3>7
    <3>9. hop' <= Len(config'.routes[at'].legs) + 1
      BY <1>1, <1>2, <1>3, <3>7
    <3>10. at' \in Nat \ {0}
      BY <1>1, <1>2
    <3>11. RouteOK'
      BY <2>5, <3>5, <3>6, <3>7, <3>8, <3>9, <3>10 DEF RouteOK
    <3> QED
      BY <1>1, <1>4, <3>11 DEF EvaluationOK
  <2> QED
    BY <2>6, <2>7
<1> QED
  BY <1>8, <1>9, <1>10 DEF EvaluateHop, Panic, route

LEMMA MovesKeep ==
    ASSUME CacheOK, EvaluationOK, Begin \/ FinishPools \/ Return
    PROVE  EvaluationOK'
<1> USE EngineAssumption
<1>1. UNCHANGED <<config, updates, route, out>> /\ Ids' = Ids
  BY IdsStay DEF Begin, FinishPools, Return, cache, route
<1>2. at' \in Nat \ {0} /\ touched' \subseteq Ids /\ pc' \in Phases
  BY DEF Begin, FinishPools, Return, EvaluationOK, RouteOK, Phases
<1>3. blockNum' \in Labels
  BY DEF Begin, FinishPools, Return, EvaluationOK, CacheOK, Labels
<1>4. LegsTyped' /\ OutSealed' /\ LeastBlock' = LeastBlock
  BY <1>1 DEF EvaluationOK, RouteOK, LegsTyped, OutSealed, LeastBlock, route
<1>5. pc' \in {"idle", "pools"} => hop' = 1 /\ legs' = <<>> /\ minBlock' = MaxU64
  BY <1>1 DEF Begin, FinishPools, Return, EvaluationOK, RouteOK, route
<1>6. pc' = "routes" /\ at' <= Len(config'.routes) => hop' <= Len(config'.routes[at'].legs) + 1
  <2>1. SUFFICES ASSUME pc' = "routes", at' <= Len(config'.routes)
                 PROVE  hop' <= Len(config'.routes[at'].legs) + 1
    OBVIOUS
  <2>2. hop = 1
    BY <2>1 DEF Begin, FinishPools, Return, EvaluationOK, RouteOK
  <2>3. Len(config.routes[at'].legs) \in Nat
    BY <1>1, <1>2, <2>1, RoutesAreSequences DEF CacheOK
  <2> QED
    BY <1>1, <2>2, <2>3 DEF route
<1>7. RouteOK'
  BY <1>1, <1>2, <1>4, <1>5, <1>6 DEF EvaluationOK, RouteOK, route
<1> QED
  BY <1>1, <1>2, <1>3, <1>4, <1>7 DEF EvaluationOK

-----------------------------------------------------------------------------
(* The theorems.                                                           *)

LEMMA EvaluationStep ==
    ASSUME CacheOK, EvaluationOK, [Next]_vars
    PROVE  EvaluationOK'
<1>1. CASE Others \/ Over \/ UNCHANGED vars
  BY <1>1, OthersKeep
<1>2. CASE Begin \/ FinishPools \/ Return
  BY <1>2, MovesKeep
<1>3. CASE EvaluatePool
  BY <1>3, PoolsKeep
<1>4. CASE EvaluateHop
  BY <1>4, HopsKeep
<1>5. CASE EvaluateRoute
  BY <1>5, RoutesKeep
<1> QED
  BY <1>1, <1>2, <1>3, <1>4, <1>5 DEF Next, Evaluation

LEMMA InvariantHolds == Spec => []IInv
<1>1. Init => IInv
  BY CacheInit, EvaluationInit DEF IInv
<1>2. IInv /\ [Next]_vars => IInv'
  BY CacheStep, EvaluationStep DEF IInv
<1> QED
  BY <1>1, <1>2, PTL DEF Spec

LEMMA SealedEvents ==
    ASSUME OutSealed
    PROVE  LabelIsOldestLeg
<1>1. PICK S : out \in Seq(S) /\ \A e \in S : Sealed(e)
  BY DEF OutSealed
<1>2. \A k \in DOMAIN out : out[k] \in S
  BY <1>1, LenProperties
<1> QED
  BY <1>1, <1>2 DEF Sealed, LabelIsOldestLeg

(* Types, and that a label is a block of the chain; no legs but those of the *)
(* turns taken for the route at hand are sized (engine.rs:240-262).          *)
THEOREM TypesHold == Spec => []TypeOK
<1>1. IInv => TypeOK
  <2>1. SUFFICES ASSUME IInv PROVE TypeOK
    OBVIOUS
  <2>2. PICK S : legs \in Seq(S) /\ \A l \in S : l.block \in Labels
    BY <2>1 DEF IInv, EvaluationOK, RouteOK, LegsTyped
  <2>3. \A k \in DOMAIN legs : legs[k].block \in Labels
    BY <2>2, LenProperties
  <2>4. PICK T : out \in Seq(T) /\ \A e \in T : Sealed(e)
    BY <2>1 DEF IInv, EvaluationOK, OutSealed
  <2>5. \A k \in DOMAIN out : out[k].pool_state_block \in Labels
    <3>1. \A k \in DOMAIN out : out[k] \in T
      BY <2>4, LenProperties
    <3> QED
      BY <2>4, <3>1 DEF Sealed
  <2> QED
    BY <2>1, <2>3, <2>5 DEF IInv, CacheOK, EvaluationOK, RouteOK, PoolState, Labels, TypeOK
<1> QED
  BY <1>1, InvariantHolds, PTL

(* Every event names the block of the oldest data it was computed from,    *)
(* for any configuration and any writers (engine.rs:240-277).              *)
THEOREM LabelsAreOldest == Spec => []LabelIsOldestLeg
<1>1. IInv => LabelIsOldestLeg
  BY SealedEvents DEF IInv, EvaluationOK
<1> QED
  BY <1>1, InvariantHolds, PTL

-----------------------------------------------------------------------------
(* What is printed is what an instant would have printed: the invariant.   *)

(* A turn of a route for the pool gives this leg, if it gives one. *)
HopLeg(id) == LegOf(FirstWith(id))
HopGives(id) == id \in Ids /\ HopLeg(id) # NoLeg
HopPanics(id) == id \in Ids /\ LegPanics(FirstWith(id))

(* The turns taken for the route, as far as their pools are untouched. *)
Gathered(r) ==
    \A j \in 1 .. hop - 1 : r.legs[j] \notin touched =>
        HopGives(r.legs[j]) /\ legs[j] = HopLeg(r.legs[j])

Incomplete(r) ==
    \E j \in 1 .. hop - 1 : r.legs[j] \notin touched => ~HopGives(r.legs[j])

Survived(r) == \A j \in 1 .. hop - 1 : r.legs[j] \notin touched => ~HopPanics(r.legs[j])

Collected ==
    pc = "routes" /\ at <= Len(config.routes) =>
        /\ Survived(config.routes[at])
        /\ IF Len(legs) + 1 = hop THEN Gathered(config.routes[at]) ELSE Incomplete(config.routes[at])

(* The targets that have had their turn. *)
Evaluated ==
    CASE pc = "idle" -> 0
      [] pc = "pools" -> at - 1
      [] pc = "routes" -> Len(config.pools) + at - 1
      [] OTHER -> Targets

AtInConfig ==
    /\ pc \in {"idle", "pools"} => at <= Len(config.pools) + 1
    /\ pc = "routes" => at <= Len(config.routes) + 1
    /\ pc = "idle" => at = 1 /\ out = <<>>

Matched == pc # "panicked" => Matching(Evaluated)

EInv == AtInConfig /\ Collected /\ Matched /\ PanicKeepsEarlier

-----------------------------------------------------------------------------
(* The pool that find gives is the first with the identifier.              *)

IsFirst(id, k) ==
    /\ k \in DOMAIN config.pools /\ config.pools[k].id = id
    /\ \A m \in 1 .. k - 1 : config.pools[m].id # id

LEMMA FirstIsOne ==
    ASSUME config \in Configs, NEW id, NEW j, NEW k, IsFirst(id, j), IsFirst(id, k)
    PROVE  j = k
<1>1. j \in Nat /\ k \in Nat /\ j >= 1 /\ k >= 1
  BY PoolsAreSequence DEF IsFirst
<1>2. ~(j < k)
  <2>1. SUFFICES ASSUME j < k PROVE FALSE
    OBVIOUS
  <2>2. j \in 1 .. k - 1
    BY <1>1, <2>1
  <2> QED
    BY <2>2 DEF IsFirst
<1>3. ~(k < j)
  <2>1. SUFFICES ASSUME k < j PROVE FALSE
    OBVIOUS
  <2>2. k \in 1 .. j - 1
    BY <1>1, <2>1
  <2> QED
    BY <2>2 DEF IsFirst
<1> QED
  BY <1>1, <1>2, <1>3

LEMMA FindIsFirst ==
    ASSUME config \in Configs, NEW id \in Ids
    PROVE  IsFirst(id, Find(id)) /\ Find(id) # 0
<1> DEFINE found == {k \in DOMAIN config.pools : config.pools[k].id = id}
<1>1. found # {} /\ found \in SUBSET Nat
  BY PoolsAreSequence DEF Ids
<1>2. \E k \in found : \A m \in found : k <= m
  BY <1>1, LeastIndex
<1>3. Find(id) = CHOOSE k \in found : \A m \in found : k <= m
  BY <1>1 DEF Find
<1>4. Find(id) \in found /\ \A m \in found : Find(id) <= m
  BY <1>2, <1>3
<1>5. Find(id) \in 1 .. Len(config.pools) /\ Len(config.pools) \in Nat
  BY <1>4, PoolsAreSequence
<1>6. ASSUME NEW m \in 1 .. Find(id) - 1 PROVE config.pools[m].id # id
  <2>1. m \in 1 .. Len(config.pools) /\ ~(Find(id) <= m)
    BY <1>5
  <2>2. m \in DOMAIN config.pools /\ m \notin found
    BY <1>4, <2>1, PoolsAreSequence
  <2> QED
    BY <2>2
<1> QED
  BY <1>4, <1>5, <1>6 DEF IsFirst

LEMMA FirstWithIsFound ==
    ASSUME config \in Configs, NEW id \in Ids
    PROVE  FirstWith(id) = config.pools[Find(id)] /\ FirstWith(id).id = id
<1> DEFINE first == CHOOSE k \in DOMAIN config.pools :
                       /\ config.pools[k].id = id
                       /\ \A m \in 1 .. k - 1 : config.pools[m].id # id
<1>1. IsFirst(id, Find(id))
  BY FindIsFirst
<1>2. IsFirst(id, first)
  BY <1>1 DEF IsFirst
<1>3. first = Find(id)
  BY <1>1, <1>2, FirstIsOne
<1>4. FirstWith(id) = config.pools[first]
  BY DEF FirstWith
<1> HIDE DEF first
<1> QED
  BY <1>1, <1>3, <1>4 DEF IsFirst

LEMMA NotFound ==
    ASSUME NEW id, id \notin Ids
    PROVE  Find(id) = 0
BY DEF Find, Ids

-----------------------------------------------------------------------------
(* What an instant would print of a target does not change while its pools *)
(* are left alone.                                                         *)

LEMMA HopStays ==
    ASSUME config \in Configs, NEW id, config' = config, id \in Ids => states'[id] = states[id]
    PROVE  /\ HopGives(id)' = HopGives(id) /\ HopPanics(id)' = HopPanics(id)
           /\ id \in Ids => HopLeg(id)' = HopLeg(id)
<1>1. Ids' = Ids
  BY IdsStay
<1>2. CASE id \in Ids
  <2>1. FirstWith(id)' = FirstWith(id)
    BY DEF FirstWith
  <2>2. FirstWith(id).id = id
    BY <1>2, FirstWithIsFound
  <2>3. LegPanics(FirstWith(id))' = LegPanics(FirstWith(id))
    BY <1>2, <2>1, <2>2 DEF LegPanics
  <2>4. LegOf(FirstWith(id))' = LegOf(FirstWith(id))
    BY <1>2, <2>1, <2>2, <2>3 DEF LegOf
  <2> QED
    BY <1>1, <2>3, <2>4 DEF HopGives, HopLeg, HopPanics
<1>3. CASE id \notin Ids
  BY <1>1, <1>3 DEF HopGives, HopPanics
<1> QED
  BY <1>2, <1>3

Usable(r) == Len(r.legs) >= 2 /\ \A j \in DOMAIN r.legs : HopGives(r.legs[j])
ChainOf(r) == [j \in DOMAIN r.legs |-> HopLeg(r.legs[j])]

SomeHopPanics(r) == \E j \in DOMAIN r.legs : HopPanics(r.legs[j])

RoutesMean ==
    \A r : RoutePromise(r) =
              IF SomeHopPanics(r) THEN Promise(r.id, <<>>, Panicked)
              ELSE IF Usable(r) THEN Promise(r.id, ChainOf(r), RouteProfit(ChainOf(r)))
              ELSE Promise(r.id, <<>>, Failed)

LEMMA RouteMeans == RoutesMean
<1>1. SUFFICES ASSUME NEW r
               PROVE  RoutePromise(r) =
                        IF SomeHopPanics(r) THEN Promise(r.id, <<>>, Panicked)
                        ELSE IF Usable(r) THEN Promise(r.id, ChainOf(r), RouteProfit(ChainOf(r)))
                        ELSE Promise(r.id, <<>>, Failed)
  BY DEF RoutesMean
<1> DEFINE hops == {r.legs[j] : j \in DOMAIN r.legs}
<1>2. Usable(r) <=> /\ Len(r.legs) >= 2 /\ hops \subseteq Ids
                    /\ \A id \in hops : LegOf(FirstWith(id)) # NoLeg
  BY DEF Usable, HopGives, HopLeg
<1>3. SomeHopPanics(r) <=> \E id \in hops \cap Ids : LegPanics(FirstWith(id))
  BY DEF SomeHopPanics, HopPanics
<1> QED
  BY <1>2, <1>3 DEF RoutePromise, ChainOf, HopLeg

AllTargets ==
    /\ \A c : PoolPromise(c).target = c.id
    /\ \A r : RoutePromise(r).target = r.id

LEMMA PromiseTargets == AllTargets
<1>1. \A c : PoolPromise(c).target = c.id
  BY DEF PoolPromise, Promise
<1>2. \A r : RoutePromise(r).target = r.id
  BY RouteMeans DEF RoutesMean, Promise
<1> QED
  BY <1>1, <1>2 DEF AllTargets

-----------------------------------------------------------------------------
(* The target of a promise is a pool's or a route's, and its pools are those *)
(* it needs.                                                                 *)

LEMMA TargetsCounted ==
    ASSUME config \in Configs, NEW k \in 1 .. Targets, ~(k <= Len(config.pools))
    PROVE  k - Len(config.pools) \in DOMAIN config.routes
<1>1. /\ Len(config.pools) \in Nat
      /\ Len(config.routes) \in Nat /\ DOMAIN config.routes = 1 .. Len(config.routes)
  BY EngineAssumption, LenProperties
<1>2. k \in 1 .. Len(config.pools) + Len(config.routes)
  BY DEF Targets
<1>3. k - Len(config.pools) \in 1 .. Len(config.routes)
  <2>1. \A p, r \in Nat : \A x \in 1 .. p + r : ~(x <= p) => x - p \in 1 .. r
    OBVIOUS
  <2> QED
    BY <1>1, <1>2, <2>1
<1> QED
  BY <1>1, <1>3

LEMMA NeedsPool ==
    ASSUME NEW k \in DOMAIN config.pools
    PROVE  config.pools[k].id \in Needs(config.pools[k].id) \cap Ids
BY DEF Needs, Ids

LEMMA NeedsLegs ==
    ASSUME NEW k \in DOMAIN config.routes, NEW j \in DOMAIN config.routes[k].legs
    PROVE  config.routes[k].legs[j] \in Needs(config.routes[k].id)
<1>1. config.routes[k].legs[j] \in Range(config.routes[k].legs)
  BY DEF Range
<1>2. k \in {m \in DOMAIN config.routes : config.routes[m].id = config.routes[k].id}
  OBVIOUS
<1> QED
  BY <1>1, <1>2 DEF Needs

(* The states of the pools that a target needs. *)
LeftAlone(target) == \A id \in Ids : id \in Needs(target) => states'[id] = states[id]

LEMMA PoolPromiseStays ==
    ASSUME NEW k \in DOMAIN config.pools, config' = config, LeftAlone(config.pools[k].id)
    PROVE  PoolPromise(config.pools[k])' = PoolPromise(config.pools[k])
<1>1. states'[config.pools[k].id] = states[config.pools[k].id]
  BY NeedsPool DEF LeftAlone
<1>2. /\ LegPanics(config.pools[k])' = LegPanics(config.pools[k])
      /\ LegOf(config.pools[k])' = LegOf(config.pools[k])
  BY <1>1 DEF LegOf, LegPanics
<1> QED
  BY <1>2 DEF PoolPromise, Promise

LEMMA RoutePromiseStays ==
    ASSUME config \in Configs, NEW k \in DOMAIN config.routes, config' = config,
           LeftAlone(config.routes[k].id)
    PROVE  RoutePromise(config.routes[k])' = RoutePromise(config.routes[k])
<1> DEFINE r == config.routes[k]
<1>1. \A j \in DOMAIN r.legs : r.legs[j] \in Ids => states'[r.legs[j]] = states[r.legs[j]]
  BY NeedsLegs DEF LeftAlone
<1>2. \A j \in DOMAIN r.legs : /\ HopGives(r.legs[j])' = HopGives(r.legs[j])
                               /\ HopPanics(r.legs[j])' = HopPanics(r.legs[j])
                               /\ r.legs[j] \in Ids => HopLeg(r.legs[j])' = HopLeg(r.legs[j])
  <2>1. SUFFICES ASSUME NEW j \in DOMAIN r.legs
                 PROVE  /\ HopGives(r.legs[j])' = HopGives(r.legs[j])
                        /\ HopPanics(r.legs[j])' = HopPanics(r.legs[j])
                        /\ r.legs[j] \in Ids => HopLeg(r.legs[j])' = HopLeg(r.legs[j])
    OBVIOUS
  <2>2. r.legs[j] \in Ids => states'[r.legs[j]] = states[r.legs[j]]
    BY <1>1
  <2>3. \A id : (id \in Ids => states'[id] = states[id]) =>
                  /\ HopGives(id)' = HopGives(id) /\ HopPanics(id)' = HopPanics(id)
                  /\ id \in Ids => HopLeg(id)' = HopLeg(id)
    BY HopStays
  <2>4. \A id : (id = r.legs[j]) => (id \in Ids => states'[id] = states[id])
    BY <2>2
  <2> QED
    BY <2>3, <2>4
<1>3. Usable(r)' = Usable(r) /\ SomeHopPanics(r)' = SomeHopPanics(r)
  BY <1>2 DEF Usable, SomeHopPanics
<1>4. Usable(r) => ChainOf(r)' = ChainOf(r)
  BY <1>2 DEF Usable, ChainOf, HopGives
<1>5. RoutesMean /\ RoutesMean'
  BY RouteMeans, PTL
<1>6. CASE Usable(r)
  BY <1>3, <1>4, <1>5, <1>6 DEF RoutesMean, Promise
<1>7. CASE ~Usable(r)
  BY <1>3, <1>5, <1>7 DEF RoutesMean, Promise
<1> QED
  BY <1>6, <1>7

LEMMA PromiseStays ==
    ASSUME config \in Configs, NEW k \in 1 .. Targets, config' = config
    PROVE  /\ PromiseOf(k).target' = PromiseOf(k).target
           /\ LeftAlone(PromiseOf(k).target) => PromiseOf(k)' = PromiseOf(k)
<1> DEFINE n == k - Len(config.pools)
<1>1. /\ PromiseOf(k)' = IF k <= Len(config.pools) THEN PoolPromise(config.pools[k])'
                         ELSE RoutePromise(config.routes[n])'
      /\ PromiseOf(k) = IF k <= Len(config.pools) THEN PoolPromise(config.pools[k])
                        ELSE RoutePromise(config.routes[n])
  BY DEF PromiseOf
<1>2. AllTargets /\ AllTargets'
  BY PromiseTargets, PTL
<1>3. CASE k <= Len(config.pools)
  <2>1. k \in DOMAIN config.pools
    BY <1>3, PoolsAreSequence
  <2>2. LeftAlone(config.pools[k].id) => PoolPromise(config.pools[k])' = PoolPromise(config.pools[k])
    BY <2>1, PoolPromiseStays
  <2>3. /\ PoolPromise(config.pools[k])'.target = config.pools[k].id
        /\ PoolPromise(config.pools[k]).target = config.pools[k].id
    BY <1>2 DEF AllTargets
  <2> QED
    BY <1>1, <1>3, <2>2, <2>3
<1>4. CASE ~(k <= Len(config.pools))
  <2>1. n \in DOMAIN config.routes
    BY <1>4, TargetsCounted
  <2>2. LeftAlone(config.routes[n].id) => RoutePromise(config.routes[n])' = RoutePromise(config.routes[n])
    BY <2>1, RoutePromiseStays
  <2>3. /\ RoutePromise(config.routes[n])'.target = config.routes[n].id
        /\ RoutePromise(config.routes[n]).target = config.routes[n].id
    BY <1>2 DEF AllTargets
  <2> QED
    BY <1>1, <1>4, <2>2, <2>3
<1> QED
  BY <1>3, <1>4

-----------------------------------------------------------------------------
(* Matching, carried from a state to the next.                             *)

(* The event is right for the target, if the target is to be held to it. *)
Right(e, k) ==
    /\ e.target = PromiseOf(k).target
    /\ Undisturbed(e.target) => Keeps(e, PromiseOf(k))

Owed(k) == PromiseOf(k).due /\ Undisturbed(PromiseOf(k).target)

Placed(place, o, n) ==
    /\ place \in [DOMAIN o -> 1 .. n]
    /\ \A j, m \in DOMAIN o : j < m => place[j] < place[m]

MatchingForm ==
    \A n : Matching(n) <=>
        \E place : /\ Placed(place, out, n)
                   /\ \A j \in DOMAIN out : Right(out[j], place[j])
                   /\ \A k \in 1 .. n : Owed(k) => \E j \in DOMAIN out : place[j] = k

LEMMA MatchingIs == MatchingForm
BY DEF MatchingForm, Matching, Placed, Right, Owed

LEMMA TargetsNat ==
    ASSUME config \in Configs
    PROVE  Targets \in Nat
<1>1. Len(config.pools) \in Nat
  BY EngineAssumption, LenProperties
<1>2. Len(config.routes) \in Nat
  BY EngineAssumption, LenProperties
<1>3. \A p, r \in Nat : p + r \in Nat
  OBVIOUS
<1>4. Targets = Len(config.pools) + Len(config.routes)
  BY DEF Targets
<1> QED
  BY <1>1, <1>2, <1>3, <1>4

(* What is asked of the targets: no more is asked in the next state. *)
Eases(n) ==
    \A k \in 1 .. n : /\ \A e : Right(e, k) => Right(e, k)'
                      /\ Owed(k)' => Owed(k)

LEMMA NeedsStay ==
    ASSUME config' = config
    PROVE  /\ Targets' = Targets
           /\ \A t : Needs(t)' = Needs(t)
BY DEF Targets, Needs, Ids

LEMMA WritersEase ==
    ASSUME config \in Configs, config' = config, NEW n \in Nat, n <= Targets,
           touched \subseteq touched', \A id \in Ids : id \notin touched' => states'[id] = states[id]
    PROVE  Eases(n)
<1>1. \A t : Undisturbed(t)' => Undisturbed(t) /\ LeftAlone(t)
  <2>1. SUFFICES ASSUME NEW t, Undisturbed(t)' PROVE Undisturbed(t) /\ LeftAlone(t)
    OBVIOUS
  <2>2. Needs(t)' = Needs(t)
    BY NeedsStay
  <2>3. Needs(t) \cap touched' = {}
    BY <2>1, <2>2 DEF Undisturbed
  <2> QED
    BY <2>3 DEF Undisturbed, LeftAlone
<1>2. SUFFICES ASSUME NEW k \in 1 .. n
               PROVE  /\ \A e : Right(e, k) => Right(e, k)'
                      /\ Owed(k)' => Owed(k)
  BY DEF Eases
<1>3. k \in 1 .. Targets
  <2>1. Targets \in Nat
    BY TargetsNat
  <2> QED
    BY <2>1
<1>4. /\ PromiseOf(k)'.target = PromiseOf(k).target
      /\ LeftAlone(PromiseOf(k).target) => PromiseOf(k)' = PromiseOf(k)
  BY <1>3, PromiseStays
<1>5. ASSUME NEW e, Right(e, k) PROVE Right(e, k)'
  <2>1. e.target = PromiseOf(k).target
    BY <1>5 DEF Right
  <2>2. ASSUME Undisturbed(e.target)' PROVE Keeps(e, PromiseOf(k))'
    <3>1. Undisturbed(e.target) /\ LeftAlone(e.target)
      BY <1>1, <2>2
    <3>2. Keeps(e, PromiseOf(k)) /\ PromiseOf(k)' = PromiseOf(k)
      BY <1>4, <1>5, <2>1, <3>1 DEF Right
    <3> QED
      BY <3>2 DEF Keeps
  <2> QED
    BY <1>4, <2>1, <2>2 DEF Right
<1>6. ASSUME Owed(k)' PROVE Owed(k)
  <2>1. PromiseOf(k)'.due /\ Undisturbed(PromiseOf(k).target)'
    BY <1>6 DEF Owed
  <2>2. Undisturbed(PromiseOf(k).target) /\ LeftAlone(PromiseOf(k).target)
    BY <1>1, <1>4, <2>1 DEF Undisturbed
  <2> QED
    BY <1>4, <2>1, <2>2 DEF Owed
<1> QED
  BY <1>5, <1>6

LEMMA MatchingStays ==
    ASSUME NEW n \in Nat, Eases(n), out' = out, Matching(n)
    PROVE  Matching(n)'
<1>1. PICK place : /\ Placed(place, out, n)
                   /\ \A j \in DOMAIN out : Right(out[j], place[j])
                   /\ \A k \in 1 .. n : Owed(k) => \E j \in DOMAIN out : place[j] = k
  BY MatchingIs DEF MatchingForm
<1>2. \A j \in DOMAIN out : place[j] \in 1 .. n
  BY <1>1 DEF Placed
<1>3. \A j \in DOMAIN out : Right(out[j], place[j])'
  BY <1>1, <1>2 DEF Eases
<1>4. \A k \in 1 .. n : Owed(k)' => \E j \in DOMAIN out' : place[j] = k
  BY <1>1 DEF Eases
<1>5. Placed(place, out', n)
  BY <1>1
<1>6. MatchingForm'
  BY MatchingIs, PTL
<1> QED
  BY <1>3, <1>4, <1>5, <1>6 DEF MatchingForm

(* Nothing is printed for the next target, and nothing is owed to it. *)
LEMMA MatchingSkips ==
    ASSUME NEW n \in Nat, Matching(n), ~Owed(n + 1)
    PROVE  Matching(n + 1)
<1>1. PICK place : /\ Placed(place, out, n)
                   /\ \A j \in DOMAIN out : Right(out[j], place[j])
                   /\ \A k \in 1 .. n : Owed(k) => \E j \in DOMAIN out : place[j] = k
  BY MatchingIs DEF MatchingForm
<1>2. 1 .. n \subseteq 1 .. n + 1 /\ \A k \in 1 .. n + 1 : k \in 1 .. n \/ k = n + 1
  OBVIOUS
<1>3. Placed(place, out, n + 1)
  BY <1>1, <1>2 DEF Placed
<1>4. \A k \in 1 .. n + 1 : Owed(k) => \E j \in DOMAIN out : place[j] = k
  BY <1>1, <1>2
<1> QED
  BY <1>1, <1>3, <1>4, MatchingIs DEF MatchingForm

LEMMA MatchingNothing == out = <<>> => Matching(0)
<1> SUFFICES ASSUME out = <<>> PROVE Matching(0)
  OBVIOUS
<1>1. DOMAIN out = {} /\ 1 .. 0 = {}
  OBVIOUS
<1>2. Placed(<<>>, out, 0)
  <2>1. <<>> \in [DOMAIN out -> 1 .. 0]
    BY <1>1
  <2> QED
    BY <1>1, <2>1 DEF Placed
<1> QED
  BY <1>1, <1>2, MatchingIs DEF MatchingForm

(* An event is printed for the next target. *)
LEMMA MatchingEmits ==
    ASSUME NEW n \in Nat, NEW S, out \in Seq(S), Eases(n), Matching(n),
           NEW e, out' = Append(out, e), Right(e, n + 1)'
    PROVE  Matching(n + 1)'
<1>1. PICK place : /\ Placed(place, out, n)
                   /\ \A j \in DOMAIN out : Right(out[j], place[j])
                   /\ \A k \in 1 .. n : Owed(k) => \E j \in DOMAIN out : place[j] = k
  BY MatchingIs DEF MatchingForm
<1>0. PICK L : L = Len(out)
  OBVIOUS
<1>2. L \in Nat /\ DOMAIN out = 1 .. L
  BY <1>0, LenProperties
<1> DEFINE later == [j \in 1 .. L + 1 |-> IF j \in 1 .. L THEN place[j] ELSE n + 1]
<1>2a. PICK after : after = later
  OBVIOUS
<1>3. DOMAIN out' = 1 .. L + 1 /\ out'[L + 1] = e /\ \A j \in 1 .. L : out'[j] = out[j]
  <2>1. out' \in Seq(S \cup {e})
    BY AppendGrows
  <2>2. out \in Seq(S \cup {e}) /\ e \in S \cup {e}
    OBVIOUS
  <2> QED
    BY <1>0, <1>2, <2>2, AppendProperties
<1>4. place \in [1 .. L -> 1 .. n] /\ \A j, m \in 1 .. L : j < m => place[j] < place[m]
  BY <1>1, <1>2 DEF Placed
<1>5. \A j \in 1 .. L : after[j] = place[j] /\ place[j] \in 1 .. n /\ j \in 1 .. L + 1
  BY <1>2, <1>4, <1>2a
<1>6. after[L + 1] = n + 1 /\ L + 1 \in 1 .. L + 1
  BY <1>2, <1>2a
<1>7. \A j \in 1 .. L + 1 : j \in 1 .. L \/ j = L + 1
  BY <1>2
<1>8. after \in [1 .. L + 1 -> 1 .. n + 1]
  <2>1. \A j \in 1 .. L + 1 : after[j] \in 1 .. n + 1
    <3>1. \A x \in 1 .. n : x \in 1 .. n + 1
      OBVIOUS
    <3>2. n + 1 \in 1 .. n + 1
      OBVIOUS
    <3> QED
      BY <1>5, <1>6, <1>7, <3>1, <3>2
  <2> QED
    BY <2>1, <1>2a
<1> HIDE DEF later
<1>10. \A j, m \in 1 .. L + 1 : j < m => after[j] < after[m]
  <2>1. SUFFICES ASSUME NEW j \in 1 .. L + 1, NEW m \in 1 .. L + 1, j < m
                 PROVE  after[j] < after[m]
    OBVIOUS
  <2>2. j \in 1 .. L
    BY <1>2, <2>1
  <2>3. CASE m \in 1 .. L
    BY <1>4, <1>5, <2>1, <2>2, <2>3
  <2>4. CASE m = L + 1
    <3>1. after[m] = n + 1 /\ after[j] \in 1 .. n
      BY <1>5, <1>6, <2>2, <2>4
    <3> QED
      BY <3>1
  <2> QED
    BY <1>7, <2>3, <2>4
<1>11. Placed(after, out', n + 1)
  BY <1>3, <1>8, <1>10 DEF Placed
<1>12. \A j \in DOMAIN out' : Right(out[j], after[j])'
  <2>1. SUFFICES ASSUME NEW j \in 1 .. L + 1 PROVE Right(out[j], after[j])'
    BY <1>3
  <2>2. CASE j \in 1 .. L
    <3>1. Right(out[j], place[j])
      BY <1>1, <1>2, <2>2
    <3>2. place[j] \in 1 .. n /\ after[j] = place[j] /\ out'[j] = out[j]
      BY <1>3, <1>5, <2>2
    <3>3. \A x : Right(x, place[j]) => Right(x, place[j])'
      BY <3>2 DEF Eases
    <3> QED
      BY <3>1, <3>2, <3>3
  <2>3. CASE j = L + 1
    BY <1>3, <1>6, <2>3
  <2> QED
    BY <1>7, <2>2, <2>3
<1>13. \A k \in 1 .. n + 1 : Owed(k)' => \E j \in DOMAIN out' : after[j] = k
  <2>1. SUFFICES ASSUME NEW k \in 1 .. n + 1, Owed(k)'
                 PROVE  \E j \in 1 .. L + 1 : after[j] = k
    BY <1>3
  <2>2. CASE k \in 1 .. n
    <3>1. PICK j \in 1 .. L : place[j] = k
      BY <1>1, <1>2, <2>1, <2>2 DEF Eases
    <3> QED
      BY <1>5, <3>1
  <2>3. CASE k = n + 1
    BY <1>6, <2>3
  <2> QED
    BY <2>2, <2>3
<1>14. MatchingForm'
  BY MatchingIs, PTL
<1> QED
  BY <1>11, <1>12, <1>13, <1>14 DEF MatchingForm

-----------------------------------------------------------------------------
(* What a turn prints, and what it owes.                                   *)

LEMMA PromiseFields ==
    ASSUME NEW t, NEW chain, NEW profit, NEW p, p = Promise(t, chain, profit)
    PROVE  /\ p.due <=> Pays(profit) \/ profit = Panicked
           /\ p.profit = profit /\ p.target = t
           /\ p.from = [j \in DOMAIN chain |-> chain[j].block]
<1>1. p.due = (profit = Panicked \/ (profit # Failed /\ profit >= config.min_profit))
  BY DEF Promise
<1> QED
  BY <1>1 DEF Promise, Pays

LEMMA FailedOwesNothing ==
    ASSUME NEW t, NEW p, p = Promise(t, <<>>, Failed)
    PROVE  ~p.due
<1>1. Failed # Panicked
  BY DEF Failed, Panicked
<1> QED
  BY <1>1, PromiseFields DEF Pays

LEMMA PoolOwes ==
    ASSUME config \in Configs, NEW k \in DOMAIN config.pools
    PROVE  /\ k \in 1 .. Targets
           /\ PromiseOf(k) = PoolPromise(config.pools[k])
           /\ PromiseOf(k).target = config.pools[k].id
<1>1. Len(config.pools) \in Nat /\ k \in 1 .. Len(config.pools)
  BY PoolsAreSequence
<1>2. Len(config.routes) \in Nat /\ Targets = Len(config.pools) + Len(config.routes)
  BY EngineAssumption, LenProperties DEF Targets
<1>3. k <= Len(config.pools) /\ k \in 1 .. Targets
  <2>1. \A p, r \in Nat : \A x \in 1 .. p : x <= p /\ x \in 1 .. p + r
    OBVIOUS
  <2> QED
    BY <1>1, <1>2, <2>1
<1>4. PromiseOf(k) = PoolPromise(config.pools[k])
  BY <1>3 DEF PromiseOf
<1> QED
  BY <1>3, <1>4, PromiseTargets DEF AllTargets

LEMMA RouteOwes ==
    ASSUME config \in Configs, NEW k \in DOMAIN config.routes
    PROVE  /\ Len(config.pools) + k \in 1 .. Targets
           /\ PromiseOf(Len(config.pools) + k) = RoutePromise(config.routes[k])
           /\ PromiseOf(Len(config.pools) + k).target = config.routes[k].id
<1>1. Len(config.pools) \in Nat
  BY PoolsAreSequence
<1>2. Len(config.routes) \in Nat /\ Targets = Len(config.pools) + Len(config.routes)
      /\ k \in 1 .. Len(config.routes)
  BY EngineAssumption, LenProperties DEF Targets
<1>3. /\ ~(Len(config.pools) + k <= Len(config.pools))
      /\ Len(config.pools) + k \in 1 .. Targets
      /\ Len(config.pools) + k - Len(config.pools) = k
  <2>1. \A p, r \in Nat : \A x \in 1 .. r : ~(p + x <= p) /\ p + x \in 1 .. p + r /\ p + x - p = x
    OBVIOUS
  <2> QED
    BY <1>1, <1>2, <2>1
<1>4. PromiseOf(Len(config.pools) + k) = RoutePromise(config.routes[k])
  <2>0. PICK n : n = Len(config.pools) + k
    OBVIOUS
  <2>1. ~(n <= Len(config.pools)) /\ n - Len(config.pools) = k
    BY <1>1, <1>2, <2>0
  <2>2. PromiseOf(n) = RoutePromise(config.routes[n - Len(config.pools)])
    BY <2>1 DEF PromiseOf
  <2>3. PromiseOf(n) = RoutePromise(config.routes[k])
    BY <2>1, <2>2
  <2> QED
    BY <2>0, <2>3
<1> QED
  BY <1>3, <1>4, PromiseTargets DEF AllTargets

(* What a turn of the loop over the pools does with the pool it reads. *)
LEMMA PoolOutcome ==
    ASSUME config \in Configs, NEW k \in DOMAIN config.pools, NEW c, c = config.pools[k],
           NEW s, s = states[c.id], s = NoState \/ ~BuildPanics(c, s),
           NEW leg, leg = BuildLeg(c, s), s = NoState \/ leg = NoLeg \/ PoolProfit(leg) # Panicked
    PROVE  /\ s = NoState \/ leg = NoLeg \/ ~Pays(PoolProfit(leg)) => ~Owed(k)
           /\ s # NoState /\ leg # NoLeg /\ Pays(PoolProfit(leg)) =>
                Right(Event(c.id, PoolProfit(leg), <<s.block>>, s.block), k)
<1>1. PromiseOf(k) = PoolPromise(c) /\ PromiseOf(k).target = c.id
  BY PoolOwes
<1>0. ~LegPanics(c)
  BY DEF LegPanics
<1>2. CASE s = NoState \/ leg = NoLeg
  <2>1. LegOf(c) = NoLeg
    BY <1>0, <1>2 DEF LegOf
  <2>2. ~PromiseOf(k).due
    BY <1>0, <1>1, <2>1, FailedOwesNothing DEF PoolPromise
  <2> QED
    BY <1>2, <2>2 DEF Owed
<1>3. CASE s # NoState /\ leg # NoLeg
  <2>1. LegOf(c) = leg
    BY <1>0, <1>3 DEF LegOf
  <2>2. PromiseOf(k) = Promise(c.id, <<leg>>, PoolProfit(leg))
    BY <1>0, <1>1, <1>3, <2>1 DEF PoolPromise
  <2>3. PromiseOf(k).due <=> Pays(PoolProfit(leg))
    <3>1. PICK p, chain : p = PromiseOf(k) /\ chain = <<leg>>
      OBVIOUS
    <3>2. p = Promise(c.id, chain, PoolProfit(leg))
      BY <2>2, <3>1
    <3> HIDE <3>1
    <3>3. p.due <=> Pays(PoolProfit(leg)) \/ PoolProfit(leg) = Panicked
      BY <3>2, PromiseFields
    <3> QED
      BY <1>3, <3>1, <3>3
  <2>4. leg.block = s.block
    BY <1>3, LegBlock
  <2>5. PromiseOf(k).profit = PoolProfit(leg) /\ PromiseOf(k).from = <<s.block>>
    <3>1. PromiseOf(k).from = [j \in DOMAIN <<leg>> |-> <<leg>>[j].block]
      BY <2>2 DEF Promise
    <3>2. [j \in DOMAIN <<leg>> |-> <<leg>>[j].block] = <<leg.block>>
      OBVIOUS
    <3> QED
      BY <2>2, <2>4, <3>1, <3>2 DEF Promise
  <2>6. Pays(PoolProfit(leg)) => Right(Event(c.id, PoolProfit(leg), <<s.block>>, s.block), k)
    BY <1>1, <2>3, <2>5 DEF Right, Keeps, Event
  <2> QED
    BY <1>3, <2>3, <2>6 DEF Owed
<1> QED
  BY <1>2, <1>3

LEMMA PoolPanics ==
    ASSUME config \in Configs, NEW k \in DOMAIN config.pools, NEW c, c = config.pools[k],
           NEW s, s = states[c.id], s # NoState, NEW leg, leg = BuildLeg(c, s),
           BuildPanics(c, s) \/ (leg # NoLeg /\ PoolProfit(leg) = Panicked)
    PROVE  PromiseOf(k).profit = Panicked
<1>1. PromiseOf(k) = PoolPromise(c)
  BY PoolOwes
<1>2. CASE BuildPanics(c, s)
  <2>1. LegPanics(c)
    BY <1>2 DEF LegPanics
  <2> QED
    BY <1>1, <2>1 DEF PoolPromise, Promise
<1>3. CASE ~BuildPanics(c, s)
  <2>1. ~LegPanics(c)
    BY <1>3 DEF LegPanics
  <2>2. LegOf(c) = leg
    BY <2>1 DEF LegOf
  <2> QED
    BY <1>1, <1>3, <2>1, <2>2 DEF PoolPromise, Promise
<1> QED
  BY <1>2, <1>3

(* What the end of a route's turn does with the legs it has. *)
LEMMA RouteOutcome ==
    ASSUME config \in Configs, NEW k \in DOMAIN config.routes, NEW r, r = config.routes[k],
           Len(r.legs) \in Nat, DOMAIN r.legs = 1 .. Len(r.legs),
           NEW S, legs \in Seq(S), hop = Len(r.legs) + 1,
           IF Len(legs) + 1 = hop THEN Gathered(r) ELSE Incomplete(r), Survived(r), NEW label
    PROVE  /\ Whole(r) /\ RouteProfit(legs) = Panicked /\ Undisturbed(r.id) =>
                PromiseOf(Len(config.pools) + k).profit = Panicked
           /\ ~(Whole(r) /\ (Pays(RouteProfit(legs)) \/ RouteProfit(legs) = Panicked)) =>
                ~Owed(Len(config.pools) + k)
           /\ Whole(r) /\ Pays(RouteProfit(legs)) =>
                Right(Event(r.id, RouteProfit(legs), [j \in DOMAIN legs |-> legs[j].block], label),
                      Len(config.pools) + k)
<1> DEFINE n == Len(config.pools) + k
<1>1. PromiseOf(n) = RoutePromise(r) /\ PromiseOf(n).target = r.id
  BY RouteOwes
<1> HIDE DEF n
<1>2. Len(legs) \in Nat /\ DOMAIN legs = 1 .. Len(legs)
  BY LenProperties
<1>3. hop - 1 = Len(r.legs)
  OBVIOUS
<1>4. ASSUME Undisturbed(r.id) PROVE \A j \in 1 .. hop - 1 : r.legs[j] \notin touched
  <2>1. \A j \in DOMAIN r.legs : r.legs[j] \in Needs(r.id)
    BY NeedsLegs
  <2> QED
    BY <1>3, <1>4, <2>1 DEF Undisturbed
<1>4a. ASSUME Undisturbed(r.id) PROVE ~SomeHopPanics(r)
  BY <1>3, <1>4, <1>4a DEF Survived, SomeHopPanics
<1>5. ASSUME Undisturbed(r.id), Whole(r)
      PROVE  Usable(r) /\ ChainOf(r) = legs
  <2>1. Len(legs) + 1 = hop /\ Len(legs) = Len(r.legs) /\ Len(r.legs) >= 2
    BY <1>5 DEF Whole
  <2>2. \A j \in 1 .. Len(r.legs) : HopGives(r.legs[j]) /\ legs[j] = HopLeg(r.legs[j])
    BY <1>3, <1>4, <1>5, <2>1 DEF Gathered
  <2>3. Usable(r)
    BY <2>1, <2>2 DEF Usable
  <2>4. legs = [j \in 1 .. Len(r.legs) |-> legs[j]]
    BY <1>2, <2>1
  <2>5. ChainOf(r) = [j \in 1 .. Len(r.legs) |-> legs[j]]
    BY <2>2 DEF ChainOf
  <2> QED
    BY <2>3, <2>4, <2>5
<1>6. ASSUME Undisturbed(r.id), ~Whole(r)
      PROVE  ~Usable(r)
  <2>1. CASE Len(legs) + 1 = hop
    BY <1>2, <1>3, <1>6, <2>1 DEF Whole, Usable
  <2>2. CASE Len(legs) + 1 # hop
    <3>1. Incomplete(r)
      BY <2>2
    <3> QED
      BY <1>3, <1>4, <1>6, <3>1 DEF Incomplete, Usable
  <2> QED
    BY <2>1, <2>2
<1>7. ASSUME Undisturbed(r.id), Whole(r)
      PROVE  PromiseOf(n) = Promise(r.id, legs, RouteProfit(legs))
  BY <1>1, <1>4a, <1>5, <1>7, RouteMeans DEF RoutesMean
<1>8. ASSUME Undisturbed(r.id), ~Whole(r)
      PROVE  ~PromiseOf(n).due
  BY <1>1, <1>4a, <1>6, <1>8, RouteMeans, FailedOwesNothing DEF RoutesMean
<1>9. ASSUME Undisturbed(r.id), Whole(r)
      PROVE  /\ PromiseOf(n).due <=> Pays(RouteProfit(legs)) \/ RouteProfit(legs) = Panicked
             /\ PromiseOf(n).profit = RouteProfit(legs)
             /\ PromiseOf(n).from = [j \in DOMAIN legs |-> legs[j].block]
  BY <1>7, <1>9, PromiseFields
<1>10. ~(Whole(r) /\ (Pays(RouteProfit(legs)) \/ RouteProfit(legs) = Panicked)) => ~Owed(n)
  BY <1>1, <1>8, <1>9 DEF Owed
<1>11. Whole(r) /\ Pays(RouteProfit(legs)) =>
         Right(Event(r.id, RouteProfit(legs), [j \in DOMAIN legs |-> legs[j].block], label), n)
  BY <1>1, <1>9 DEF Right, Keeps, Event
<1>12. Whole(r) /\ RouteProfit(legs) = Panicked /\ Undisturbed(r.id) =>
         PromiseOf(n).profit = Panicked
  BY <1>9
<1> QED
  BY <1>10, <1>11, <1>12 DEF n

(* A leg that cannot be built without a panic. *)
LEMMA RoutePanics ==
    ASSUME config \in Configs, NEW k \in DOMAIN config.routes, NEW r, r = config.routes[k],
           NEW j \in DOMAIN r.legs, HopPanics(r.legs[j])
    PROVE  PromiseOf(Len(config.pools) + k).profit = Panicked
<1>1. PICK n : n = Len(config.pools) + k
  OBVIOUS
<1>2. PromiseOf(n) = RoutePromise(r)
  BY <1>1, RouteOwes
<1>3. SomeHopPanics(r)
  BY DEF SomeHopPanics
<1>4. PromiseOf(n) = Promise(r.id, <<>>, Panicked)
  BY <1>2, <1>3, RouteMeans DEF RoutesMean
<1> QED
  BY <1>1, <1>4 DEF Promise

(* What a turn of the loop over a route's legs adds to the legs. *)
LEMMA HopOutcome ==
    ASSUME config \in Configs, NEW id
    PROVE  /\ Find(id) = 0 \/ (id \in Ids /\ states[id] = NoState) => ~HopGives(id) /\ ~HopPanics(id)
           /\ Find(id) # 0 => id \in Ids
           /\ Find(id) # 0 /\ states[id] # NoState =>
                (HopPanics(id) <=> BuildPanics(config.pools[Find(id)], states[id]))
           /\ Find(id) # 0 /\ states[id] # NoState /\ ~BuildPanics(config.pools[Find(id)], states[id]) =>
                /\ HopLeg(id) = BuildLeg(config.pools[Find(id)], states[id])
                /\ HopGives(id) <=> BuildLeg(config.pools[Find(id)], states[id]) # NoLeg
<1>1. Find(id) # 0 => id \in Ids
  BY FindFirst DEF Ids
<1>2. id \in Ids => Find(id) # 0 /\ FirstWith(id) = config.pools[Find(id)] /\ FirstWith(id).id = id
  BY FindIsFirst, FirstWithIsFound
<1>3. Find(id) = 0 \/ (id \in Ids /\ states[id] = NoState) => ~HopGives(id) /\ ~HopPanics(id)
  BY <1>1, <1>2 DEF HopGives, HopLeg, HopPanics, LegOf, LegPanics
<1>4. Find(id) # 0 /\ states[id] # NoState =>
         (HopPanics(id) <=> BuildPanics(config.pools[Find(id)], states[id]))
  BY <1>1, <1>2 DEF HopPanics, LegPanics
<1> QED
  BY <1>1, <1>2, <1>3, <1>4 DEF HopGives, HopLeg, HopPanics, LegOf

-----------------------------------------------------------------------------
(* Every step keeps the invariant of matching.                             *)

LEMMA ConfigSizes ==
    ASSUME config \in Configs
    PROVE  /\ Len(config.pools) \in Nat /\ DOMAIN config.pools = 1 .. Len(config.pools)
           /\ Len(config.routes) \in Nat /\ DOMAIN config.routes = 1 .. Len(config.routes)
           /\ Targets = Len(config.pools) + Len(config.routes)
<1>1. Len(config.routes) \in Nat /\ DOMAIN config.routes = 1 .. Len(config.routes)
  BY EngineAssumption, LenProperties
<1> QED
  BY <1>1, PoolsAreSequence DEF Targets

LEMMA LegsSizes ==
    ASSUME config \in Configs, NEW k \in DOMAIN config.routes
    PROVE  /\ Len(config.routes[k].legs) \in Nat
           /\ DOMAIN config.routes[k].legs = 1 .. Len(config.routes[k].legs)
BY EngineAssumption, LenProperties

LEMMA EvaluatedIn ==
    ASSUME IInv, AtInConfig
    PROVE  Evaluated \in 0 .. Targets
<1>1. config \in Configs /\ at \in Nat \ {0}
  BY DEF IInv, CacheOK, EvaluationOK, RouteOK
<1>2. /\ \A p, r \in Nat : \A x \in Nat \ {0} : x <= p + 1 => x - 1 \in 0 .. p + r
      /\ \A p, r \in Nat : \A x \in Nat \ {0} : x <= r + 1 => p + x - 1 \in 0 .. p + r
      /\ \A p, r \in Nat : p + r \in 0 .. p + r /\ 0 \in 0 .. p + r
  OBVIOUS
<1>3. Len(config.pools) \in Nat /\ Len(config.routes) \in Nat
      /\ Targets = Len(config.pools) + Len(config.routes)
  BY <1>1, ConfigSizes
<1>4. CASE pc = "idle"
  BY <1>2, <1>3, <1>4 DEF Evaluated
<1>5. CASE pc = "pools"
  BY <1>1, <1>2, <1>3, <1>5 DEF Evaluated, AtInConfig
<1>6. CASE pc = "routes"
  BY <1>1, <1>2, <1>3, <1>6 DEF Evaluated, AtInConfig
<1>7. CASE pc \notin {"idle", "pools", "routes"}
  BY <1>2, <1>3, <1>7 DEF Evaluated
<1> QED
  BY <1>4, <1>5, <1>6, <1>7

LEMMA GatheredEases ==
    ASSUME config \in Configs, UNCHANGED <<config, hop, legs>>, NEW r,
           touched \subseteq touched', \A id \in Ids : id \notin touched' => states'[id] = states[id]
    PROVE  /\ Gathered(r) => Gathered(r)'
           /\ Incomplete(r) => Incomplete(r)'
           /\ Survived(r) => Survived(r)'
<1>1. \A id : id \notin touched' =>
                /\ id \notin touched
                /\ HopGives(id)' = HopGives(id) /\ HopPanics(id)' = HopPanics(id)
                /\ id \in Ids => HopLeg(id)' = HopLeg(id)
  BY HopStays
<1>2. \A id : HopGives(id) => id \in Ids
  BY DEF HopGives
<1>3. Gathered(r) => Gathered(r)'
  BY <1>1, <1>2 DEF Gathered
<1>4. Incomplete(r) => Incomplete(r)'
  BY <1>1 DEF Incomplete
<1>5. Survived(r) => Survived(r)'
  BY <1>1 DEF Survived
<1> QED
  BY <1>3, <1>4, <1>5

(* A step of the evaluation other than its first leaves the cache alone. *)
LEMMA QuietEases ==
    ASSUME config \in Configs, UNCHANGED <<config, states, touched>>, NEW n \in Nat, n <= Targets
    PROVE  Eases(n)
<1>1. touched \subseteq touched' /\ \A id \in Ids : id \notin touched' => states'[id] = states[id]
  OBVIOUS
<1> QED
  BY <1>1, WritersEase

(* A panic in the turn of a target that panics. *)
LEMMA PanicMatches ==
    ASSUME config \in Configs, UNCHANGED <<config, states, touched, out>>,
           NEW n \in Nat, NEW k, k = n + 1, k \in 1 .. Targets, Matching(n),
           Undisturbed(PromiseOf(k).target) => PromiseOf(k).profit = Panicked
    PROVE  PanicKeepsEarlier'
<1>1. Targets \in Nat /\ Targets' = Targets /\ \A t : Needs(t)' = Needs(t)
  BY TargetsNat, NeedsStay
<1>2. n <= Targets /\ k - 1 = n
  BY <1>1
<1>3. Matching(n)'
  BY <1>2, QuietEases, MatchingStays
<1>4. PromiseOf(k)' = PromiseOf(k)
  BY PromiseStays DEF LeftAlone
<1>5. Undisturbed(PromiseOf(k).target)' = Undisturbed(PromiseOf(k).target)
  BY <1>1, <1>4 DEF Undisturbed
<1>6. Undisturbed(PromiseOf(k).target)' => PromiseOf(k)'.profit = Panicked
  BY <1>4, <1>5
<1> QED
  BY <1>1, <1>2, <1>3, <1>6 DEF PanicKeepsEarlier

LEMMA OthersMatch ==
    ASSUME IInv, EInv, (pc \notin {"done", "panicked"} /\ Others) \/ Over \/ UNCHANGED vars
    PROVE  EInv'
<1>1. config \in Configs
  BY DEF IInv, CacheOK
<1>2. UNCHANGED <<config, pc, at, hop, legs, out>>
  BY DEF Others, Mine, NewHead, Update, Over, vars, route
<1>3. touched \subseteq touched' /\ \A id \in Ids : id \notin touched' => states'[id] = states[id]
  <2>1. CASE UNCHANGED <<states, touched>>
    BY <2>1
  <2>2. ASSUME NEW id \in Ids, NEW s \in PoolStates, Update(id, s)
        PROVE  touched \subseteq touched' /\ \A i \in Ids : i \notin touched' => states'[i] = states[i]
    BY <2>2 DEF Update, IInv, CacheOK
  <2> QED
    BY <2>1, <2>2 DEF Others, Mine, NewHead, Over, vars, cache
<1>4. AtInConfig'
  BY <1>2 DEF EInv, AtInConfig
<1>5. Collected'
  BY <1>1, <1>2, <1>3, GatheredEases DEF EInv, Collected
<1>6. Matched'
  <2>1. Evaluated' = Evaluated
    BY <1>2, NeedsStay DEF Evaluated
  <2>2. Targets \in Nat
    BY <1>1, TargetsNat
  <2>3. PICK n : n = Evaluated
    OBVIOUS
  <2>4. n \in Nat /\ n <= Targets
    BY <2>2, <2>3, EvaluatedIn DEF EInv
  <2>5. Eases(n)
    BY <1>1, <1>2, <1>3, <2>4, WritersEase
  <2>6. Matching(n) => Matching(n)'
    BY <1>2, <2>4, <2>5, MatchingStays
  <2> QED
    BY <1>2, <2>1, <2>3, <2>6 DEF EInv, Matched
<1>7. PanicKeepsEarlier'
  <2>1. CASE pc = "panicked"
    <3>1. UNCHANGED <<config, states, touched, out, pc>>
      BY <2>1 DEF Over, vars, cache
    <3>2. Targets \in Nat
      BY <1>1, TargetsNat
    <3>3. PICK k \in 1 .. Targets :
             Matching(k - 1) /\ (Undisturbed(PromiseOf(k).target) => PromiseOf(k).profit = Panicked)
      BY <2>1 DEF EInv, PanicKeepsEarlier
    <3>4. PICK n \in Nat : n = k - 1 /\ k = n + 1
      BY <3>2, <3>3
    <3> QED
      BY <1>1, <3>1, <3>3, <3>4, PanicMatches
  <2>2. CASE pc # "panicked"
    BY <1>2, <2>2 DEF PanicKeepsEarlier
  <2> QED
    BY <2>1, <2>2
<1> QED
  BY <1>4, <1>5, <1>6, <1>7 DEF EInv

(* After a turn its target is one of those that are matched. *)
LEMMA TurnMatches ==
    ASSUME config \in Configs, UNCHANGED <<config, states, touched>>, NEW S, out \in Seq(S),
           NEW n \in Nat, NEW k, k = n + 1, k \in 1 .. Targets, Matching(n),
           \/ out' = out /\ ~Owed(k)
           \/ \E e : out' = Append(out, e) /\ Right(e, k)
    PROVE  Matching(k)'
<1>1. Targets \in Nat
  BY TargetsNat
<1>2. n <= Targets /\ k <= Targets /\ k \in Nat
  BY <1>1
<1>3. Eases(n) /\ Eases(k)
  BY <1>2, QuietEases
<1>4. CASE out' = out /\ ~Owed(k)
  <2>1. Matching(k)
    BY <1>4, MatchingSkips
  <2> QED
    BY <1>2, <1>3, <1>4, <2>1, MatchingStays
<1>5. ASSUME NEW e, out' = Append(out, e), Right(e, k)
      PROVE  Matching(k)'
  <2>1. k \in 1 .. k
    BY <1>2
  <2>2. Right(e, k)'
    BY <1>3, <1>5, <2>1 DEF Eases
  <2>3. Right(e, n + 1)'
    BY <2>2
  <2> QED
    BY <1>3, <1>5, <2>3, MatchingEmits
<1> QED
  BY <1>4, <1>5

LEMMA OutIs ==
    ASSUME IInv
    PROVE  (\E S : out \in Seq(S)) /\ (\E S : legs \in Seq(S))
BY DEF IInv, EvaluationOK, RouteOK, OutSealed, LegsTyped

LEMMA PoolsMatch ==
    ASSUME IInv, EInv, EvaluatePool
    PROVE  EInv'
<1> DEFINE c == config.pools[at]
           s == states[c.id]
           leg == BuildLeg(c, s)
<1>1. /\ config \in Configs /\ UNCHANGED <<config, states, touched>>
      /\ pc = "pools" /\ at \in Nat \ {0} /\ at <= Len(config.pools)
  BY DEF IInv, CacheOK, EvaluationOK, RouteOK, EvaluatePool, cache
<1>2. CASE s # NoState /\ (BuildPanics(c, s) \/ (leg # NoLeg /\ PoolProfit(leg) = Panicked)) /\ Panic
  <2>1. pc' = "panicked" /\ out' = out
    BY <1>2 DEF Panic
  <2>2. at \in DOMAIN config.pools
    BY <1>1, ConfigSizes
  <2>3. at \in 1 .. Targets /\ PromiseOf(at).profit = Panicked
    BY <1>1, <1>2, <2>2, PoolOwes, PoolPanics
  <2>4. PICK n \in Nat, k \in 1 .. Targets : n = at - 1 /\ k = n + 1 /\ k = at
    BY <1>1, <2>3
  <2>5. Matching(n)
    BY <1>1, <2>4 DEF EInv, Matched, Evaluated
  <2>6. k \in 1 .. Targets /\ PromiseOf(k).profit = Panicked
    BY <2>3, <2>4
  <2>7. PanicKeepsEarlier'
    BY <1>1, <2>1, <2>4, <2>5, <2>6, PanicMatches
  <2> QED
    BY <2>1, <2>7 DEF EInv, AtInConfig, Collected, Matched
<1>3. CASE /\ s = NoState \/ ~BuildPanics(c, s)
           /\ s = NoState \/ leg = NoLeg \/ PoolProfit(leg) # Panicked
           /\ at' = at + 1 /\ pc' = pc
           /\ IF s = NoState \/ leg = NoLeg \/ ~Pays(PoolProfit(leg)) THEN out' = out
              ELSE out' = Append(out, Event(c.id, PoolProfit(leg), <<s.block>>, s.block))
  <2>1. Len(config.pools) \in Nat /\ DOMAIN config.pools = 1 .. Len(config.pools)
    BY <1>1, ConfigSizes
  <2>2. at \in DOMAIN config.pools /\ at \in 1 .. Targets
    BY <1>1, <2>1, PoolOwes
  <2>3. PICK n \in Nat : n = at - 1 /\ at = n + 1
    BY <1>1
  <2>4. Matching(n)
    BY <1>1, <2>3 DEF EInv, Matched, Evaluated
  <2>5. /\ s = NoState \/ leg = NoLeg \/ ~Pays(PoolProfit(leg)) => ~Owed(at)
        /\ s # NoState /\ leg # NoLeg /\ Pays(PoolProfit(leg)) =>
             Right(Event(c.id, PoolProfit(leg), <<s.block>>, s.block), at)
    BY <1>1, <1>3, <2>2, PoolOutcome
  <2> HIDE DEF leg, s, c
  <2>6. \/ out' = out /\ ~Owed(at)
        \/ \E e : out' = Append(out, e) /\ Right(e, at)
    BY <1>3, <2>5
  <2>7. PICK k : k = at
    OBVIOUS
  <2>8. Matching(k)'
    <3>1. PICK S : out \in Seq(S)
      BY OutIs
    <3> QED
      BY <1>1, <2>2, <2>3, <2>4, <2>6, <2>7, <3>1, TurnMatches
  <2>9. at' - 1 = k /\ pc' = "pools" /\ at' <= Len(config.pools) + 1
    BY <1>1, <1>3, <2>1, <2>7
  <2>10. Matched'
    BY <2>8, <2>9 DEF Matched, Evaluated
  <2>11. AtInConfig' /\ Collected'
    BY <1>1, <2>9 DEF AtInConfig, Collected
  <2> QED
    BY <2>9, <2>10, <2>11 DEF EInv, PanicKeepsEarlier
<1>4. IF s # NoState /\ (BuildPanics(c, s) \/ (leg # NoLeg /\ PoolProfit(leg) = Panicked)) THEN Panic
      ELSE /\ at' = at + 1 /\ pc' = pc
           /\ IF s = NoState \/ leg = NoLeg \/ ~Pays(PoolProfit(leg)) THEN out' = out
              ELSE out' = Append(out, Event(c.id, PoolProfit(leg), <<s.block>>, s.block))
  BY DEF EvaluatePool, Emit
<1> HIDE DEF leg, s, c
<1> QED
  BY <1>2, <1>3, <1>4

(* A turn for a leg: what it finds is what an instant would find, unless the *)
(* pool is written later.                                                    *)
LEMMA HopsCollect ==
    ASSUME IInv, EInv, EvaluateHop, pc' # "panicked"
    PROVE  Collected'
<1>0. PICK r, id : r = config.routes[at] /\ id = r.legs[hop]
  OBVIOUS
<1> DEFINE c == config.pools[Find(id)]
           s == states[id]
           leg == BuildLeg(c, s)
<1>1. /\ config \in Configs /\ UNCHANGED <<config, states, touched, at>> /\ pc = "routes"
      /\ at \in Nat \ {0} /\ at <= Len(config.routes)
      /\ hop \in Nat \ {0} /\ hop <= Len(r.legs) /\ Len(legs) < hop
  BY <1>0 DEF IInv, CacheOK, EvaluationOK, RouteOK, EvaluateHop, Panic, cache
<1>2. Len(legs) \in Nat /\ \E S : legs \in Seq(S)
  BY OutIs, LenProperties
<1>3. hop' = hop + 1 /\ hop \in 1 .. hop /\ \A j \in 1 .. hop : j \in 1 .. hop - 1 \/ j = hop
  BY <1>1 DEF EvaluateHop, Panic
<1>4. \A x : HopGives(x)' = HopGives(x) /\ HopPanics(x)' = HopPanics(x) /\ (x \in Ids => HopLeg(x)' = HopLeg(x))
  BY <1>1, HopStays
<1>5. \A x : HopGives(x) => x \in Ids
  BY DEF HopGives
<1>6. Survived(r) /\ IF Len(legs) + 1 = hop THEN Gathered(r) ELSE Incomplete(r)
  BY <1>0, <1>1 DEF EInv, Collected
<1>6a. ~HopPanics(id) => Survived(r)'
  <2>1. SUFFICES ASSUME ~HopPanics(id), NEW j \in 1 .. hop, r.legs[j] \notin touched
                 PROVE  ~HopPanics(r.legs[j])'
    BY <1>1, <1>3 DEF Survived
  <2>2. ~HopPanics(r.legs[j])
    <3>1. CASE j \in 1 .. hop - 1
      BY <1>6, <2>1, <3>1 DEF Survived
    <3>2. CASE j = hop
      BY <1>0, <2>1, <3>2
    <3> QED
      BY <1>3, <3>1, <3>2
  <2>3. PICK x : x = r.legs[j]
    OBVIOUS
  <2>4. ~HopPanics(x)'
    BY <1>4, <2>2, <2>3
  <2> QED
    BY <2>3, <2>4
<1>7. CASE legs' = legs /\ ~HopGives(id) /\ ~HopPanics(id)
  <2>1. Len(legs') + 1 # hop'
    BY <1>1, <1>2, <1>3, <1>7
  <2>2. Incomplete(r)'
    <3>1. hop' - 1 = hop
      BY <1>1, <1>3
    <3>2. ~HopGives(id)'
      BY <1>4, <1>7
    <3>3. PICK h : h = hop
      OBVIOUS
    <3>4. h \in 1 .. hop' - 1 /\ r.legs[h] = id
      BY <1>0, <1>3, <3>1, <3>3
    <3>5. ~HopGives(r.legs[h])'
      BY <3>2, <3>4
    <3> QED
      BY <3>4, <3>5 DEF Incomplete
  <2> QED
    BY <1>0, <1>1, <1>6a, <1>7, <2>1, <2>2 DEF Collected
<1>8. CASE legs' = Append(legs, leg) /\ HopGives(id) /\ HopLeg(id) = leg /\ ~HopPanics(id)
  <2> HIDE DEF leg
  <2>1. /\ Len(legs') = Len(legs) + 1 /\ legs'[Len(legs) + 1] = leg
        /\ \A j \in 1 .. Len(legs) : legs'[j] = legs[j]
    <3>1. PICK S : legs \in Seq(S)
      BY <1>2
    <3>2. legs \in Seq(S \cup {leg}) /\ leg \in S \cup {leg}
      BY <3>1
    <3> QED
      BY <1>8, <3>2, AppendProperties
  <2>2. CASE Len(legs) + 1 = hop
    <3>1. Gathered(r)
      BY <1>6, <2>2
    <3>2. Len(legs') + 1 = hop'
      BY <1>3, <2>1, <2>2
    <3>3. hop - 1 = Len(legs) /\ hop' - 1 = hop
      BY <1>1, <1>2, <1>3, <2>2
    <3>4. \A j \in 1 .. hop : r.legs[j] \notin touched =>
             HopGives(r.legs[j])' /\ legs'[j] = HopLeg(r.legs[j])'
      <4>1. SUFFICES ASSUME NEW j \in 1 .. hop, r.legs[j] \notin touched
                     PROVE  HopGives(r.legs[j])' /\ legs'[j] = HopLeg(r.legs[j])'
        OBVIOUS
      <4>2. HopGives(r.legs[j]) /\ legs'[j] = HopLeg(r.legs[j])
        <5>1. CASE j \in 1 .. hop - 1
          BY <2>1, <3>1, <3>3, <4>1, <5>1 DEF Gathered
        <5>2. CASE j = hop
          BY <1>0, <1>8, <2>1, <2>2, <5>2
        <5> QED
          BY <1>3, <5>1, <5>2
      <4>3. PICK x : x = r.legs[j]
        OBVIOUS
      <4>4. HopGives(x)' /\ legs'[j] = HopLeg(x)'
        BY <1>4, <1>5, <4>2, <4>3
      <4> QED
        BY <4>3, <4>4
    <3>5. Gathered(r)'
      BY <1>1, <3>3, <3>4 DEF Gathered
    <3> QED
      BY <1>0, <1>1, <1>6a, <1>8, <3>2, <3>5 DEF Collected
  <2>3. CASE Len(legs) + 1 # hop
    <3>1. Incomplete(r)
      BY <1>6, <2>3
    <3>2. Len(legs') + 1 # hop'
      BY <1>1, <1>2, <1>3, <2>1, <2>3
    <3>3. hop' - 1 = hop /\ \A j \in 1 .. hop - 1 : j \in 1 .. hop
      BY <1>1, <1>3
    <3>4. \E j \in 1 .. hop : r.legs[j] \notin touched => ~HopGives(r.legs[j])
      BY <3>1, <3>3 DEF Incomplete
    <3>5. Incomplete(r)'
      BY <1>1, <1>4, <3>3, <3>4 DEF Incomplete
    <3> QED
      BY <1>0, <1>1, <1>6a, <1>8, <3>2, <3>5 DEF Collected
  <2> QED
    BY <2>2, <2>3
<1>9. \/ legs' = legs /\ ~HopGives(id) /\ ~HopPanics(id)
      \/ legs' = Append(legs, leg) /\ HopGives(id) /\ HopLeg(id) = leg /\ ~HopPanics(id)
  <2>1. IF Find(id) = 0 \/ s = NoState THEN legs' = legs
        ELSE ~BuildPanics(c, s) /\ legs' = IF leg = NoLeg THEN legs ELSE Append(legs, leg)
    BY <1>0 DEF EvaluateHop, Panic
  <2>2. /\ Find(id) = 0 \/ (id \in Ids /\ s = NoState) => ~HopGives(id) /\ ~HopPanics(id)
        /\ Find(id) # 0 => id \in Ids
        /\ Find(id) # 0 /\ s # NoState => (HopPanics(id) <=> BuildPanics(c, s))
        /\ Find(id) # 0 /\ s # NoState /\ ~BuildPanics(c, s) =>
             HopLeg(id) = leg /\ (HopGives(id) <=> leg # NoLeg)
    BY <1>1, HopOutcome
  <2> HIDE DEF leg, s, c
  <2> QED
    BY <2>1, <2>2
<1> QED
  BY <1>7, <1>8, <1>9

LEMMA HopsMatch ==
    ASSUME IInv, EInv, EvaluateHop
    PROVE  EInv'
<1>1. /\ config \in Configs /\ UNCHANGED <<config, states, touched, at, out>> /\ pc = "routes"
      /\ pc' \in {"routes", "panicked"}
  BY DEF IInv, CacheOK, EvaluateHop, Panic, cache
<1>2. CASE pc' = "panicked"
  <2>0. PICK k, r, id : k = at /\ r = config.routes[k] /\ id = r.legs[hop]
    OBVIOUS
  <2>1. /\ k \in DOMAIN config.routes /\ at \in Nat \ {0}
        /\ Len(config.pools) \in Nat /\ Len(config.routes) \in Nat
        /\ hop \in DOMAIN r.legs
    <3>1. at \in Nat \ {0} /\ at <= Len(config.routes) /\ hop \in Nat \ {0} /\ hop <= Len(r.legs)
      BY <2>0 DEF IInv, EvaluationOK, RouteOK, EvaluateHop
    <3>2. at \in DOMAIN config.routes
      BY <1>1, <3>1, ConfigSizes
    <3> QED
      BY <1>1, <2>0, <3>1, <3>2, ConfigSizes, LegsSizes
  <2>2. Find(id) # 0 /\ states[id] # NoState /\ BuildPanics(config.pools[Find(id)], states[id])
    BY <1>1, <1>2, <2>0 DEF EvaluateHop
  <2>3. HopPanics(r.legs[hop])
    BY <1>1, <2>0, <2>2, HopOutcome
  <2>4. PICK n, m : n = Len(config.pools) + k - 1 /\ m = Len(config.pools) + k
    OBVIOUS
  <2>5. n \in Nat /\ m = n + 1
    BY <2>0, <2>1, <2>4
  <2>6. m \in 1 .. Targets /\ PromiseOf(m).profit = Panicked
    <3> HIDE <2>0
    <3>1. r = config.routes[k]
      BY <2>0
    <3> QED
      BY <1>1, <2>1, <2>3, <2>4, <3>1, RouteOwes, RoutePanics
  <2>7. Matching(n)
    BY <1>1, <2>0, <2>4 DEF EInv, Matched, Evaluated
  <2>8. PanicKeepsEarlier'
    BY <1>1, <2>5, <2>6, <2>7, PanicMatches
  <2> QED
    BY <1>2, <2>8 DEF EInv, AtInConfig, Collected, Matched
<1>3. CASE pc' = "routes"
  <2>1. Collected' /\ AtInConfig'
    BY <1>1, <1>3, HopsCollect DEF EInv, AtInConfig
  <2>2. PICK n : n = Evaluated
    OBVIOUS
  <2>3. n \in Nat /\ n <= Targets /\ Matching(n)
    <3>1. Targets \in Nat /\ Evaluated \in 0 .. Targets
      BY <1>1, TargetsNat, EvaluatedIn DEF EInv
    <3> QED
      BY <1>1, <2>2, <3>1 DEF EInv, Matched
  <2>4. Matching(n)'
    BY <1>1, <2>3, QuietEases, MatchingStays
  <2>5. Evaluated' = n
    BY <1>1, <1>3, <2>2 DEF Evaluated
  <2> QED
    BY <1>3, <2>1, <2>4, <2>5 DEF EInv, Matched, PanicKeepsEarlier
<1> QED
  BY <1>1, <1>2, <1>3

(* A route of which no turn was taken yet. *)
LEMMA FreshRoute ==
    ASSUME hop' = 1, legs' = <<>>
    PROVE  Collected'
<1>1. Len(legs') + 1 = hop' /\ 1 .. hop' - 1 = {}
  OBVIOUS
<1> QED
  BY <1>1 DEF Collected, Gathered, Survived

LEMMA RoutesMatch ==
    ASSUME IInv, EInv, EvaluateRoute
    PROVE  EInv'
<1>0. PICK k, r : k = at /\ r = config.routes[k]
  OBVIOUS
<1> DEFINE label == IF minBlock = MaxU64 THEN blockNum ELSE minBlock
           e == Event(r.id, RouteProfit(legs), [j \in DOMAIN legs |-> legs[j].block], label)
<1>1. /\ config \in Configs /\ UNCHANGED <<config, states, touched>> /\ pc = "routes"
      /\ k \in Nat \ {0} /\ k <= Len(config.routes)
      /\ hop \in Nat \ {0} /\ hop > Len(r.legs) /\ hop <= Len(r.legs) + 1
      /\ Survived(r) /\ IF Len(legs) + 1 = hop THEN Gathered(r) ELSE Incomplete(r)
  BY <1>0 DEF IInv, CacheOK, EvaluationOK, RouteOK, EInv, Collected, EvaluateRoute, cache
<1>2. IF Whole(r) /\ RouteProfit(legs) = Panicked THEN Panic
      ELSE /\ at' = at + 1 /\ hop' = 1 /\ legs' = <<>> /\ pc' = pc
           /\ IF Whole(r) /\ Pays(RouteProfit(legs)) THEN out' = Append(out, e) ELSE out' = out
  BY <1>0 DEF EvaluateRoute, NextRoute, Emit
<1> HIDE DEF label
<1>4. /\ Len(config.pools) \in Nat /\ Len(config.routes) \in Nat
      /\ k \in DOMAIN config.routes
  BY <1>1, ConfigSizes
<1>5. Len(r.legs) \in Nat /\ DOMAIN r.legs = 1 .. Len(r.legs)
  BY <1>0, <1>1, <1>4, LegsSizes
<1>6. hop = Len(r.legs) + 1
  BY <1>1, <1>5
<1>7. PICK n, m : n = Len(config.pools) + k - 1 /\ m = Len(config.pools) + k
  OBVIOUS
<1>8. n \in Nat /\ m = n + 1
  BY <1>1, <1>4, <1>7
<1>9. m \in 1 .. Targets /\ PromiseOf(m).target = r.id
  <2> HIDE <1>7
  <2>1. /\ Len(config.pools) + k \in 1 .. Targets
        /\ PromiseOf(Len(config.pools) + k).target = r.id
    BY <1>0, <1>1, <1>4, RouteOwes
  <2> QED
    BY <1>7, <2>1
<1>10. Matching(n)
  BY <1>0, <1>1, <1>7 DEF EInv, Matched, Evaluated
<1>11. /\ Whole(r) /\ RouteProfit(legs) = Panicked /\ Undisturbed(r.id) => PromiseOf(m).profit = Panicked
       /\ ~(Whole(r) /\ (Pays(RouteProfit(legs)) \/ RouteProfit(legs) = Panicked)) => ~Owed(m)
       /\ Whole(r) /\ Pays(RouteProfit(legs)) => Right(e, m)
  <2>1. PICK S : legs \in Seq(S)
    BY OutIs
  <2> HIDE <1>7
  <2>2. /\ Whole(r) /\ RouteProfit(legs) = Panicked /\ Undisturbed(r.id) =>
              PromiseOf(Len(config.pools) + k).profit = Panicked
        /\ ~(Whole(r) /\ (Pays(RouteProfit(legs)) \/ RouteProfit(legs) = Panicked)) =>
              ~Owed(Len(config.pools) + k)
        /\ Whole(r) /\ Pays(RouteProfit(legs)) => Right(e, Len(config.pools) + k)
    BY <1>0, <1>1, <1>4, <1>5, <1>6, <2>1, RouteOutcome
  <2> HIDE DEF e
  <2> QED
    BY <1>7, <2>2
<1> HIDE DEF e
<1>12. CASE Whole(r) /\ RouteProfit(legs) = Panicked
  <2>1. pc' = "panicked" /\ out' = out
    BY <1>2, <1>12 DEF Panic
  <2>2. Undisturbed(PromiseOf(m).target) => PromiseOf(m).profit = Panicked
    BY <1>9, <1>11, <1>12
  <2>3. PanicKeepsEarlier'
    BY <1>1, <1>8, <1>9, <1>10, <2>1, <2>2, PanicMatches
  <2> QED
    BY <2>1, <2>3 DEF EInv, AtInConfig, Collected, Matched
<1>13. CASE ~(Whole(r) /\ RouteProfit(legs) = Panicked)
  <2>1. \/ out' = out /\ ~Owed(m)
        \/ \E x : out' = Append(out, x) /\ Right(x, m)
    BY <1>2, <1>11, <1>13
  <2>2. Matching(m)'
    <3>1. PICK S : out \in Seq(S)
      BY OutIs
    <3> QED
      BY <1>1, <1>8, <1>9, <1>10, <2>1, <3>1, TurnMatches
  <2>3. at' = at + 1 /\ hop' = 1 /\ legs' = <<>> /\ pc' = pc
    BY <1>2, <1>13
  <2>4. at' = k + 1 /\ pc' = "routes" /\ at' <= Len(config.routes) + 1
         /\ Len(config.pools) + at' - 1 = m
    BY <1>0, <1>1, <1>4, <1>7, <2>3
  <2>5. Matched'
    BY <1>1, <2>2, <2>4 DEF Matched, Evaluated
  <2>6. AtInConfig' /\ Collected'
    BY <1>1, <2>3, <2>4, FreshRoute DEF AtInConfig
  <2> QED
    BY <2>4, <2>5, <2>6 DEF EInv, PanicKeepsEarlier
<1> QED
  BY <1>12, <1>13

LEMMA BeginMatches ==
    ASSUME IInv, EInv, Begin
    PROVE  EInv'
<1>1. pc = "idle" /\ pc' = "pools" /\ at' = at /\ config' = config /\ out' = out
  BY DEF Begin
<1>2. at = 1 /\ out = <<>>
  BY <1>1 DEF EInv, AtInConfig
<1>3. Matching(0)'
  <2>1. (out = <<>> => Matching(0))'
    BY MatchingNothing, PTL
  <2> QED
    BY <1>1, <1>2, <2>1
<1>4. Matched'
  BY <1>1, <1>2, <1>3 DEF Matched, Evaluated
<1>5. Len(config.pools) \in Nat
  BY ConfigSizes DEF IInv, CacheOK
<1> QED
  BY <1>1, <1>2, <1>4, <1>5 DEF EInv, AtInConfig, Collected, PanicKeepsEarlier

(* Nothing is printed when a loop ends. *)
LEMMA EndsMatch ==
    ASSUME IInv, EInv, FinishPools \/ Return
    PROVE  EInv'
<1>1. /\ config \in Configs /\ UNCHANGED <<config, states, touched, hop, legs, out>>
      /\ at \in Nat
  BY DEF IInv, CacheOK, EvaluationOK, RouteOK, FinishPools, Return, cache, route
<1>2. /\ Len(config.pools) \in Nat /\ Len(config.routes) \in Nat
      /\ Targets = Len(config.pools) + Len(config.routes)
  BY <1>1, ConfigSizes
<1>3. PICK n : n = Evaluated
  OBVIOUS
<1>4. n \in Nat /\ n <= Targets /\ Matching(n)
  <2>1. Targets \in Nat /\ Evaluated \in 0 .. Targets
    BY <1>1, TargetsNat, EvaluatedIn DEF EInv
  <2>2. pc # "panicked"
    BY DEF FinishPools, Return
  <2> QED
    BY <1>3, <2>1, <2>2 DEF EInv, Matched
<1>5. Matching(n)'
  BY <1>1, <1>4, QuietEases, MatchingStays
<1>6. CASE FinishPools
  <2>1. pc = "pools" /\ at > Len(config.pools) /\ at <= Len(config.pools) + 1
        /\ pc' = "routes" /\ at' = 1
    BY <1>6 DEF FinishPools, EInv, AtInConfig
  <2>2. hop = 1 /\ legs = <<>>
    BY <2>1 DEF IInv, EvaluationOK, RouteOK
  <2>3. n = at - 1
    BY <1>3, <2>1 DEF Evaluated
  <2>4. Evaluated' = Len(config.pools) + 1 - 1
    BY <1>1, <2>1 DEF Evaluated
  <2>5. at - 1 = Len(config.pools) + 1 - 1
    BY <1>1, <1>2, <2>1
  <2>6. Matched' /\ Collected'
    BY <1>1, <1>5, <2>2, <2>3, <2>4, <2>5, FreshRoute DEF Matched
  <2>7. AtInConfig'
    BY <1>1, <1>2, <2>1 DEF AtInConfig
  <2> QED
    BY <2>1, <2>6, <2>7 DEF EInv, PanicKeepsEarlier
<1>7. CASE Return
  <2>1. pc = "routes" /\ at > Len(config.routes) /\ at <= Len(config.routes) + 1 /\ pc' = "done"
    BY <1>7 DEF Return, EInv, AtInConfig
  <2>2. n = Len(config.pools) + at - 1
    BY <1>3, <2>1 DEF Evaluated
  <2>3. Evaluated' = Targets
    BY <1>1, <2>1, NeedsStay DEF Evaluated
  <2>4. Len(config.pools) + at - 1 = Targets
    <3>1. \A p, r, x \in Nat : x > r /\ x <= r + 1 => p + x - 1 = p + r
      OBVIOUS
    <3> QED
      BY <1>1, <1>2, <2>1, <3>1
  <2> QED
    BY <1>5, <2>1, <2>2, <2>3, <2>4 DEF EInv, AtInConfig, Collected, Matched, PanicKeepsEarlier
<1> QED
  BY <1>6, <1>7

LEMMA MatchInit ==
    ASSUME Init
    PROVE  EInv
<1>1. pc = "idle" /\ at = 1 /\ out = <<>> /\ config \in Configs
  BY DEF Init
<1>2. Len(config.pools) \in Nat
  BY <1>1, ConfigSizes
<1> QED
  BY <1>1, <1>2, MatchingNothing
  DEF EInv, AtInConfig, Collected, Matched, Evaluated, PanicKeepsEarlier

LEMMA MatchingHolds == Spec => []EInv
<1>1. Init => EInv
  BY MatchInit
<1>2. IInv /\ EInv /\ [Next]_vars => EInv'
  <2> SUFFICES ASSUME IInv, EInv, [Next]_vars PROVE EInv'
    OBVIOUS
  <2>1. CASE (pc \notin {"done", "panicked"} /\ Others) \/ Over \/ UNCHANGED vars
    BY <2>1, OthersMatch
  <2>2. CASE Begin
    BY <2>2, BeginMatches
  <2>3. CASE EvaluatePool
    BY <2>3, PoolsMatch
  <2>4. CASE FinishPools \/ Return
    BY <2>4, EndsMatch
  <2>5. CASE EvaluateHop
    BY <2>5, HopsMatch
  <2>6. CASE EvaluateRoute
    BY <2>6, RoutesMatch
  <2> QED
    BY <2>1, <2>2, <2>3, <2>4, <2>5, <2>6 DEF Next, Evaluation
<1> QED
  BY <1>1, <1>2, InvariantHolds, PTL DEF Spec

(* What is printed of the pools and routes that nobody wrote to meanwhile is *)
(* what an evaluation in one instant would print, in its order, for any      *)
(* configuration and any writers (engine.rs:162-282).                        *)
THEOREM PrintsAnInstant == Spec => []MatchesInstant
<1>1. EInv => MatchesInstant
  <2>1. pc = "done" => Evaluated = Targets
    BY DEF Evaluated
  <2> QED
    BY <2>1 DEF EInv, Matched, MatchesInstant
<1> QED
  BY <1>1, MatchingHolds, PTL

(* Wherever a constructor or a sizing panics, the events of the earlier     *)
(* targets are out and are those of an instant, and a panic has its cause   *)
(* in the target at hand, for any configuration, any writers and whatever   *)
(* sizings panic (engine.rs:64-159, 185-282).                               *)
THEOREM PanicLosesNothing == Spec => []PanicKeepsEarlier
<1>1. EInv => PanicKeepsEarlier
  BY DEF EInv
<1> QED
  BY <1>1, MatchingHolds, PTL

=============================================================================
