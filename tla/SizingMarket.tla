---------------------------- MODULE SizingMarket ----------------------------
(***************************************************************************)
(* What is sized: a pool or a route, against a reference price, a fixed    *)
(* cost and a max_size (crates/sizing-core/src/types.rs, traits.rs, and    *)
(* crates/sizing-router/src/route.rs).                                     *)
(*                                                                         *)
(* Sizes and values are integers, the smallest steps told apart.  A market *)
(* is a chain of legs, one for a pool and two or more for a route; a leg   *)
(* is the output for every input it can fill.                              *)
(***************************************************************************)
EXTENDS Integers, Sequences

CONSTANTS
    Markets,     (* [legs, price, fixed]: the chain, reference_price, fixed_cost *)
    Limits,      (* the values of max_size *)
    NoLimit,     (* max_size: None *)
    Infeasible   (* the output of an input that a leg cannot fill *)

Quote(leg, x) == IF x \in DOMAIN leg THEN leg[x] ELSE Infeasible

(* Route::route_output: each leg's output is the next one's input. *)
Output(m, x) ==
    LET after[i \in 0 .. Len(m.legs)] ==
            IF i = 0 THEN x ELSE Quote(m.legs[i], after[i - 1])
    IN after[Len(m.legs)]

Feasible(m, x) == Output(m, x) \in Nat

NetProfit(m, x) == Output(m, x) - m.price * x - m.fixed

(* Whether the first unit is worth more than its price; every search begins *)
(* by asking, at a small probe size or by the marginal price's formula.     *)
WorthStarting(m) == Feasible(m, 1) /\ Output(m, 1) > m.price

(* Nothing goes in, nothing comes out, and costs are not negative. *)
ASSUME MarketAssumption ==
    /\ Infeasible \notin Int /\ NoLimit \notin Int /\ Limits \subseteq Nat
    /\ \A m \in Markets : m.price \in Nat /\ m.fixed \in Nat /\ Output(m, 0) = 0

Within(limit, x) == limit = NoLimit \/ x <= limit

(* SizingResult and SizingError. *)
Pending == [kind |-> "pending"]
Err(error) == [kind |-> "err", error |-> error]
Ok(size, profit) == [kind |-> "ok", size |-> size, profit |-> profit]

Errors == {"NoArbitrageOpportunity", "NoProfitableSize", "InvalidReserves", "DidNotConverge"}

=============================================================================
