--------------------------- MODULE SizingContract ---------------------------
(***************************************************************************)
(* What every optimal_size promises its caller (the trait SizingAlgorithm  *)
(* and the checks that end each implementation): one answer, and if it is  *)
(* a size, one that respects max_size and whose expected_profit is the net *)
(* profit of that very size; "no arbitrage" only if the first unit is not  *)
(* worth its price, or is a leg's error that a route passes on.            *)
(***************************************************************************)
EXTENDS SizingMarket

VARIABLES market, limit, outcome

Init ==
    /\ Output(market, 0) = 0
    /\ limit \in Limits \cup {NoLimit}
    /\ outcome = Pending

Accept(x) ==
    /\ outcome = Pending
    /\ Within(limit, x) /\ Feasible(market, x) /\ NetProfit(market, x) > 0
    /\ outcome' = Ok(x, NetProfit(market, x))
    /\ UNCHANGED <<market, limit>>

Refuse(error) ==
    /\ outcome = Pending
    /\ error = "NoArbitrageOpportunity" => ~WorthStarting(market) \/ Len(market.legs) >= 2
    /\ outcome' = Err(error)
    /\ UNCHANGED <<market, limit>>

Next ==
    \/ outcome'.kind = "ok" /\ outcome'.size \in Nat \ {0} /\ Accept(outcome'.size)
    \/ \E e \in Errors : Refuse(e)

Spec == Init /\ [][Next]_<<market, limit, outcome>>

=============================================================================
