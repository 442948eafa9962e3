# Verification of optimal-sizing

TLA+ models, model-checking configurations and machine-checked proofs for the
`optimal-sizing` workspace: a Rust library that computes the profit-maximising
size of an arbitrage trade on nine kinds of AMM pools, on routes of pools and
on portfolios of opportunities, and a daemon that follows an Ethereum node and
reports opportunities. Paths below are relative to the repository; `cache.rs`,
`main.rs` and `engine.rs` are those of `crates/sizing-watch/src`, `route.rs` is
`crates/sizing-router/src/route.rs`, `lib.rs` is
`crates/sizing-portfolio/src/lib.rs`, and the curves are in
`crates/sizing-core/src/curves`.

## 1. The system

| Part | State it keeps | Operations | Modelled by |
|---|---|---|---|
| `PoolCache` (`cache.rs`) | last block number, last block hash, sync status, map of pool states, each behind its own `RwLock` | `update_pool`, `get_pool`, `handle_new_head`, `sync_status`, `latest_block` | `HeadRule`, `CacheCalls`, `PoolCache`, `PoolCacheLocks` |
| The daemon (`main.rs`) | the `running` flag, the websocket, the polling counter | start, websocket loop with `select!`, polling loop, ctrl-c task | `Watch` |
| The engine (`engine.rs`) | none | `build_leg`, `evaluate_opportunities` | `PoolConstructors`, `Engine`; one step of `Watch` |
| `PortfolioSizer` (`lib.rs`) | budget, tolerance | `optimize`, `evaluate_lambda` | `Portfolio` |
| `Route` (`route.rs`) | the legs | `route_output`, `optimal_size`, `diagnostic_tier`, the golden-section search | `SizingMarket`, `GoldenSection` |
| `Pmm`, `VelodromeStable`, `DodoPmm`, `CurveCryptoSwap` | reserves and parameters | `quote`, `optimal_size` by golden-section search | `GoldenSection` over any output function; `quote`, the Newton iterations and `Pmm`'s interval: `Regimes`, `Quotes` |
| `ConcentratedLiquidity`, `LiquidityBook` | ranges and current price; bins and active bin | `quote` and `optimal_size`, two walks over the pieces | `TickWalk` |
| `Cpmm`, `StableSwap`, `BalancerWeightedPool` | reserves and parameters | `quote`, `optimal_size` by closed forms and bisection, `bisection_fallback`, Newton iterations | `SlopeSearch` over any output function; `StableSwap`'s `quote` and `solve_d`: `Quotes` |
| The constructors of the curves | none | `new` | `PoolConstructors` |
| The integration check (`crates/sizing-integration`) | none | `main`, the `aggregate3` codec of `multicall.rs` | `Multicall`, `LiveCheck` |
| `traits.rs`, `types.rs`, `error.rs`, `profit.rs` | none | the contract of `optimal_size`, `restrict_domain` | `SizingContract`, `SizingMarket` |
| backtest, gas and slippage, CLI, bindings, benchmarks | none that outlives a call | drivers of the library | not modelled, see section 7 |

How they interact. The daemon's main task passes block headers to the cache and
then calls the engine, which reads the cache, builds a leg per pool and calls
`optimal_size` on pools and routes. `Route` calls `quote` of each leg in turn,
and, for the tier of its answer, `optimal_size` of each leg. `PortfolioSizer`
calls `optimal_size` of every opportunity once per value of the shadow price.
The ctrl-c task shares only the atomic flag with the main task. A `PoolCache`
is a bundle of `Arc`s and is meant to be cloned into threads: its methods take
`&self`, and nothing but its locks orders them: while the engine reads one pool
after the other, the owner of another clone may write any of them. The
integration check talks to a node through one contract that bundles calls, and
builds two pools from the answers.

What is hard. In the cache: several locks per call, three assignments that
others must see as one, panics that poison locks. In the daemon:
reorganisations, missing and garbled headers, the end of the stream, and a flag
that may be cleared at every await. In the engine: one evaluation reads the
cache many times, with writers in between, and a label is collected across the
legs of a route. In the portfolio: a bisection over a function that is neither
continuous nor strictly monotone, whose last evaluation is the answer. In the
searches: values handed on from round to round, ties, plateaus, sizes that
cannot be filled, and a limit that is applied before or after the search. In
the walks: two loops over the same pieces that must agree on every boundary,
pieces that are empty, out of order, apart or on top of each other, and sums
that are rounded. In the quotes: iterations on truncated numbers that must
stop, and formulas of several regimes that must meet at the boundaries. In the
integration check: numbers that come from different blocks, offsets within
offsets, and an answer that may be missing, short or another contract's.

What makes each part correct. Cache: linearizable calls, a head number that
never goes back, no deadlock. Daemon: a synchronized cache has followed one
chain, stale data is not sized, ctrl-c ends it. Engine: what is printed is what
one instant of the cache would give, and a label is never newer than the data.
Portfolio: the bracket around the shadow price, the best use of the capital
taken, the budget. Searches: the maximum is never dropped, and the answer is
what its contract says. Walks: what is quoted is what the units above are
worth, and no size beats the one found. Quotes: the exact output, never more
than the reserve, or an error. Integration check: a pool that is sized is the
pool of one block.

## 2. Modules

```
HeadRule ── CacheCalls ── PoolCache            abstract: one call, one instant
    │            └─────── PoolCacheLocks ────  MCPoolCacheLocks   (run locks)
    │                        │  └ implements PoolCache
    │                        └─ CacheProofs (with Watch)
    └────── Watch ── MCWatch                   (runs watch, watch_stale)
PoolConstructors ── Engine ── MCEngine         (run engine)
    │                  └─ EngineProofs
    └── LiveCheck ── MCLiveCheck               (run live_check)
Multicall ──┘     └─ LiveCheckProofs
Powers ── Portfolio ── MCPortfolio             (run portfolio)
   │          └─ PortfolioProofs
   │   (Powers is also used by GoldenSection and SlopeSearch)
Induction                                      lemmas of five proof modules
SizingMarket ── SizingContract                 abstract: what optimal_size promises
    └────────── GoldenSection ── MCGoldenSection (runs golden_section, golden_section_route)
    │              │  └ implements SizingContract
    │              └─ CurveProofs               (with Quotes)
    ├────────── SlopeSearch ── MCSlopeSearch     (run slope_search)
    │              │  └ implements SizingContract
    │              └─ SlopeSearchProofs
    └────────── TickWalk ── MCTickWalk           (run tick_walk)
                   │  └ implements SizingContract
                   └─ TickWalkProofs
Regimes ── Quotes ── MCQuotes                  (runs quotes, quotes_cycle)
              └─ CurveProofs                   (with GoldenSection)
```

* `HeadRule` is the rule of `handle_new_head` as a pure function of the tracker
  (number, hash, status) and a header: `Verdict` is `accept`, `break` (gap or
  reorganisation) or `ignore`, `AfterHead` the tracker it leaves. Number 0
  means that no head was seen; the successor wraps at `MaxU64`.
* `CacheCalls` names the requests and the value each returns. `PoolCache` is
  the promise: a pending call takes effect in one step, or panics and changes
  nothing.
* `PoolCacheLocks` is the code: `pc[t]` is the next lock operation or
  assignment of thread `t`, `writer[l]` the holder of a lock, `poisoned` what
  panics left. One action is one line of `cache.rs` that touches shared state:
  `LockNumber`, `LockHash`, `LockStatus` (72-74), `Match` (the conditions,
  76-105), `Write` (one assignment, in the order of the branch), `DropStatus`,
  `DropHash`, `DropNumber` (the guards die in reverse order), `LockStates` and
  `Insert` (`update_pool`), `Read` (the one-expression readers). The refinement
  mapping shows `PoolCache` the tracker as it was before the writes for as long
  as they go on.
* `Watch` is `main` with the node and the user around it. `place` is the place
  in `main` where it may be interrupted, `wire` the frames on the socket. The
  node extends its chain, reorganises, announces with or without a missing or
  unparsable field, sends pings and other frames, or ends the stream. The awaits
  that are not raced with the timer are places of their own, `NetworkWaits`:
  `connecting` (98), `subscribing` (106) and `ponging` (129). `Evaluate` is a
  whole `evaluate_opportunities`, which does not give up the task.
* `PoolConstructors` is what `new` of each curve accepts, as predicates.
* `Engine` opens `Evaluate`: one step per call of the cache, with everything the
  code computes up to the next call. `Begin` reads the block number,
  `EvaluatePool` and `EvaluateHop` are one turn of the loops over pools and
  over the legs of a route, `EvaluateRoute` the rest of a turn of the loop over
  routes, `FinishPools` and `Return` the ends of the loops. `Others` are the
  holders of other clones of the cache and the chain: a block, a head, an update
  of any pool by data of any block up to the newest. `BuildLeg` has the refusals,
  the defaults of `build_leg`, curve by curve, and `BuildPanics` its panics: the
  unchecked index, and a price or a sum of weights beyond the largest Decimal. What
  `optimal_size` finds is any function of the legs: a profit, an error, or a
  panic, for Decimal's operators panic on overflow (`self.x * self.y` at
  `cpmm.rs:183` is one of many). `PromiseOf` says,
  without loops, what an evaluation in one instant would print of one target, and
  `Matching(n)` that the events are those of the first `n` targets.
* `Powers` has the powers of two that the doubling loops count in.
* `Portfolio` is `optimize`: `Unconstrained` (131-148), one action per round of
  the doubling loop (`Bracket`) and of the bisection (`Bisect`), and `Settle`
  with the scaling. A pool is a table of outputs, its `optimal_size` exact.
  `(lo + hi) / 2` is any of `Middles`: sum and quotient are rounded.
* `SizingMarket` is what is sized: a chain of legs, a price, a fixed cost.
  `SizingContract` is the promise of the trait `SizingAlgorithm`: one answer; a
  size is within `max_size` and comes with its own net profit, which is
  positive; `NoArbitrageOpportunity` only if the first unit is not worth its
  price (a route may also pass on that error of one leg's diagnostic sizing).
* `GoldenSection` is the search of the five `optimal_size` that have one, over
  any output function. They differ in operators of their own: `TieGoesLeft`,
  `Miss` (what an infeasible size is worth), `ClipsInterval`, `ClipsSize`,
  `ProbesByFormula`, `UpperEnds`. An interval is `a .. a + long + short` with
  `long` and `short` neighbouring Fibonacci multiples of `bound`: the golden
  ratio on integers. `Pmm`'s upper end, a function of its pole and reserves, is
  any member of `Uppers`. Abstracted are the tolerance of each loop (it ends at
  a width of `2 * bound`) and Decimal's rounding.
* `SlopeSearch` is the searches for the root of the marginal profit: the closed
  forms of `Cpmm` and `BalancerWeightedPool` (`FormulaFails` is a square root or
  power that Decimal cannot compute, `PowerRoundsAway` a power so near 1 that
  `BalancerWeightedPool` ends without a size), `Cpmm::bisection_fallback`, and
  `StableSwap`, over any output function. `Double`, `Bracketed` and
  `BracketFails` are the doubling loop, `Bisect` one round of the bisection,
  `Answer` the checks that end each. `Rises` is the sign of the derivative:
  exact for a formula, the central difference over `step` for `StableSwap`.
  Sizes are multiples of Decimal's smallest step, so a middle between two of
  them is rounded to either; `Resolution` is `1 / NEWTON_TOLERANCE`.
* `TickWalk` is `quote` and `optimal_size` of the two curves made of pieces, one
  action per turn of a loop: `SizeCrosses`, `SizeEndsHere`, `SizeStops` for the
  loop that finds the size, `QuoteCrosses`, `QuoteEndsHere` for the loop that
  fills it, `Choose` and `Settle` for the checks after each. The variables `k`,
  `p`, `sum`, `rest` and `out` are the locals `k`, `current_p`,
  `cumulative_delta_in`, `remaining_in` and `total_out`. Prices are on a grid:
  liquidity `L` sells `L` units of input at price `p` before it falls to
  `p - 1`, a monotone image of `L / sqrt(p)`; inputs are counted after the fee.
  A sum of amounts of two ranges may be off by `Rounding`. `Rungs` and `Sold`
  say without any walk what a pool sells: they are what the walks are compared
  with. The constructors are the predicate `Accepted` on the pools, which TLC
  evaluates for each.
* `Multicall` is the codec of `multicall.rs` cell by cell (a word has `W` cells
  instead of 32 bytes), next to a model of the Multicall3 contract that reads the
  calldata by the rules of the ABI: neither takes the other's word for an offset.
* `LiveCheck` is `main` of the integration check: `Start`, three batches of
  `Send` and `Decode`, and `SizePair` and `Size3Pool`. The node answers each
  request as of any block, fails, or gives nothing that can be read; every
  `expect`, `assert` and overflow is the phase `panicked`: `Normalizes` says which
  amounts and decimals `normalize` can divide, the decimals cast to 32 bits.
* `Regimes` has the formulas that need no iteration: `Pmm`'s two regimes, its
  pole, and the six of `DodoPmm`. `Quotes` is `quote` of five curves with one
  step per round of a Newton iteration (`Round`, with the test that ends it,
  `Close`, and the end by exhaustion, `GiveUp`), and `Pmm`'s `search_upper_bound`
  (`DoubleBound`) and `check_unimodality` (`Check`, after the loop `Sampled`). Numbers are integers with
  truncating division, so that rounding is there to be seen.

A definition preceded by `(* Mutant: ... *)` is a variant with a plausible bug.
No specification uses it; each shows that a property is able to fail.

## 3. What the runs show

| Run | Configuration | Shows |
|---|---|---|
| `locks` | 2 threads, 2 calls each, 6 headers, numbers 0..3 with 3 the largest u64, 1 pool | linearizability (`Linearizable`), `GuardsMatchCode`, the lock protocol, `NumberNeverRegresses`, `FrozenAfterPanic`, and that every call ends (`CallsEnd`) |
| `watch` | chains g-a1-a2-a3-a4 and g-a1-b2-b3, 1 frame on the wire, 2 polling rounds | `SynchronizedRun`, `LabelsNeverRegress`, `AtMostOneLateBatch`, `ShutdownCompletes` |
| `watch_stale` | same | violated: opportunities are sized while the cache is `Stale` |
| `engine` | 9 configurations of 0 to 3 pools and routes, 5 contents of a pool, 2 blocks, 2 updates by other threads, 10 the largest Decimal | `MatchesInstant`, `LabelIsOldestLeg`, `PanicKeepsEarlier` |
| `portfolio` | 0 to 2 opportunities, 70 concave pools of 4 units, budgets 1, 3, 5 | `BracketHolds`, `BestUseOfCapital`, `BudgetUpToRounding`, `ShadowPriceSettled` |
| `golden_section` | 13 pools of two slopes with capacities 0, 8, 28 and 104, alone and in routes, 3 limits, 5 searchers | `ValuesAreCurrent`, `PeakKept`, `NearBest`, `MeetsContract` |
| `golden_section_route` | same | violated: a profitable route ends in an error |
| `slope_search` | 31 concave, S-shaped and partly unfillable curves, 4 prices, fixed cost 0 or 5, 4 limits, steps 0 to 5, 3 searchers | `BracketHolds`, `NearRoot`, `MeetsContract`, `SearchEnds` |
| `tick_walk` | pools of 1 to 3 ranges, books of 3 bins of 4 kinds in any order, 4 prices, fixed cost 0 or 5, 4 limits | `QuoteFollowsPrices`, `SizeIsBest`, `MeetsContract` |
| `quotes` | pools of five curves, balanced and not, of two and three assets, DODO pools short of either token, 6 sizes | `QuoteIsExact`, `Descends`, `NeverDrains`, `NoPathPays`, `IntervalIsSound` |
| `quotes_cycle` | CryptoSwap pools with reserves 1000 and 1500, 100 rounds as in the code | violated: an iteration that went round in a circle is answered as a quote |
| `live_check` | 4 chains of 2 blocks, words of 4 cells, right, wrong and missing contracts | `SizesOneBlock`, `HealthyRunDecodes`, `RunEnds` |

`watch`, `portfolio`, `tick_walk` and `engine` also check their type invariant.

Why the bounds are enough:

* *locks*: two threads are enough for every pair of calls to interleave at
  every step, and two calls each let one thread return and call again while the
  other is inside; 3 as the largest u64 makes overflow one step away from
  normal operation; the six headers contain a successor, a fork, a gap, a
  repeat, number 0 and an empty hash.
* *watch*: two branches that fork at height 1 and differ in length give
  reorganisations to a lower, the same and a higher number; one frame in
  flight, plus the end of the stream, is all that `main` can tell apart because
  it reads frame by frame and never looks ahead; the polling counter starts
  inside the range of real heights, so that both of its relations to the
  recorded head occur.
* *engine*: the configurations have every curve that `build_leg` knows and one
  it does not, parameters that the constructors refuse, one identifier in both
  directions, an index beyond the reserves, a route through one pool twice, and
  routes with a pool that is not configured; two blocks and two updates are
  enough to make the legs of a route differ in age in either order, and the
  contents have too few reserves, reserves of three assets, a price of zero and
  the largest price; the largest Decimal is small enough for products of reserves,
  prices and sums of weights to exceed it.
* *portfolio*: two opportunities are enough for them to compete for capital;
  linear stretches and a fixed cost give the jumps of demand; `MaxDoublings =
  2` and `MaxBisections = 4` let both loops end by their condition and by
  exhaustion. The first upper end, 36, is not a multiple of 2^4, so that middles
  are rounded from the third on, to either neighbour (`Rounding = 1`).
* *golden_section*: slopes of 5 and 1 around the price give a peak anywhere
  from the first unit to beyond the interval; capacities of 8 and 28 put
  infeasible sizes beyond the first, and between the later, inner points;
  limits of 0, one and three units of the interval cut it to nothing, in half
  and not at all.
* *slope_search*: a tolerance of a quarter and starting ends of 1, 2 and 5 let
  the bracket double up to three times, be halved up to three times, and get
  stuck at a width of one; 6 iterations are too few for some brackets of
  `StableSwap` and enough for others; roots lie below the first step, between
  the ends and beyond the last doubling; capacities of 9 and 40 and sizes
  without a quote make each quote of the search fail.
* *tick_walk*: two ranges are enough to touch, to overlap and to leave a gap,
  the third puts a boundary on both sides of a range; liquidities of 1 and 3
  let it rise and fall; the current price is inside a range, on a boundary and
  at the top; the reference prices lie below all pieces, inside a range and on
  a boundary, and 0 is what `optimal_size` refuses; quotes of 4, 7 and 30 end
  inside, on and beyond boundaries. The errors of rounding, up to one unit per
  boundary, include the sum that exceeds what the ranges hold, which `quote`
  then refuses: there `optimal_size` ends with `InvalidReserves`, and
  `SizeIsBest` still holds because it speaks of the size tried. `SizeIsBest`
  and `MeetsContract` leave out books that are not sorted by price (the field's
  comment in `dlmm.rs` asks for sorted bins, docs/GEO_QA.md:95 says that they
  are sorted, `new` does not look).
* *quotes*: one is 1000 units, so a division may lose a thousandth; `Noise`,
  three units, is what the roundings of one formula add up to, and `Slack`,
  six, adds what the tolerance of a hundredth costs; 12 rounds are enough for
  every pool whose iteration comes down to a root, and few enough that the
  others use them up; three doublings end both by the pole and by their count;
  ten sample points put at least one on either side of the place where `Pmm`
  changes its regime.
* *live_check*: one word tells the cells of a number, of an offset and of an
  address apart; with two blocks every batch may be answered from another one;
  one chain has an empty pair, one numbers beyond a u128, one amounts beyond a
  Decimal; two batches of the pair and one of 3pool are all that the program sends.

## 4. Fairness

* `PoolCacheLocks`: weak fairness of each thread's own steps (`Proceed(t)`).
  The operating system runs a thread that can run; nothing is assumed about who
  gets a contended lock (no strong fairness) nor that anybody calls.
* `Watch`: weak fairness of `Main`, the steps in which `main` does not wait for
  the network: tokio polls a task that is ready and its 500 ms timers fire.
  Neither the node nor the user has to do anything. `connect_async` (98) and the
  two sends, of the subscription (106) and of a pong inside the arm of `select!`
  that won (129), have no timeout and nothing else is polled meanwhile: they have
  no fairness and may take for ever. `ShutdownCompletes` therefore has a premise,
  that `main` is outside of these three again and again; what it shows is that
  nothing else, the read of the websocket in particular, holds the shutdown up.
* `SlopeSearch`: weak fairness of `Search`: a sequential function runs until it
  returns. `SearchEnds` leaves out an optimum below a million smallest steps of
  Decimal, where `bisection_fallback`, which counts no rounds, goes on for ever.
* `LiveCheck`: weak fairness of `Program`, and of `Node`: the blocking client of
  reqwest, which it uses with its defaults, gives up a request after 30 seconds,
  so every request is answered or failed. Which of the two happens is open.
* `Portfolio` is sequential code without a wait and has weak fairness of `Next`,
  on which no property rests. `GoldenSection`, `TickWalk`, `Engine` and `Quotes`
  state no fairness: their loops count down, or up to the last piece, and no
  liveness is claimed.

## 5. What is proved

TLAPS checks the following for every value of the constants; `tlapm` needs no
assumption beyond the named ASSUMEs of the modules (`HeadRuleAssumption`,
`CacheCallsAssumption`, `LocksAssumption`, `WatchAssumption`,
`EngineAssumption`, `PortfolioAssumption`, `MarketAssumption`,
`GoldenAssumption`, `NewtonAssumption`, `SlopeAssumption`, `TickAssumption`,
`MulticallAssumption`, `LiveAssumption`), which TLC evaluates in the runs of their modules.

`Induction` has what the others need of recursive functions and of sums: that a
function defined by recursion over the natural numbers exists and has its
equations (`Recursion`), powers of two (`TwoToRec`, `TwoToGrows`), and that
`SumFunctionOnSet` over a finite set is monotone, additive and linear
(`SumMonotone`, `SumPlus`, `SumTimes`, `SumConstant`). The library's induction
rules take an operator as a parameter, which no installed prover can instantiate;
`NatSet` and `FiniteInduction` are the same rules for a set of numbers and a set of
sets, derived from the well-foundedness of `<`.

`CacheProofs` extends both users of the cache, the locked methods and the daemon
(which is why the daemon's formulas are called `WatchInit`, `WatchSpec` and so
on). It begins with the facts about `handle_new_head` that both rest on: the
successor does not wrap below the largest u64, a head that is taken never lowers
the number, one that is accepted continues the record.

Of `PoolCacheLocks`, for any number of threads, calls, heads and pools:

* `Correctness`: `TypeOK` and `LockProtocol` always hold. `LockProtocol` is the
  inductive invariant: `GuardsMatchCode` ties the holders of the locks to each
  thread's place in the code (no two threads can be between the same lock and
  its drop); `CallMatchesCode` ties the request and phase of a call to that
  place; `TornAsWritten` says which of the three fields a writing thread has
  assigned so far; `PanicSeals` says that after a panic every lock of the
  tracker is poisoned or held by the thread that is unwinding. None of the
  properties below is inductive without them.
* `Exclusion` (`GuardsMatchCode`), `NumberTheorem` (`NumberNeverRegresses`),
  `PanicFreezesTracker` (`FrozenAfterPanic`).
* `Refinement`: `Spec => Linearizable`. The last assignment of
  `handle_new_head`, the verdict `ignore`, the insertion and the read are the
  steps that map to `TakeEffect`; the first panic maps to `Panic`; all others
  stutter.

Of `Watch`, for any tree of blocks, any announcements of it and ctrl-c at any
moment:

* `CacheFollowsChain`: `WatchSpec => []SynchronizedRun`. The invariant drops the
  condition on the status: the run since the last break is consecutive and ends
  in the recorded head also while the cache is stale, without which the head that
  ends the staleness could not be joined to it. `Announced` says what may be on
  the wire: headers whose parent is true or missing, and numbers below the
  largest u64.
* `LabelsAdvance`: `WatchSpec => LabelsNeverRegress`; `OneLateBatch`:
  `AtMostOneLateBatch`, for which the invariant says at which places of `main` no
  batch can have been evaluated since ctrl-c; `TypesHold`, which needs
  `QuietBefore`: nothing comes in before the websocket is open.

`EngineProofs`, for any configuration, any writers and any results of sizing:

* `LabelsAreOldest`: `Spec => []LabelIsOldestLeg`. The invariant counts: the legs
  collected are fewer than the turns taken, and only if every turn gave a leg is
  `min_block` the least block of the legs. A turn that counts a block without
  giving a leg breaks that for good, and `Whole` then refuses the route.
* `TypesHold`, with the fact that `find` returns an index of the pools.
* `PrintsAnInstant`: `Spec => []MatchesInstant`. `MatchesInstant` speaks of the end
  only; the invariant `EInv` says at every step that the events are those of the
  targets `Evaluated` so far. For the route at hand, `Collected` relates the legs
  to the cache as it is now: if each turn gave a leg, the leg of every untouched
  pool is still the one it would give; if not, some turn met a pool that, unless
  touched, would still give none. `WritersEase` carries all this over a writer's
  step: it touches a pool, after which less is asked of the events.
* `PanicLosesNothing`: `Spec => []PanicKeepsEarlier`, from the same invariant.
  Whichever constructor or sizing panics, the events of all earlier targets are
  out, and the panic has its cause in the target it stops at, unless a writer
  wrote to the target's pools meanwhile (`PanicMatches`).

`PortfolioProofs`, for any finite set of opportunities, any curves with finitely
many sizes and no output for nothing, any budget and limits of the loops:

* `CrossingKept`: `Spec => []BracketHolds`. No pool has to be concave, and that
  demand falls with lambda is not used. `TypesHold` needs that a position for
  every opportunity is kept from the first round to the scaling.
* `CapitalWellUsed`: `Spec => []BestUseOfCapital`, the Lagrangian argument: a
  position that is best at a price for capital is worth no less at that price than
  any other, and in the sum over the opportunities the capital cancels.
* `BudgetKept`: `Spec => []BudgetUpToRounding`. Demand falls as lambda rises
  (`DemandFalls`), so each scaled position is at most the pool's own optimum, and
  the roundings of the sum are one per position.
* `PriceSettled`: `Spec => []ShadowPriceSettled`. Its invariant, `Halved`, says
  that after n rounds the bracket is `2^n` times narrower than the first one but for
  less than `Rounding`: a rounded middle moves either half by no more than half of
  that, and the error of the bracket it comes from is halved as well
  (`MiddleHalves`). It needs that the first bracket is wider than
  `Rounding * 2^MaxBisections`, so that no bracket is empty: in the code 0.10 is
  10^27 steps of 10^-28, and `Rounding`, of sums below 13107.2 with 24 decimals, is
  at most 15,000 of them, times 2^48 less than 5 * 10^18. `LastRound` says what the
  bisection leaves. `SInv` is the conjunction, with `IInv` of `CrossingKept`.

`CurveProofs`, about `GoldenSection`, for any market, limit, depth and upper end:

* `ValuesStayCurrent` and `PeakIsKept`. The invariant `Inside` says that the
  parts of the interval are neighbouring Fibonacci multiples of the bound,
  without which the inner points might cross; `PeakBetween` is the heart of
  it: what a comparison of the two values says about where the peak is, for
  both ways to treat a tie.
* `SizeIsNearBest`: `Spec => []NearBest`. The invariant `NInv` adds that the bound
  is a power of two times the unit (`Doubled`), and that a doubling that stopped
  before its last round has passed the peak (`Covered`); hence the search begins
  around it, and `PeakKept` leaves it in the last interval.
* `SearchesKeepContract`: `Spec => MeetsContract`. It needs `Limited`, the part
  of the invariant that carries a `max_size` applied before the search to the
  answer given after it.

and about `Quotes` (whose formulas are called `QuoteInit`, `QuoteSpec` and so on, to stand
next to those of `GoldenSection`), for any pool and size, tolerance, cap on the rounds and on the
doublings, and number of sample points:

* `VelodromeIsExact`: `QuoteSpec => [](velodrome => ExactWithin(0, Shortfall))`, and with it
  `QuoteIsExact` wherever `Slack` is at least `Shortfall`: what `VelodromeStable` quotes
  is never more than the root of its cubic allows, and less by no more than two steps
  within the tolerance and three units. The invariant (`VelodromeOK` in `QuoteInv`) says
  that the iterate lies above the root and within the reserve. `NewtonStep` carries it
  over a round: a truncated Newton step `t` from above the root leaves the cubic where it
  is by `t * t * (3v - t)` above its tangent, so it does not cross the root, and the root
  lies at most `3 * (t + 1)` below where it started. The run, whose `Slack` is smaller,
  shows that on its pools the shortfall is smaller still.
* `VelodromeDescends`: the part of `Descends` about `VelodromeStable`, with no allowance
  for rounding.
* `VelodromeAndPmmNeverDrain`: `NeverDrains` for these two curves.
* `PmmIntervalIsSound`: `QuoteSpec => []Searchable`, which is `IntervalIsSound` but for
  `BalancedIsConfirmed`. The bound stays below the pole
  (`PmmOK`), below which every size can be filled (`PmmPays`); so no sample is left out
  (`SampledAll`), the second differences that `check_unimodality` looks at are those of
  neighbouring samples, and slopes that never rise leave no point below a chord
  (`AboveChords`).
* `OthersReportUnconverged`: the counterexample of `quotes_cycle` is one of CryptoSwap
  alone; for every other curve an iteration that does not converge is an error.

`SlopeSearchProofs`, for any curve, limit, step, resolution and iteration cap:

* `BracketKept`: `TypeOK` and `BracketHolds`. It is inductive together with
  `Underway`, which keeps the lower end at 0 until the bisection begins. No
  concavity is needed: the bracket keeps a change of sign whatever lies between.
* `SizeIsNearRoot`: `Spec => []NearRoot`. `NInv` adds how far the doublings have
  come (`Doubled`) and that the root is looked for within their reach (`InReach`);
  on a concave curve a change of sign between the ends of the bracket has the root
  between them.
* `SlopesKeepContract`: `Spec => MeetsContract`. Left out of what the contract sees
  (`Denies`) are `StableSwap`'s refusal of an arbitrage smaller than its step and
  Balancer's of one smaller than the precision of its power.

`TickWalkProofs`, for any ranges and bins that the constructors accept, any price,
limit, amount, and any rounding by at most one unit per boundary:

* `QuoteFollows`: `Spec => []QuoteFollowsPrices`, `WalkIsBest`: `SizeIsBest`,
  `WalkKeepsContract`: `Spec => MeetsContract`, `WalkTypes`: `TypeOK`.
* A pool is flattened into `Rungs`, one per price of a range or per bin. `Taken`,
  what the first rungs sell, never falls and is concave where the prices fall, so
  that the gain over a reference price rises up to the rung that divides those
  worth more from the rest. `Held` is what lies above a boundary of a walk.
* The inductive invariant `WInv` has one part per loop: `Sizing` says that the
  pieces passed were worth taking and that `sum` is off from `Held` by at most one
  unit per boundary crossed, `Quoting` that `out` and `rest` are what is sold above
  the boundary and what is not; `Tried`, `NotTried` and `Answered` carry it to the
  answer. `AtBoundary` ties `p` to the piece `k`: `k` begins at or below `p`, and
  every range between it and the active one at or above, so that `k` is the one
  that sells below `p` across gaps and overlaps.

`LiveCheckProofs`, for any chain and contracts, any even width of a word, and a node
that answers each request from any block or fails:

* `CallsRoundTrip` and `AnswersRoundTrip` are about the codec alone: what
  `encode_aggregate3` writes of any list of calls the contract reads as those calls,
  and what the contract writes of any answers `decode_aggregate3_result` reads as
  those answers, whatever the lengths of the data. Both rest on `Lies`, that a
  sequence lies in another at an offset, and on `ArrayRead`, that the running offsets
  of the encoder lead to the elements; the offsets are defined by recursion, and
  `Flat` and `RunningOffsets` give the recursion its equations.
* `AlwaysSizesOneBlock`: `Spec => []SizesOneBlock`. The invariant `LiveInv` says what
  is held at each place (`HeldOK`), that the request on its way asks for the batch at
  hand (`RequestOK`), and that an answer is a failure, nothing, a revert, or all that
  one block tells (`ReplyOK`). The blocks of two batches may differ: the second
  brings only decimals, which no block changes.
* `AlwaysDecodes`: `Spec => []HealthyRunDecodes`.

What the assumptions ask of the parameters is what the code has: finitely many
sizes of an opportunity (Decimals up to `max_size`), no output for no input, an
upper end that is reached by doubling and so a power of two (`MaxBound`).
`Surplus`, how far the table of what a book quotes goes on beyond what it holds,
is a bound of the model, and is at least the number of its pieces.

## 6. What is only model-checked

* `CallsEnd`, `ShutdownCompletes`, `SearchEnds` and `RunEnds`: liveness under
  fairness is out of TLAPS's reach.
* Of `Quotes`: `NoPathPays`, the part `BalancedIsConfirmed` of `IntervalIsSound`,
  and `QuoteIsExact`, `Descends` and `NeverDrains` for the curves that section 5
  does not name. They hold up to what truncating divisions add up to, and `Noise`
  and `Slack` are measured bounds on it, not derived ones: `StableSwap` divides
  once per asset within one round, and a function truncated in between is no longer
  convex, which Newton's method rests on; `DodoPmm`'s formulas agree only up to
  their roundings; and a rounded `Pmm` curve may bend upwards by a unit.

Liveness aside, every property that `locks`, `watch`, `engine`, `portfolio`,
`golden_section`, `slope_search`, `tick_walk` and `live_check` find to hold is also
proved.

## 7. What is not modelled

Left out because there is nothing in it for a model checker: gas and slippage
(products of their arguments after range checks), the backtest (one pass over
sorted records, whose arithmetic is that of the curves), the CLI, the Python and
WebAssembly bindings (conversion of arguments), and the benchmarks.

Left out because it is out of reach: the real exponents of
`BalancerWeightedPool` (`checked_powd`), and Decimal's 28 digits. Sizes and
values are integers, and where rounding matters (`Portfolio`'s scaling, the sums
of `TickWalk`, the middles of `SlopeSearch`, the divisions of `Quotes`) it is
modelled on them.

Decimal's operators panic on overflow. `Engine` and `LiveCheck` have these panics,
wherever the constructors and the sizing may meet them; `Portfolio`,
`GoldenSection`, `SlopeSearch`, `TickWalk` and `Quotes` speak of markets whose
intermediate results a Decimal holds, and `Watch` of evaluations that return: a
panic there ends the daemon's task, with what `PanicKeepsEarlier` says printed.

Left out so far: `Cpmm::quote_adverse` (a quote of displaced reserves);
`main.rs:47`, where any error in reading the configuration file, a malformed
file as well as a missing one, overwrites it by the default; the marginal test of
`dodo_pmm.rs:235`, which asks at a thousandth of a token whatever the size of the
pool. `Engine` and `Watch` are not composed: in the daemon the evaluation holds
the only task, so that nothing writes the cache meanwhile.

## 8. Disagreements between the documents and the code

Three are runs whose property TLC finds violated; the comment above the property
quotes the text.

* `SizedOnlyWhenSynchronized` (docs/STREAMING_SPEC.md:93, docs/ERRORS.md:82):
  nothing between a header and the evaluation asks for the sync status.
* `RouteFindsProfit` (docs/ROUTING_SPEC.md:63): two infeasible inner points tie
  and the search moves to larger sizes.
* `UnconvergedIsError` (docs/ERRORS.md:44): CryptoSwap's `compute_d` and `solve_y`
  answer with the last iterate when their rounds are used up, of which there are
  100 and not 255, and the iteration may go to and fro between two values.

The others have no run:

* docs/STREAMING_SPEC.md:90-91 wants every reorganisation to mark the cache
  stale; hashes are compared for the next number only, so one to the same or a
  lower height goes unnoticed until the new branch is longer (cache.rs:84-104).
* docs/GEO_QA.md:132 calls the allocation Pareto-efficient; what the bisection
  tried last may leave budget unused that would earn more (lib.rs:167-185).
* The comment at lib.rs:41 calls `expected_profit` that of the position; it is at
  the price with lambda, and of the size before scaling (lib.rs:93-100, 188-196).
* docs/ARCHITECTURE.md:122 and 157 speak of initialised ranges; ranges may leave
  a gap, and a quote that reaches it takes the liquidity of the next range
  (concentrated_liquidity.rs:237).
* docs/ERRORS.md:81 asks for reconnection, and docs/STREAMING_SPEC.md:92 and
  docs/ERRORS.md:83 for fresh reserves after a gap or a reorganisation; the
  websocket loop is left for good, and neither loop calls `update_pool`
  (main.rs:108-164).
* docs/GEO_QA.md:132 promises exact budget feasibility; the scaled sizes may add
  up to more by the rounding that `BudgetUpToRounding` bounds.
* docs/ERRORS.md:66 names the marginal price at size zero; `StableSwap` judges the
  first unit by the average price of a thousandth of `reserves[0]` (`Denies`).
* A configured direction is used for cpmm, balancer and cryptoswap only: a
  stableswap, pmm, dodo or clmm pool is sized from its first token to its second,
  whatever the configuration says (engine.rs:78-138; `Direction`).
* docs/CURVES_SPEC.md:114 says that DODO's unimodality is sampled; `DodoPmm`
  always reports it as confirmed. Its quotes have no cap at the reserve either.
* docs/whitepaper.md:166 and docs/API.md:266 give Pmm's upper bound as
  `min(1000 x base_reserve, 0.999 x pole)`; `search_upper_bound` doubles instead.
