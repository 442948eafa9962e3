------------------------------- MODULE Watch --------------------------------
(***************************************************************************)
(* The sizing-watch daemon: main of crates/sizing-watch/src/main.rs, the   *)
(* node it listens to and the user's ctrl-c.  One tokio task runs the      *)
(* websocket loop and then the polling loop; a second one waits for ctrl-c *)
(* and clears the running flag.  The cache is used by the first task only, *)
(* so its calls are the indivisible ones of HeadRule.                      *)
(*                                                                         *)
(* No step here writes a pool state: main calls update_pool only while it  *)
(* starts, with block 1, and neither loop calls it again.                  *)
(***************************************************************************)
EXTENDS HeadRule, Sequences

CONSTANTS
    Blocks,       (* the blocks the node may come to know, by their hash *)
    Height,       (* the number of each block *)
    Parent,       (* the parent hash of each block *)
    Genesis,      (* the parent of the blocks the model starts from *)
    PollStart,    (* the number the polling loop counts from: 20_000_000 *)
    MaxPolls,     (* bound: rounds of the polling loop *)
    MaxWire       (* bound: frames sent and not yet read *)

(* The polling loop's invented hashes. *)
MockHash(n) == <<"mock", n>>

ASSUME WatchAssumption ==
    /\ Height \in [Blocks -> 1 .. MaxU64 - 1]
    /\ Parent \in [Blocks -> Blocks \cup {Genesis}]
    /\ PollStart \in Nat \ {0} /\ MaxPolls \in Nat /\ PollStart + MaxPolls < MaxU64
    /\ MaxWire \in Nat
    /\ Blocks \cup {Genesis} \subseteq Hashes
    /\ \A n \in PollStart - 1 .. PollStart + MaxPolls : MockHash(n) \in Hashes \ Blocks

VARIABLES
    mockMode,     (* --mock-mode *)
    wsUrl,        (* ws_rpc_url starts with ws:// or wss:// *)
    place,        (* where main is *)
    running,      (* the flag that ctrl-c clears *)
    tracker,      (* the cache's record of the last head *)
    block,        (* the polling loop's counter *)
    wire,         (* frames sent by the node that main has not read *)
    open,         (* the websocket is connected and subscribed *)
    canon,        (* the node's current head *)
    late,         (* history: evaluations since ctrl-c *)
    run           (* history: the heads taken since the last break *)

args == <<mockMode, wsUrl>>
cache == <<tracker, run>>
node == <<wire, open, canon>>
watchvars == <<args, place, running, cache, block, node, late>>

(* Awaits of the network outside of select!: connect_async, and the two     *)
(* calls of ws_stream.send.  None has a timeout, and nothing else is polled *)
(* meanwhile.                                                               *)
NetworkWaits == {"connecting", "subscribing", "ponging"}

(* Where main holds the websocket. *)
Streaming == {"subscribing", "loop", "select", "ponging", "ws_sizing"}

Places == {"start", "connecting", "poll", "poll_sizing", "sleep", "mock_sizing", "exited"}
          \cup Streaming

MockHead(n) == [number |-> n, hash |-> MockHash(n), parent |-> MockHash(n - 1)]

(* What main makes of a header notification: a number that does not parse *)
(* becomes 0, a hash or a parent hash that is not there the empty string. *)
Readings(b) ==
    LET h == [number |-> Height[b], hash |-> b, parent |-> Parent[b]] IN
    {h, [h EXCEPT !.number = 0], [h EXCEPT !.hash = NoHash], [h EXCEPT !.parent = NoHash]}

(* Frames: a newHeads notification, a ping, one that main reads and drops   *)
(* (a reply, text without params.result.number), a read error, and the end  *)
(* of the stream.                                                           *)
HeadFrame(h) == [kind |-> "head", head |-> h]
Frame(k) == [kind |-> k]

WatchInit ==
    /\ mockMode \in BOOLEAN /\ wsUrl \in BOOLEAN
    /\ place = "start"
    /\ running = TRUE
    /\ tracker = NewTracker /\ run = <<>>
    /\ block = PollStart
    /\ wire = <<>> /\ open = FALSE /\ canon = Genesis
    /\ late = 0

-----------------------------------------------------------------------------
(* The node and the user.                                                  *)

Ancestors[b \in Blocks \cup {Genesis}] ==
    {b} \cup (IF b = Genesis THEN {} ELSE Ancestors[Parent[b]])

Send(f) == wire' = Append(wire, f)

(* The node's head moves to a child of its head or, in a reorganisation, to *)
(* a child of an earlier block, and goes on from there block by block.  The *)
(* new head is announced, perhaps with a field missing, or is not.  What it *)
(* does when main has stopped listening for good no longer matters.         *)
NewBlock(b) ==
    /\ place \in {"connecting"} \cup Streaming
    /\ b \notin Ancestors[canon] /\ Parent[b] \in Ancestors[canon]
    /\ canon' = b
    /\ \/ /\ open /\ Len(wire) < MaxWire
          /\ \E h \in Readings(b) : Send(HeadFrame(h))
       \/ UNCHANGED wire
    /\ UNCHANGED <<args, place, running, cache, block, open, late>>

OtherFrame ==
    /\ open /\ Len(wire) < MaxWire
    /\ \E k \in {"ping", "other"} : Send(Frame(k))
    /\ UNCHANGED <<args, place, running, cache, block, open, canon, late>>

Disconnect ==
    /\ open
    /\ open' = FALSE
    /\ \E k \in {"error", "closed"} : Send(Frame(k))
    /\ UNCHANGED <<args, place, running, cache, block, canon, late>>

CtrlC ==
    /\ running /\ place # "exited"
    /\ running' = FALSE
    /\ UNCHANGED <<args, place, cache, block, node, late>>

-----------------------------------------------------------------------------
(* main.                                                                   *)

Go(here, there) == place = here /\ place' = there

(* A step that only moves main on. *)
Move(here, there) ==
    /\ Go(here, there)
    /\ UNCHANGED <<args, running, cache, block, node, late>>

Start ==
    Move("start", IF mockMode THEN "mock_sizing" ELSE IF wsUrl THEN "connecting" ELSE "poll")

(* The node hears of the subscription while main still waits for the send, *)
(* or afterwards, or, if the send fails, never: then it stays silent.       *)
Connected ==
    /\ Go("connecting", "subscribing")
    /\ open' = TRUE
    /\ UNCHANGED <<args, running, cache, block, wire, canon, late>>

ConnectFails == Move("connecting", "poll")

(* The two sends return; both results are ignored. *)
Subscribed == Move("subscribing", "loop")

Ponged == Move("ponging", "loop")

(* Mutant: the loop is continued where the code breaks out of it. *)
ContinueLoop(here) ==
    /\ Go(here, "loop")
    /\ wire' = <<>> /\ open' = FALSE
    /\ UNCHANGED <<args, running, cache, block, canon, late>>

LeaveLoop(here) ==
    /\ Go(here, "poll")
    /\ wire' = <<>> /\ open' = FALSE
    /\ UNCHANGED <<args, running, cache, block, canon, late>>

(* Mutant: the websocket loop does not look at the flag. *)
LoopForever == Move("loop", "select")

(* while running.load(..) *)
LoopTest == IF running THEN Move("loop", "select") ELSE LeaveLoop("loop")

(* handle_new_head; both its callers ignore the result. *)
TakeHead(h) ==
    /\ tracker' = AfterHead(tracker, h)
    /\ run' = CASE Verdict(tracker, h) = "ignore" -> run
                [] Verdict(tracker, h) = "break" \/ Uninitialised(tracker) -> <<h>>
                [] OTHER -> Append(run, h)

(* select!, the arm of the stream: it handles one frame. *)
Receive ==
    /\ wire # <<>>
    /\ LET f == Head(wire) IN
       \/ /\ f.kind = "head"
          /\ Go("select", "ws_sizing")
          /\ TakeHead(f.head)
          /\ wire' = Tail(wire)
          /\ UNCHANGED <<args, running, block, open, canon, late>>
       \/ /\ f.kind \in {"ping", "other"}
          /\ Go("select", IF f.kind = "ping" THEN "ponging" ELSE "loop")
          /\ wire' = Tail(wire)
          /\ UNCHANGED <<args, running, cache, block, open, canon, late>>
       \/ f.kind \in {"error", "closed"} /\ LeaveLoop("select")

(* select!, the arm of the 500 ms timer. *)
Timer == IF running THEN Move("select", "loop") ELSE LeaveLoop("select")

(* evaluate_opportunities, which never gives up the task: it asks the cache *)
(* for the last block, and not for its status.                              *)
Evaluate(here, there) ==
    /\ Go(here, there)
    /\ late' = IF running THEN 0 ELSE late + 1
    /\ UNCHANGED <<args, running, cache, block, node>>

(* Mutant: mock mode does not return after its one batch. *)
MockGoesOn == Evaluate("mock_sizing", IF wsUrl THEN "connecting" ELSE "poll")

MockSizing == Evaluate("mock_sizing", "exited")
WsSizing == Evaluate("ws_sizing", "loop")
PollSizing == Evaluate("poll_sizing", "sleep")

(* At the bound the counter stands still; the head it repeats is dropped. *)
Poll ==
    /\ running
    /\ Go("poll", "poll_sizing")
    /\ block' = IF block < PollStart + MaxPolls THEN block + 1 ELSE block
    /\ TakeHead(MockHead(block'))
    /\ UNCHANGED <<args, running, node, late>>

Sleep == Move("sleep", "poll")

Exit == ~running /\ Move("poll", "exited")

(* What main does without waiting for the network. *)
Main ==
    \/ Start \/ LoopTest \/ Receive \/ Timer
    \/ MockSizing \/ WsSizing \/ PollSizing \/ Poll \/ Sleep \/ Exit

Exited == place = "exited" /\ UNCHANGED watchvars

WatchNext ==
    \/ (\E b \in Blocks : NewBlock(b)) \/ OtherFrame \/ Disconnect \/ CtrlC
    \/ Connected \/ ConnectFails \/ Subscribed \/ Ponged \/ Main \/ Exited

(* The runtime keeps polling a task that is ready and the 500 ms timers     *)
(* fire.  Connecting and sending have no timeout and may take for ever, and *)
(* neither the node nor the user has to do anything.                        *)
WatchSpec == WatchInit /\ [][WatchNext]_watchvars /\ WF_watchvars(Main)

-----------------------------------------------------------------------------

(* Types; and that mock mode evaluates its one batch and neither connects   *)
(* nor takes a head, and that a websocket is held only on a ws url and      *)
(* until the loop is left (main.rs:82-88, 97-147).                          *)
WatchTypeOK ==
    /\ place \in Places
    /\ running \in BOOLEAN /\ open \in BOOLEAN
    /\ mockMode \in BOOLEAN /\ wsUrl \in BOOLEAN
    /\ tracker \in Tracker
    /\ block \in PollStart .. PollStart + MaxPolls
    /\ canon \in Blocks \cup {Genesis}
    /\ late \in Nat
    /\ Len(wire) <= MaxWire + 1
    /\ mockMode => place \in {"start", "mock_sizing", "exited"} /\ tracker = NewTracker
    /\ place \in Streaming => wsUrl
    /\ open => place \in Streaming

(* The parent a block really has, whoever announced it. *)
TrueParent(h) == IF h \in Blocks THEN Parent[h] ELSE MockHash(h[2] - 1)

(* While the cache says Synchronized, the heads it has taken since the last *)
(* break (gap, reorganisation, or restart from block number 0) are one run  *)
(* of consecutive numbers that follows the node's own chain, block by block,*)
(* through every reorganisation, lost or garbled announcement, and never    *)
(* goes from a real block to an invented one of the polling loop; only a    *)
(* header without a hash, which nothing can be compared with, hides a break *)
(* (cache.rs:76-105, main.rs:116-119, 150-156).                             *)
SynchronizedRun ==
    tracker.status = "Synchronized" =>
        /\ \A i \in 1 .. Len(run) - 1 :
              /\ run[i + 1].number = run[i].number + 1
              /\ NoHash \notin {run[i].hash, run[i + 1].hash} =>
                    TrueParent(run[i + 1].hash) = run[i].hash
        /\ run # <<>> => tracker.hash = run[Len(run)].hash

(* The block number that events are labelled with never goes back: not in a *)
(* reorganisation, nor when a number cannot be parsed, nor when the polling *)
(* loop takes over with numbers of its own (cache.rs:76-105, main.rs:116,   *)
(* 150-156).                                                                *)
LabelsNeverRegress == [][tracker'.number >= tracker.number]_tracker

(* After ctrl-c at most one more batch of opportunities is evaluated, in    *)
(* whatever loop and at whatever await the flag is cleared                  *)
(* (main.rs:108-164).                                                       *)
AtMostOneLateBatch == late <= 1

(* ctrl-c ends the daemon, wherever it is, with the node silent, talking or *)
(* gone, provided that none of the three awaits that are not raced with the *)
(* timer lasts for ever: connecting, subscribing and answering a ping, which *)
(* have no timeout (main.rs:64-68, 98, 106-108, 128-130, 139-143, 151).     *)
ShutdownCompletes ==
    []<>(place \notin NetworkWaits) => (~running ~> place = "exited")

-----------------------------------------------------------------------------

(* docs/STREAMING_SPEC.md:90-93: on a gap or a reorganisation, mark the     *)
(* cache stale and resume sizing once synchronized.  evaluate_opportunities *)
(* never asks for the status (engine.rs:162-282).                           *)
SizedOnlyWhenSynchronized ==
    place \in {"ws_sizing", "poll_sizing"} => tracker.status = "Synchronized"

=============================================================================
