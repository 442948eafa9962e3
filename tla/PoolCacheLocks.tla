--------------------------- MODULE PoolCacheLocks ---------------------------
(***************************************************************************)
(* PoolCache as the code builds it: four values, each behind a RwLock of   *)
(* its own, used by several threads.  handle_new_head takes three of the   *)
(* locks one after the other, writes their values in an order that depends *)
(* on the branch, and drops the guards in the reverse of the order it took *)
(* them.  A step of this module is one lock operation or one assignment.   *)
(*                                                                         *)
(* std's RwLock: a guard dropped while its thread panics poisons the lock; *)
(* taking a poisoned lock gives an error that the code unwraps, so the     *)
(* caller panics too, dropping what it holds.                              *)
(***************************************************************************)
EXTENDS CacheCalls

CONSTANTS
    NoThread,   (* the holder of a lock nobody writes under *)
    MaxCalls    (* bound: calls each thread makes *)

ASSUME LocksAssumption == NoThread \notin Threads /\ MaxCalls \in Nat

VARIABLES
    number, hash, status,   (* last_block_number, last_block_hash, status *)
    states,                 (* the map from pool_id to PoolState *)
    writer,                 (* the thread that holds each lock for writing *)
    poisoned,               (* the locks that are poisoned *)
    pc,                     (* the next step of each thread *)
    verdict, step,          (* handle_new_head's branch, and its next write *)
    phase, req, ret,        (* each thread's call, as in PoolCache *)
    left,                   (* the calls each thread may still make *)
    checked,                (* whether the build checks integer overflow *)
    before                  (* history: the tracker when the last writes began *)

data == <<number, hash, status, states>>
calls == <<phase, req, ret>>
vars == <<data, writer, poisoned, pc, verdict, step, calls, left, checked, before>>

HeadLocks == {"number", "hash", "status"}
Locks == HeadLocks \cup {"states"}

Steps == {"idle", "lock_number", "lock_hash", "lock_status", "match", "write",
          "drop_status", "drop_hash", "drop_number",
          "lock_states", "insert", "read", "return", "panicked"}

Now == [number |-> number, hash |-> hash, status |-> status]

Init ==
    /\ number = 0 /\ hash = NoHash /\ status = "Synchronized"
    /\ states = [p \in Pools |-> Absent]
    /\ writer = [l \in Locks |-> NoThread]
    /\ poisoned = {}
    /\ pc = [t \in Threads |-> "idle"]
    /\ verdict = [t \in Threads |-> "ignore"]
    /\ step = [t \in Threads |-> 1]
    /\ phase = [t \in Threads |-> "idle"]
    /\ req = [t \in Threads |-> NoRequest]
    /\ ret = [t \in Threads |-> Absent]
    /\ left = [t \in Threads |-> MaxCalls]
    /\ checked \in BOOLEAN
    /\ before = NewTracker

Goto(t, p) == pc' = [pc EXCEPT ![t] = p]

Finish(t, v) ==
    /\ phase' = [phase EXCEPT ![t] = "done"]
    /\ ret' = [ret EXCEPT ![t] = v]
    /\ UNCHANGED req

Unwind(t) ==
    /\ phase' = [phase EXCEPT ![t] = "panicked"]
    /\ UNCHANGED <<req, ret>>

FirstStep(r) ==
    IF r.op = "handle_new_head" THEN "lock_number"
    ELSE IF r.op = "update_pool" THEN "lock_states"
    ELSE "read"

Invoke(t) ==
    /\ pc[t] = "idle"
    /\ left[t] > 0
    /\ left' = [left EXCEPT ![t] = @ - 1]
    /\ phase' = [phase EXCEPT ![t] = "pending"]
    /\ \E r \in Requests : req' = [req EXCEPT ![t] = r] /\ Goto(t, FirstStep(r))
    /\ UNCHANGED <<data, writer, poisoned, verdict, step, ret, checked, before>>

-----------------------------------------------------------------------------

(* `lock.write().unwrap()`: waits for the lock; on a poisoned one the      *)
(* thread unwinds, starting at step bail with the guards it already holds. *)
Lock(t, l, here, next, bail) ==
    /\ pc[t] = here
    /\ writer[l] = NoThread
    /\ IF l \in poisoned
       THEN Unwind(t) /\ Goto(t, bail) /\ UNCHANGED writer
       ELSE /\ writer' = [writer EXCEPT ![l] = t]
            /\ Goto(t, next)
            /\ UNCHANGED calls
    /\ UNCHANGED <<data, poisoned, verdict, step, left, checked, before>>

(* Mutant: handle_new_head does not lock the status. *)
LockStatusForgotten(t) ==
    /\ pc[t] = "lock_status"
    /\ Goto(t, "match")
    /\ UNCHANGED <<data, writer, poisoned, verdict, step, calls, left, checked, before>>

LockNumber(t) == Lock(t, "number", "lock_number", "lock_hash", "panicked")
LockHash(t) == Lock(t, "hash", "lock_hash", "lock_status", "drop_number")
LockStatus(t) == Lock(t, "status", "lock_status", "match", "drop_hash")

(* Mutant: the branch that ignores a head forgets the guard of the status. *)
MatchLeaking(t) ==
    /\ pc[t] = "match"
    /\ LET v == Verdict(Now, req[t].head) IN
       /\ verdict' = [verdict EXCEPT ![t] = v]
       /\ step' = [step EXCEPT ![t] = 1]
       /\ before' = Now
       /\ IF v = "ignore"
          THEN Finish(t, FALSE) /\ Goto(t, "drop_hash")
          ELSE Goto(t, "write") /\ UNCHANGED calls
    /\ UNCHANGED <<data, writer, poisoned, left, checked>>

(* Mutant: the status is set to Stale before the number is compared. *)
MatchStaleFirst(t) ==
    /\ pc[t] = "match"
    /\ status' = "Stale"
    /\ IF checked /\ Overflows(Now)
       THEN Unwind(t) /\ Goto(t, "drop_status") /\ UNCHANGED <<verdict, step, before>>
       ELSE /\ verdict' = [verdict EXCEPT ![t] = Verdict(Now, req[t].head)]
            /\ step' = [step EXCEPT ![t] = 1]
            /\ before' = Now
            /\ Goto(t, "write") /\ UNCHANGED calls
    /\ UNCHANGED <<number, hash, states, writer, poisoned, left, checked>>

(* The conditions of handle_new_head, evaluated under the three locks. *)
Match(t) ==
    /\ pc[t] = "match"
    /\ IF checked /\ Overflows(Now)
       THEN Unwind(t) /\ Goto(t, "drop_status") /\ UNCHANGED <<verdict, step, before>>
       ELSE LET v == Verdict(Now, req[t].head) IN
            /\ verdict' = [verdict EXCEPT ![t] = v]
            /\ step' = [step EXCEPT ![t] = 1]
            /\ before' = Now
            /\ IF v = "ignore"
               THEN Finish(t, FALSE) /\ Goto(t, "drop_status")
               ELSE Goto(t, "write") /\ UNCHANGED calls
    /\ UNCHANGED <<data, writer, poisoned, left, checked>>

(* The order of the three assignments in the two kinds of branch. *)
WriteOrder(v) ==
    IF v = "accept" THEN <<"number", "hash", "status">> ELSE <<"status", "number", "hash">>

Write(t) ==
    LET field == WriteOrder(verdict[t])[step[t]] IN
    /\ pc[t] = "write"
    /\ number' = IF field = "number" THEN req[t].head.number ELSE number
    /\ hash' = IF field = "hash" THEN req[t].head.hash ELSE hash
    /\ status' = IF field = "status" THEN StatusAfter(verdict[t]) ELSE status
    /\ IF step[t] < 3
       THEN step' = [step EXCEPT ![t] = @ + 1] /\ UNCHANGED <<pc, calls>>
       ELSE Finish(t, verdict[t] = "accept") /\ Goto(t, "drop_status") /\ UNCHANGED step
    /\ UNCHANGED <<states, writer, poisoned, verdict, left, checked, before>>

(* Mutant: an unwinding thread does not poison what it drops. *)
DropClean(t, l, here, next) ==
    /\ pc[t] = here
    /\ writer' = [writer EXCEPT ![l] = NoThread]
    /\ Goto(t, next)
    /\ UNCHANGED <<data, poisoned, verdict, step, calls, left, checked, before>>

(* The end of a guard's life; it poisons the lock when the thread unwinds. *)
Drop(t, l, here, next) ==
    /\ pc[t] = here
    /\ writer' = [writer EXCEPT ![l] = NoThread]
    /\ poisoned' = IF phase[t] = "panicked" THEN poisoned \cup {l} ELSE poisoned
    /\ Goto(t, next)
    /\ UNCHANGED <<data, verdict, step, calls, left, checked, before>>

DropStatus(t) == Drop(t, "status", "drop_status", "drop_hash")
DropHash(t) == Drop(t, "hash", "drop_hash", "drop_number")
DropNumber(t) ==
    Drop(t, "number", "drop_number", IF phase[t] = "panicked" THEN "panicked" ELSE "return")

-----------------------------------------------------------------------------

LockStates(t) == Lock(t, "states", "lock_states", "insert", "panicked")

(* map.insert, and the guard's end. *)
Insert(t) ==
    /\ pc[t] = "insert"
    /\ states' = [states EXCEPT ![req[t].pool] = req[t].state]
    /\ writer' = [writer EXCEPT !["states"] = NoThread]
    /\ Finish(t, Absent)
    /\ Goto(t, "return")
    /\ UNCHANGED <<number, hash, status, poisoned, verdict, step, left, checked, before>>

(* Mutant: sync_status is guarded by the lock of the pool states. *)
ReadLockMixedUp(r) == IF r.op = "latest_block" THEN "number" ELSE "states"

ReadLock(r) ==
    CASE r.op = "get_pool"     -> "states"
      [] r.op = "sync_status"  -> "status"
      [] r.op = "latest_block" -> "number"

(* get_pool, sync_status, latest_block: the read guard lives for one       *)
(* expression, so other readers do not matter and the read is one step.    *)
Read(t) ==
    LET l == ReadLock(req[t]) IN
    /\ pc[t] = "read"
    /\ writer[l] = NoThread
    /\ IF l \in poisoned
       THEN Unwind(t) /\ Goto(t, "panicked")
       ELSE Finish(t, Result(req[t], Now, states)) /\ Goto(t, "return")
    /\ UNCHANGED <<data, writer, poisoned, verdict, step, left, checked, before>>

Return(t) ==
    /\ pc[t] = "return"
    /\ Goto(t, "idle")
    /\ phase' = [phase EXCEPT ![t] = "idle"]
    /\ req' = [req EXCEPT ![t] = NoRequest]
    /\ ret' = [ret EXCEPT ![t] = Absent]
    /\ UNCHANGED <<data, writer, poisoned, verdict, step, left, checked, before>>

-----------------------------------------------------------------------------

(* What a thread inside a call does next. *)
Proceed(t) ==
    \/ LockNumber(t) \/ LockHash(t) \/ LockStatus(t) \/ Match(t) \/ Write(t)
    \/ DropStatus(t) \/ DropHash(t) \/ DropNumber(t)
    \/ LockStates(t) \/ Insert(t) \/ Read(t) \/ Return(t)

(* Every thread has made its calls, or died in one. *)
AllQuiet == \A t \in Threads : pc[t] = "panicked" \/ (pc[t] = "idle" /\ left[t] = 0)

Finished == AllQuiet /\ UNCHANGED vars

Next == (\E t \in Threads : Invoke(t) \/ Proceed(t)) \/ Finished

Spec == Init /\ [][Next]_vars

(* The operating system runs every thread that can run, and a lock that    *)
(* stays free is taken: no fairness between threads that compete for it.   *)
FairSpec == Spec /\ \A t \in Threads : WF_vars(Proceed(t))

-----------------------------------------------------------------------------

TypeOK ==
    /\ Now \in Tracker
    /\ states \in PoolStates
    /\ writer \in [Locks -> Threads \cup {NoThread}]
    /\ poisoned \subseteq Locks
    /\ pc \in [Threads -> Steps]
    /\ verdict \in [Threads -> {"accept", "break", "ignore"}]
    /\ step \in [Threads -> 1 .. 3]
    /\ phase \in [Threads -> Phases]
    /\ req \in [Threads -> Requests \cup {NoRequest}]
    /\ left \in [Threads -> 0 .. MaxCalls]
    /\ checked \in BOOLEAN
    /\ before \in Tracker

(* The guards a thread holds, by its next step. *)
HeldAt(p) ==
    CASE p \in {"lock_hash", "drop_number"}         -> {"number"}
      [] p \in {"lock_status", "drop_hash"}         -> {"number", "hash"}
      [] p \in {"match", "write", "drop_status"}    -> HeadLocks
      [] p = "insert"                               -> {"states"}
      [] OTHER                                      -> {}

(* Between the first and the last assignment of handle_new_head the tracker *)
(* is torn; callers must go on seeing the tracker as it was before.         *)
Writing == \E t \in Threads : pc[t] = "write"
TrackerView == IF Writing THEN before ELSE Now
SomePanicked == \E t \in Threads : phase[t] = "panicked"

Abstract == INSTANCE PoolCache WITH tracker <- TrackerView, broken <- SomePanicked

(* The four locks implement the atomic cache: every call returns what it   *)
(* would return had it run alone at one instant of its duration, although  *)
(* handle_new_head updates three values one after the other and readers    *)
(* take only one of the three locks (cache.rs:66-116).                     *)
Linearizable == Abstract!Spec

(* No two threads hold guards of the same lock, and a thread holds exactly *)
(* the guards its position in the code says: none is leaked on any branch, *)
(* early return or panic (cache.rs:72-106).                                *)
GuardsMatchCode ==
    \A l \in Locks : \A t \in Threads : writer[l] = t <=> l \in HeldAt(pc[t])

(* What a thread's request and phase can be at each step of its code. *)
PhasesAt(p) ==
    CASE p = "idle"                                       -> {"idle"}
      [] p \in {"drop_status", "drop_hash", "drop_number"} -> {"done", "panicked"}
      [] p = "return"                                     -> {"done"}
      [] p = "panicked"                                   -> {"panicked"}
      [] OTHER                                            -> {"pending"}

RequestsAt(p) ==
    CASE p \in {"lock_number", "lock_hash", "lock_status", "match", "write"} -> HeadRequests
      [] p \in {"lock_states", "insert"}                 -> PoolWrites
      [] p = "read"                                      -> PoolReads \cup TrackerReads
      [] OTHER                                           -> Requests \cup {NoRequest}

CallMatchesCode ==
    \A t \in Threads : phase[t] \in PhasesAt(pc[t]) /\ req[t] \in RequestsAt(pc[t])

(* In the middle of handle_new_head's assignments the fields already written *)
(* are the new head's and the others are those the verdict was reached on.   *)
Written(t, field) == \E i \in 1 .. 3 : i < step[t] /\ WriteOrder(verdict[t])[i] = field

TornAsWritten ==
    \A t \in Threads : pc[t] = "write" =>
        /\ verdict[t] = Verdict(before, req[t].head) /\ verdict[t] # "ignore"
        /\ ~(checked /\ Overflows(before))
        /\ number = IF Written(t, "number") THEN req[t].head.number ELSE before.number
        /\ hash = IF Written(t, "hash") THEN req[t].head.hash ELSE before.hash
        /\ status = IF Written(t, "status") THEN StatusAfter(verdict[t]) ELSE before.status

(* Once a thread has panicked, each lock of the tracker is poisoned or is    *)
(* about to be, by the panicked thread that still holds it.                  *)
PanicSeals ==
    /\ poisoned \subseteq HeadLocks
    /\ poisoned # {} => SomePanicked
    /\ SomePanicked => \A l \in HeadLocks :
                           l \in poisoned \/ \E t \in Threads : writer[l] = t /\ phase[t] = "panicked"
    /\ \A l \in Locks : writer[l] # NoThread => l \notin poisoned

(* The inductive invariant of the lock protocol: what makes the three        *)
(* separate assignments of handle_new_head look like one, and one panic      *)
(* final (cache.rs:66-106).                                                  *)
LockProtocol == GuardsMatchCode /\ CallMatchesCode /\ TornAsWritten /\ PanicSeals

(* latest_block never goes back, whatever heads threads pass and in        *)
(* whatever order they reach the locks; the one exception is a build that  *)
(* wraps u64 arithmetic, once the recorded number is the largest u64       *)
(* (cache.rs:84-105).                                                      *)
NumberNeverRegresses ==
    [][number' >= number \/ (number = MaxU64 /\ ~checked)]_number

(* The panic of handle_new_head leaves the recorded head as it was, and it *)
(* never changes again, by any thread: the poisoned locks stop every later *)
(* call before it writes (cache.rs:72-84).                                 *)
FrozenAfterPanic == [][SomePanicked' => TrackerView' = TrackerView]_vars

(* Every call returns or panics: taking three locks one by one, with other *)
(* threads holding some of them, never leaves a caller waiting for ever    *)
(* (cache.rs:53-116).                                                      *)
CallsEnd == \A t \in Threads : phase[t] = "pending" ~> phase[t] # "pending"

=============================================================================
