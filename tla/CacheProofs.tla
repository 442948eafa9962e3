----------------------------- MODULE CacheProofs ----------------------------
(***************************************************************************)
(* Proofs about the cache of sizing-watch and its two users.  First, the   *)
(* rule of handle_new_head, which both rest on.  Then PoolCacheLocks, for  *)
(* any set of threads, of heads and of pools, any largest u64 and any      *)
(* number of calls.  Then the daemon, Watch, for any tree of blocks,       *)
(* whatever the node announces of it and in whatever order, and for ctrl-c *)
(* at any moment.                                                          *)
(***************************************************************************)
EXTENDS PoolCacheLocks, Watch, SequenceTheorems, TLAPS

-----------------------------------------------------------------------------
(* The rule of handle_new_head.                                            *)

(* Below the largest u64 the successor does not wrap. *)
LEMMA NextNumberPlain ==
    ASSUME NEW n \in BlockNumbers, n # MaxU64
    PROVE  NextNumber(n) = n + 1
<1>1. n + 1 \in 0 .. MaxU64
  BY HeadRuleAssumption DEF BlockNumbers
<1> QED
  BY <1>1, HeadRuleAssumption DEF NextNumber

(* What handle_new_head makes of a tracker is a tracker. *)
LEMMA AfterHeadType ==
    ASSUME NEW tr \in Tracker, NEW h \in Headers
    PROVE  /\ Verdict(tr, h) \in {"accept", "break", "ignore"}
           /\ AfterHead(tr, h) \in Tracker
BY DEF Verdict, AfterHead, StatusAfter, Tracker, Headers, SyncStatus

(* A head that is not ignored has a number no smaller than the recorded one, *)
(* unless the recorded one is the largest u64 (cache.rs:76-105).             *)
LEMMA TakenHeadsAdvance ==
    ASSUME NEW tr \in Tracker, NEW h \in Headers,
           tr.number # MaxU64, Verdict(tr, h) # "ignore"
    PROVE  h.number >= tr.number
<1>1. tr.number \in BlockNumbers /\ h.number \in BlockNumbers
  BY DEF Tracker, Headers
<1>2. NextNumber(tr.number) = tr.number + 1
  BY <1>1, NextNumberPlain
<1> QED
  BY <1>1, <1>2, HeadRuleAssumption
  DEF Verdict, Uninitialised, IsSuccessor, IsGap, BlockNumbers

(* A head that continues the recorded one carries the next number and names *)
(* the recorded hash as its parent, unless no hash was recorded.            *)
LEMMA AcceptedHeadContinues ==
    ASSUME NEW tr \in Tracker, NEW h \in Headers, tr.number # MaxU64,
           Verdict(tr, h) = "accept", ~Uninitialised(tr)
    PROVE  /\ h.number = tr.number + 1
           /\ tr.hash = NoHash \/ h.parent = tr.hash
<1>1. NextNumber(tr.number) = tr.number + 1
  BY NextNumberPlain DEF Tracker
<1> QED
  BY <1>1 DEF Verdict, IsSuccessor, ParentMismatch

-----------------------------------------------------------------------------
(* The locked cache.                                                       *)

(* The head of a request is a header. *)
LEMMA RequestHeads == ASSUME NEW r \in HeadRequests PROVE r.head \in Headers
BY CacheCallsAssumption DEF HeadRequests

-----------------------------------------------------------------------------

(* The order of the assignments, field by field. *)
LEMMA WriteFields ==
    ASSUME NEW v \in {"accept", "break"}
    PROVE  /\ v = "accept" => /\ WriteOrder(v)[1] = "number"
                              /\ WriteOrder(v)[2] = "hash"
                              /\ WriteOrder(v)[3] = "status"
           /\ v = "break"  => /\ WriteOrder(v)[1] = "status"
                              /\ WriteOrder(v)[2] = "number"
                              /\ WriteOrder(v)[3] = "hash"
BY DEF WriteOrder

IInv == TypeOK /\ LockProtocol

(* No call starts with a lock held, or in the middle of its writes. *)
LEMMA InitEstablishes == ASSUME Init PROVE IInv
<1>1. TypeOK
  BY HeadRuleAssumption, LocksAssumption
  DEF Init, TypeOK, Now, NewTracker, Tracker, SyncStatus, BlockNumbers, PoolStates, Phases, Steps
<1>2. GuardsMatchCode
  BY LocksAssumption DEF Init, GuardsMatchCode, HeldAt
<1>3. CallMatchesCode
  BY DEF Init, CallMatchesCode, PhasesAt, RequestsAt
<1>4. TornAsWritten
  BY DEF Init, TornAsWritten
<1>5. PanicSeals
  BY DEF Init, PanicSeals, SomePanicked
<1> QED
  BY <1>1, <1>2, <1>3, <1>4, <1>5 DEF IInv, LockProtocol

(* A step of waiting for a lock: the thread goes on with one guard more, or  *)
(* panics on a poisoned lock with the guards it had.                         *)
LEMMA LockStep ==
    ASSUME IInv, NEW t \in Threads, NEW l \in Locks,
           NEW here \in Steps, NEW next \in Steps, NEW bail \in Steps,
           Lock(t, l, here, next, bail),
           HeldAt(next) = HeldAt(here) \cup {l}, HeldAt(bail) = HeldAt(here),
           PhasesAt(here) = {"pending"}, PhasesAt(next) = {"pending"},
           "panicked" \in PhasesAt(bail),
           RequestsAt(here) \subseteq RequestsAt(next),
           RequestsAt(here) \subseteq RequestsAt(bail),
           next # "write", bail # "write"
    PROVE  IInv'
<1> USE DEF IInv, LockProtocol
<1>1. TypeOK'
  BY DEF TypeOK, Lock, Unwind, Goto, data, calls, Now, Phases
<1>2. GuardsMatchCode'
  <2>1. CASE l \in poisoned
    BY <2>1 DEF TypeOK, GuardsMatchCode, Lock, Goto
  <2>2. CASE l \notin poisoned
    BY <2>2, LocksAssumption DEF TypeOK, GuardsMatchCode, Lock, Goto
  <2> QED BY <2>1, <2>2
<1>3. CallMatchesCode'
  <2>1. CASE l \in poisoned
    BY <2>1 DEF TypeOK, CallMatchesCode, Lock, Unwind, Goto
  <2>2. CASE l \notin poisoned
    BY <2>2 DEF TypeOK, CallMatchesCode, Lock, Goto, calls
  <2> QED BY <2>1, <2>2
<1>4. TornAsWritten'
  <2>1. UNCHANGED <<number, hash, status, verdict, step, checked, before, req>>
    BY DEF Lock, Unwind, data, calls
  <2>2. \A u \in Threads : pc'[u] = "write" => pc[u] = "write"
    BY DEF TypeOK, Lock, Goto
  <2> QED BY <2>1, <2>2 DEF TornAsWritten, Written
<1>5. PanicSeals'
  <2>1. CASE l \in poisoned
    <3>1. SomePanicked
      BY <2>1 DEF PanicSeals
    <3>2. UNCHANGED <<poisoned, writer>>
      BY <2>1 DEF Lock
    <3>3. \A u \in Threads : phase[u] = "panicked" => phase'[u] = "panicked"
      BY <2>1 DEF TypeOK, Lock, Unwind
    <3> QED BY <3>1, <3>2, <3>3 DEF PanicSeals, SomePanicked
  <2>2. CASE l \notin poisoned
    <3>1. UNCHANGED <<poisoned, phase>> /\ writer' = [writer EXCEPT ![l] = t]
      BY <2>2 DEF Lock, calls
    <3>2. writer[l] = NoThread
      BY DEF Lock
    <3> QED BY <2>2, <3>1, <3>2, LocksAssumption DEF TypeOK, PanicSeals, SomePanicked
  <2> QED BY <2>1, <2>2
<1> QED BY <1>1, <1>2, <1>3, <1>4, <1>5

(* The end of a guard's life: the guard was this thread's, and if the thread *)
(* is unwinding the lock stays poisoned.                                     *)
LEMMA DropStep ==
    ASSUME IInv, NEW t \in Threads, NEW l \in HeadLocks,
           NEW here \in Steps, NEW next \in Steps,
           Drop(t, l, here, next),
           l \in HeldAt(here), HeldAt(next) = HeldAt(here) \ {l},
           phase[t] \in PhasesAt(here) => phase[t] \in PhasesAt(next),
           RequestsAt(next) = Requests \cup {NoRequest},
           next # "write"
    PROVE  IInv'
<1> USE DEF IInv, LockProtocol
<1>0. l \in Locks /\ writer[l] = t /\ t # NoThread
  BY LocksAssumption DEF Locks, GuardsMatchCode, Drop
<1>1. TypeOK'
  BY <1>0 DEF TypeOK, Drop, Goto, data, calls, Now
<1>2. GuardsMatchCode'
  <2> SUFFICES ASSUME NEW m \in Locks, NEW u \in Threads
               PROVE  writer'[m] = u <=> m \in HeldAt(pc'[u])
    BY DEF GuardsMatchCode
  <2>1. writer' = [writer EXCEPT ![l] = NoThread] /\ pc' = [pc EXCEPT ![t] = next]
    BY DEF Drop, Goto
  <2>2. writer[m] = u <=> m \in HeldAt(pc[u])
    BY DEF GuardsMatchCode
  <2>3. CASE u = t
    BY <1>0, <2>1, <2>2, <2>3 DEF TypeOK, Drop
  <2>4. CASE u # t
    BY <1>0, <2>1, <2>2, <2>4, LocksAssumption DEF TypeOK
  <2> QED BY <2>3, <2>4
<1>3. CallMatchesCode'
  BY DEF TypeOK, CallMatchesCode, Drop, Goto, calls
<1>4. TornAsWritten'
  <2>1. UNCHANGED <<number, hash, status, verdict, step, checked, before, req>>
    BY DEF Drop, data, calls
  <2>2. \A u \in Threads : pc'[u] = "write" => pc[u] = "write"
    BY DEF TypeOK, Drop, Goto
  <2> QED BY <2>1, <2>2 DEF TornAsWritten, Written
<1>5. PanicSeals'
  <2>1. UNCHANGED phase /\ writer' = [writer EXCEPT ![l] = NoThread]
    BY DEF Drop, calls
  <2>2. CASE phase[t] = "panicked"
    <3>1. poisoned' = poisoned \cup {l}
      BY <2>2 DEF Drop
    <3> QED BY <1>0, <2>1, <2>2, <3>1 DEF TypeOK, PanicSeals, SomePanicked
  <2>3. CASE phase[t] # "panicked"
    <3>1. poisoned' = poisoned
      BY <2>3 DEF Drop
    <3> QED BY <1>0, <2>1, <2>3, <3>1 DEF TypeOK, PanicSeals, SomePanicked
  <2> QED BY <2>2, <2>3
<1> QED BY <1>1, <1>2, <1>3, <1>4, <1>5

(* A thread at the match or at the assignments is alone with the tracker. *)
LEMMA AloneWithTracker ==
    ASSUME IInv, NEW t \in Threads, pc[t] \in {"match", "write"}
    PROVE  /\ \A l \in HeadLocks : writer[l] = t /\ l \notin poisoned
           /\ \A u \in Threads : u # t => pc[u] \notin {"match", "write"}
           /\ req[t] \in HeadRequests /\ req[t].head \in Headers
           /\ phase[t] = "pending"
           /\ ~SomePanicked
<1> USE DEF IInv, LockProtocol
<1>1. \A l \in HeadLocks : l \in Locks /\ l \in HeldAt(pc[t])
  BY DEF HeadLocks, Locks, HeldAt
<1>2. \A l \in HeadLocks : writer[l] = t
  BY <1>1 DEF GuardsMatchCode
<1>3. \A l \in HeadLocks : l \notin poisoned
  BY <1>1, <1>2, LocksAssumption DEF PanicSeals
<1>4. ASSUME NEW u \in Threads, pc[u] \in {"match", "write"} PROVE u = t
  <2>1. "number" \in Locks /\ "number" \in HeadLocks /\ "number" \in HeldAt(pc[u])
    BY <1>4 DEF HeadLocks, Locks, HeldAt
  <2>2. writer["number"] = u
    BY <2>1 DEF GuardsMatchCode
  <2> QED BY <1>2, <2>1, <2>2
<1>5. req[t] \in HeadRequests
  BY DEF CallMatchesCode, RequestsAt
<1>6. phase[t] = "pending"
  BY DEF CallMatchesCode, PhasesAt
<1>7. ~SomePanicked
  <2>1. "number" \in HeadLocks
    BY DEF HeadLocks
  <2> QED BY <1>2, <1>3, <1>6, <2>1 DEF PanicSeals
<1> QED BY <1>2, <1>3, <1>4, <1>5, <1>6, <1>7, RequestHeads

LEMMA MatchStep == ASSUME IInv, NEW t \in Threads, Match(t) PROVE IInv'
<1> USE DEF IInv, LockProtocol
<1> DEFINE v == Verdict(Now, req[t].head)
<1>1. /\ pc[t] = "match"
      /\ UNCHANGED <<number, hash, status, states, writer, poisoned, left, checked, req>>
  BY DEF Match, data, calls, Unwind, Finish
<1>2. Now \in Tracker /\ v \in {"accept", "break", "ignore"}
  BY <1>1, AloneWithTracker, AfterHeadType DEF TypeOK
<1>3. \/ /\ checked /\ Overflows(Now)
         /\ pc' = [pc EXCEPT ![t] = "drop_status"]
         /\ phase' = [phase EXCEPT ![t] = "panicked"]
         /\ UNCHANGED <<verdict, step, before>>
      \/ /\ ~(checked /\ Overflows(Now))
         /\ verdict' = [verdict EXCEPT ![t] = v]
         /\ step' = [step EXCEPT ![t] = 1]
         /\ before' = Now
         /\ \/ /\ v = "ignore"
               /\ pc' = [pc EXCEPT ![t] = "drop_status"]
               /\ phase' = [phase EXCEPT ![t] = "done"]
            \/ /\ v # "ignore"
               /\ pc' = [pc EXCEPT ![t] = "write"]
               /\ phase' = phase
  BY DEF Match, Unwind, Finish, Goto, calls
<1>4. TypeOK'
  BY <1>1, <1>2, <1>3 DEF TypeOK, Steps, Phases, Now
<1>5. GuardsMatchCode'
  BY <1>1, <1>3 DEF TypeOK, GuardsMatchCode, HeldAt
<1>6. CallMatchesCode'
  BY <1>1, <1>3, AloneWithTracker DEF TypeOK, CallMatchesCode, PhasesAt, RequestsAt, Requests
<1>7. TornAsWritten'
  <2>1. ASSUME NEW u \in Threads, pc'[u] = "write"
        PROVE  u = t /\ v # "ignore" /\ ~(checked /\ Overflows(Now))
               /\ verdict'[t] = v /\ step'[t] = 1 /\ before' = Now
    BY <1>1, <1>3, <2>1, AloneWithTracker DEF TypeOK
  <2>2. \A u \in Threads : pc'[u] = "write" =>
           ~Written(u, "number")' /\ ~Written(u, "hash")' /\ ~Written(u, "status")'
    BY <2>1 DEF Written
  <2>3. before' = Now => before'.number = number /\ before'.hash = hash /\ before'.status = status
    BY DEF Now
  <2> QED BY <1>1, <2>1, <2>2, <2>3 DEF TornAsWritten
<1>8. PanicSeals'
  <2>1. \A u \in Threads : u # t => phase'[u] = phase[u]
    BY <1>3 DEF TypeOK
  <2>2. \/ phase'[t] = "panicked"
        \/ phase'[t] # "panicked" /\ phase[t] # "panicked"
    BY <1>1, <1>3, AloneWithTracker DEF TypeOK
  <2>3. ~SomePanicked /\ \A l \in HeadLocks : writer[l] = t
    BY <1>1, AloneWithTracker
  <2> QED BY <1>1, <2>1, <2>2, <2>3 DEF PanicSeals, SomePanicked
<1> QED BY <1>4, <1>5, <1>6, <1>7, <1>8

LEMMA WriteStep == ASSUME IInv, NEW t \in Threads, Write(t) PROVE IInv'
<1> USE DEF IInv, LockProtocol
<1> DEFINE h == req[t].head
           field == WriteOrder(verdict[t])[step[t]]
<1>1. /\ pc[t] = "write"
      /\ UNCHANGED <<states, writer, poisoned, verdict, left, checked, before, req>>
      /\ number' = IF field = "number" THEN h.number ELSE number
      /\ hash' = IF field = "hash" THEN h.hash ELSE hash
      /\ status' = IF field = "status" THEN StatusAfter(verdict[t]) ELSE status
      /\ \/ /\ step[t] < 3
            /\ step' = [step EXCEPT ![t] = step[t] + 1]
            /\ UNCHANGED <<pc, phase>>
         \/ /\ step' = step
            /\ phase' = [phase EXCEPT ![t] = "done"]
            /\ pc' = [pc EXCEPT ![t] = "drop_status"]
  BY DEF Write, Finish, Goto, calls
<1>2. h \in Headers /\ req[t] \in HeadRequests /\ ~SomePanicked /\ phase[t] = "pending"
  BY <1>1, AloneWithTracker
<1>3. TypeOK'
  BY <1>1, <1>2 DEF TypeOK, Steps, Phases, Now, Tracker, Headers, StatusAfter, SyncStatus
<1>4. GuardsMatchCode'
  BY <1>1 DEF TypeOK, GuardsMatchCode, HeldAt
<1>5. CallMatchesCode'
  BY <1>1, <1>2 DEF TypeOK, CallMatchesCode, PhasesAt, RequestsAt, Requests
<1>6. TornAsWritten'
  <2>1. ASSUME NEW u \in Threads, pc'[u] = "write"
        PROVE  u = t /\ step[t] < 3 /\ step'[t] = step[t] + 1
    BY <1>1, <2>1, AloneWithTracker DEF TypeOK
  <2>2. verdict[t] \in {"accept", "break"} /\ step[t] \in 1 .. 3
    BY <1>1 DEF TypeOK, TornAsWritten
  <2>3. ASSUME pc'[t] = "write", NEW f \in {"number", "hash", "status"}
        PROVE  Written(t, f)' <=> (Written(t, f) \/ field = f)
    BY <1>1, <2>1, <2>2, <2>3 DEF Written
  <2> QED BY <1>1, <2>1, <2>2, <2>3 DEF TornAsWritten
<1>7. PanicSeals'
  <2>1. ~SomePanicked'
    BY <1>1, <1>2 DEF TypeOK, SomePanicked
  <2> QED BY <1>1, <1>2, <2>1 DEF PanicSeals
<1> QED BY <1>3, <1>4, <1>5, <1>6, <1>7

LEMMA InsertStep == ASSUME IInv, NEW t \in Threads, Insert(t) PROVE IInv'
<1> USE DEF IInv, LockProtocol
<1>1. /\ pc[t] = "insert"
      /\ UNCHANGED <<number, hash, status, poisoned, verdict, step, left, checked, before, req>>
      /\ states' = [states EXCEPT ![req[t].pool] = req[t].state]
      /\ writer' = [writer EXCEPT !["states"] = NoThread]
      /\ phase' = [phase EXCEPT ![t] = "done"]
      /\ pc' = [pc EXCEPT ![t] = "return"]
  BY DEF Insert, Finish, Goto
<1>2. req[t] \in PoolWrites /\ phase[t] = "pending" /\ writer["states"] = t
  BY <1>1 DEF CallMatchesCode, RequestsAt, PhasesAt, GuardsMatchCode, HeldAt, Locks
<1>3. TypeOK'
  BY <1>1, <1>2 DEF TypeOK, Steps, Phases, Now, PoolStates, PoolWrites
<1>4. GuardsMatchCode'
  <2> SUFFICES ASSUME NEW m \in Locks, NEW u \in Threads
               PROVE  writer'[m] = u <=> m \in HeldAt(pc'[u])
    BY DEF GuardsMatchCode
  <2>1. writer[m] = u <=> m \in HeldAt(pc[u])
    BY DEF GuardsMatchCode
  <2>2. CASE u = t
    BY <1>1, <2>1, <2>2, LocksAssumption DEF TypeOK, HeldAt, HeadLocks, Locks
  <2>3. CASE u # t
    BY <1>1, <1>2, <2>1, <2>3, LocksAssumption DEF TypeOK
  <2> QED BY <2>2, <2>3
<1>5. CallMatchesCode'
  BY <1>1, <1>2 DEF TypeOK, CallMatchesCode, PhasesAt, RequestsAt, Requests
<1>6. TornAsWritten'
  <2>1. \A u \in Threads : pc'[u] = "write" => pc[u] = "write"
    BY <1>1 DEF TypeOK
  <2> QED BY <1>1, <2>1 DEF TornAsWritten, Written
<1>7. PanicSeals'
  <2>1. SomePanicked' <=> SomePanicked
    BY <1>1, <1>2 DEF TypeOK, SomePanicked
  <2>2. \A u \in Threads : phase[u] = "panicked" => phase'[u] = "panicked"
    BY <1>1, <1>2 DEF TypeOK
  <2>3. \A l \in HeadLocks : writer'[l] = writer[l]
    BY <1>1 DEF TypeOK, HeadLocks, Locks
  <2>4. \A l \in Locks : writer'[l] # NoThread => writer[l] # NoThread
    BY <1>1, <1>2 DEF TypeOK
  <2> QED BY <1>1, <2>1, <2>2, <2>3, <2>4 DEF PanicSeals
<1> QED BY <1>3, <1>4, <1>5, <1>6, <1>7

(* Reads, returns and invocations touch neither the locks nor the values. *)
LEMMA QuietStep ==
    ASSUME IInv, NEW t \in Threads, NEW next \in {"read", "return", "panicked", "idle",
                                                  "lock_number", "lock_states"},
           pc[t] \in {"read", "return", "idle"},
           pc' = [pc EXCEPT ![t] = next],
           UNCHANGED <<data, writer, poisoned, verdict, step, checked, before>>,
           left' \in [Threads -> 0 .. MaxCalls],
           NEW r \in RequestsAt(next), r \in Requests \cup {NoRequest},
           req' = [req EXCEPT ![t] = r],
           NEW ph \in PhasesAt(next), ph \in Phases,
           phase' = [phase EXCEPT ![t] = ph],
           (ph = "panicked") => poisoned # {}
    PROVE  IInv'
<1> USE DEF IInv, LockProtocol
<1>0. phase[t] # "panicked"
  BY DEF CallMatchesCode, PhasesAt
<1>1. TypeOK'
  BY DEF TypeOK, Steps, data, Now
<1>2. GuardsMatchCode'
  BY DEF TypeOK, GuardsMatchCode, HeldAt
<1>3. CallMatchesCode'
  BY DEF TypeOK, CallMatchesCode
<1>4. TornAsWritten'
  <2>1. \A u \in Threads : pc'[u] = "write" => pc[u] = "write" /\ u # t
    BY DEF TypeOK
  <2>2. \A u \in Threads : u # t => req'[u] = req[u]
    BY DEF TypeOK
  <2> QED BY <2>1, <2>2 DEF TornAsWritten, Written, data
<1>5. PanicSeals'
  <2>1. \A u \in Threads : phase[u] = "panicked" => phase'[u] = "panicked"
    BY <1>0 DEF TypeOK
  <2>2. SomePanicked' => SomePanicked
    BY DEF TypeOK, SomePanicked, PanicSeals
  <2>3. SomePanicked => SomePanicked'
    BY <2>1 DEF SomePanicked
  <2> QED BY <2>1, <2>2, <2>3 DEF PanicSeals
<1> QED BY <1>1, <1>2, <1>3, <1>4, <1>5

LEMMA ReadStep == ASSUME IInv, NEW t \in Threads, Read(t) PROVE IInv'
<1> USE DEF IInv, LockProtocol
<1>1. /\ pc[t] = "read"
      /\ UNCHANGED <<data, writer, poisoned, verdict, step, left, checked, before, req>>
  BY DEF Read, Unwind, Finish
<1>2. req[t] \in PoolReads \cup TrackerReads /\ req' = [req EXCEPT ![t] = req[t]]
  BY <1>1 DEF CallMatchesCode, RequestsAt, TypeOK
<1>3. left' \in [Threads -> 0 .. MaxCalls]
  BY <1>1 DEF TypeOK
<1>4. CASE ReadLock(req[t]) \in poisoned
  <2>1. pc' = [pc EXCEPT ![t] = "panicked"] /\ phase' = [phase EXCEPT ![t] = "panicked"]
    BY <1>4 DEF Read, Unwind, Goto
  <2>2. "panicked" \in PhasesAt("panicked") /\ req[t] \in RequestsAt("panicked")
    BY <1>2 DEF PhasesAt, RequestsAt, Requests
  <2> QED BY <1>1, <1>2, <1>3, <1>4, <2>1, <2>2, QuietStep DEF Phases, Requests
<1>5. CASE ReadLock(req[t]) \notin poisoned
  <2>1. pc' = [pc EXCEPT ![t] = "return"] /\ phase' = [phase EXCEPT ![t] = "done"]
    BY <1>5 DEF Read, Finish, Goto
  <2>2. "done" \in PhasesAt("return") /\ req[t] \in RequestsAt("return")
    BY <1>2 DEF PhasesAt, RequestsAt, Requests
  <2> QED BY <1>1, <1>2, <1>3, <2>1, <2>2, QuietStep DEF Phases, Requests
<1> QED BY <1>4, <1>5

LEMMA ReturnStep == ASSUME IInv, NEW t \in Threads, Return(t) PROVE IInv'
<1> USE DEF IInv, LockProtocol
<1>1. "idle" \in PhasesAt("idle") /\ NoRequest \in RequestsAt("idle")
  BY DEF PhasesAt, RequestsAt
<1>2. left' \in [Threads -> 0 .. MaxCalls]
  BY DEF Return, TypeOK
<1> QED BY <1>1, <1>2, QuietStep DEF Return, Goto, Phases

LEMMA InvokeStep == ASSUME IInv, NEW t \in Threads, Invoke(t) PROVE IInv'
<1> USE DEF IInv, LockProtocol
<1>1. PICK r \in Requests : req' = [req EXCEPT ![t] = r] /\ pc' = [pc EXCEPT ![t] = FirstStep(r)]
  BY DEF Invoke, Goto
<1>2. /\ FirstStep(r) \in {"lock_number", "lock_states", "read"}
      /\ "pending" \in PhasesAt(FirstStep(r))
      /\ r \in RequestsAt(FirstStep(r))
  BY DEF FirstStep, PhasesAt, RequestsAt, Requests, HeadRequests, PoolWrites, PoolReads, TrackerReads
<1>3. left' \in [Threads -> 0 .. MaxCalls]
  BY LocksAssumption DEF Invoke, TypeOK
<1> HIDE DEF IInv, LockProtocol
<1>4. /\ pc[t] \in {"read", "return", "idle"}
      /\ UNCHANGED <<data, writer, poisoned, verdict, step, checked, before>>
      /\ phase' = [phase EXCEPT ![t] = "pending"]
  BY DEF Invoke
<1>5. "pending" \in Phases /\ "pending" # "panicked" /\ r \in Requests \cup {NoRequest}
  BY DEF Phases
<1>6. FirstStep(r) \in {"read", "return", "panicked", "idle", "lock_number", "lock_states"}
  BY <1>2
<1> QED BY <1>1, <1>2, <1>3, <1>4, <1>5, <1>6, QuietStep

(* Where the guards stand before and after each lock operation of the code. *)
LEMMA CodePositions ==
    /\ \A p \in {"lock_number", "lock_hash", "lock_status", "lock_states", "match", "insert"} :
          PhasesAt(p) = {"pending"}
    /\ \A p \in {"drop_status", "drop_hash", "drop_number"} :
          PhasesAt(p) = {"done", "panicked"}
    /\ PhasesAt("return") = {"done"} /\ PhasesAt("panicked") = {"panicked"}
    /\ \A p \in {"lock_number", "lock_hash", "lock_status", "match"} :
          RequestsAt(p) = HeadRequests
    /\ \A p \in {"lock_states", "insert"} : RequestsAt(p) = PoolWrites
    /\ \A p \in {"drop_status", "drop_hash", "drop_number", "return", "panicked"} :
          RequestsAt(p) = Requests \cup {NoRequest}
    /\ HeldAt("lock_number") = {} /\ HeldAt("lock_hash") = {"number"}
    /\ HeldAt("lock_status") = {"number", "hash"} /\ HeldAt("match") = HeadLocks
    /\ HeldAt("drop_status") = HeadLocks /\ HeldAt("drop_hash") = {"number", "hash"}
    /\ HeldAt("drop_number") = {"number"}
    /\ HeldAt("return") = {} /\ HeldAt("panicked") = {}
    /\ HeldAt("lock_states") = {} /\ HeldAt("insert") = {"states"}
<1>1. /\ \A p \in {"lock_number", "lock_hash", "lock_status", "lock_states", "match", "insert"} :
            PhasesAt(p) = {"pending"}
      /\ \A p \in {"drop_status", "drop_hash", "drop_number"} :
            PhasesAt(p) = {"done", "panicked"}
      /\ PhasesAt("return") = {"done"} /\ PhasesAt("panicked") = {"panicked"}
  BY DEF PhasesAt
<1>2. /\ \A p \in {"lock_number", "lock_hash", "lock_status", "match"} :
            RequestsAt(p) = HeadRequests
      /\ \A p \in {"lock_states", "insert"} : RequestsAt(p) = PoolWrites
      /\ \A p \in {"drop_status", "drop_hash", "drop_number", "return", "panicked"} :
            RequestsAt(p) = Requests \cup {NoRequest}
  BY DEF RequestsAt
<1> QED BY <1>1, <1>2 DEF HeldAt

LEMMA LockActions ==
    ASSUME IInv, NEW t \in Threads,
           LockNumber(t) \/ LockHash(t) \/ LockStatus(t) \/ LockStates(t)
    PROVE  IInv'
<1>1. CASE LockNumber(t)
  <2>1. HeldAt("lock_hash") = HeldAt("lock_number") \cup {"number"} /\ HeldAt("panicked") = HeldAt("lock_number")
    BY CodePositions DEF HeadLocks
  <2>2. /\ PhasesAt("lock_number") = {"pending"} /\ PhasesAt("lock_hash") = {"pending"}
        /\ "panicked" \in PhasesAt("panicked")
    BY CodePositions
  <2>3. /\ RequestsAt("lock_number") \subseteq RequestsAt("lock_hash")
        /\ RequestsAt("lock_number") \subseteq RequestsAt("panicked")
    BY CodePositions DEF Requests
  <2>4. "number" \in Locks /\ {"lock_number", "lock_hash", "panicked"} \subseteq Steps
    BY DEF Locks, HeadLocks, Steps
  <2>5. Lock(t, "number", "lock_number", "lock_hash", "panicked")
    BY <1>1 DEF LockNumber
  <2> QED BY <2>1, <2>2, <2>3, <2>4, <2>5, LockStep
<1>2. CASE LockHash(t)
  <2>1. HeldAt("lock_status") = HeldAt("lock_hash") \cup {"hash"} /\ HeldAt("drop_number") = HeldAt("lock_hash")
    BY CodePositions DEF HeadLocks
  <2>2. /\ PhasesAt("lock_hash") = {"pending"} /\ PhasesAt("lock_status") = {"pending"}
        /\ "panicked" \in PhasesAt("drop_number")
    BY CodePositions
  <2>3. /\ RequestsAt("lock_hash") \subseteq RequestsAt("lock_status")
        /\ RequestsAt("lock_hash") \subseteq RequestsAt("drop_number")
    BY CodePositions DEF Requests
  <2>4. "hash" \in Locks /\ {"lock_hash", "lock_status", "drop_number"} \subseteq Steps
    BY DEF Locks, HeadLocks, Steps
  <2>5. Lock(t, "hash", "lock_hash", "lock_status", "drop_number")
    BY <1>2 DEF LockHash
  <2> QED BY <2>1, <2>2, <2>3, <2>4, <2>5, LockStep
<1>3. CASE LockStatus(t)
  <2>1. HeldAt("match") = HeldAt("lock_status") \cup {"status"} /\ HeldAt("drop_hash") = HeldAt("lock_status")
    BY CodePositions DEF HeadLocks
  <2>2. /\ PhasesAt("lock_status") = {"pending"} /\ PhasesAt("match") = {"pending"}
        /\ "panicked" \in PhasesAt("drop_hash")
    BY CodePositions
  <2>3. /\ RequestsAt("lock_status") \subseteq RequestsAt("match")
        /\ RequestsAt("lock_status") \subseteq RequestsAt("drop_hash")
    BY CodePositions DEF Requests
  <2>4. "status" \in Locks /\ {"lock_status", "match", "drop_hash"} \subseteq Steps
    BY DEF Locks, HeadLocks, Steps
  <2>5. Lock(t, "status", "lock_status", "match", "drop_hash")
    BY <1>3 DEF LockStatus
  <2> QED BY <2>1, <2>2, <2>3, <2>4, <2>5, LockStep
<1>4. CASE LockStates(t)
  <2>1. HeldAt("insert") = HeldAt("lock_states") \cup {"states"} /\ HeldAt("panicked") = HeldAt("lock_states")
    BY CodePositions DEF HeadLocks
  <2>2. /\ PhasesAt("lock_states") = {"pending"} /\ PhasesAt("insert") = {"pending"}
        /\ "panicked" \in PhasesAt("panicked")
    BY CodePositions
  <2>3. /\ RequestsAt("lock_states") \subseteq RequestsAt("insert")
        /\ RequestsAt("lock_states") \subseteq RequestsAt("panicked")
    BY CodePositions DEF Requests
  <2>4. "states" \in Locks /\ {"lock_states", "insert", "panicked"} \subseteq Steps
    BY DEF Locks, HeadLocks, Steps
  <2>5. Lock(t, "states", "lock_states", "insert", "panicked")
    BY <1>4 DEF LockStates
  <2> QED BY <2>1, <2>2, <2>3, <2>4, <2>5, LockStep
<1> QED BY <1>1, <1>2, <1>3, <1>4

LEMMA DropActions ==
    ASSUME IInv, NEW t \in Threads, DropStatus(t) \/ DropHash(t) \/ DropNumber(t)
    PROVE  IInv'
<1>1. CASE DropStatus(t)
  <2>1. "status" \in HeldAt("drop_status") /\ HeldAt("drop_hash") = HeldAt("drop_status") \ {"status"}
    BY DEF HeldAt, HeadLocks
  <2> QED BY <1>1, <2>1, CodePositions, DropStep DEF DropStatus, Steps, HeadLocks
<1>2. CASE DropHash(t)
  <2>1. "hash" \in HeldAt("drop_hash") /\ HeldAt("drop_number") = HeldAt("drop_hash") \ {"hash"}
    BY DEF HeldAt
  <2> QED BY <1>2, <2>1, CodePositions, DropStep DEF DropHash, Steps, HeadLocks
<1>3. CASE DropNumber(t)
  <2> DEFINE next == IF phase[t] = "panicked" THEN "panicked" ELSE "return"
  <2>1. "number" \in HeldAt("drop_number") /\ HeldAt(next) = HeldAt("drop_number") \ {"number"}
    BY DEF HeldAt
  <2>2. phase[t] \in PhasesAt("drop_number") => phase[t] \in PhasesAt(next)
    BY CodePositions
  <2>3. RequestsAt(next) = Requests \cup {NoRequest} /\ next # "write" /\ next \in Steps
    BY CodePositions DEF Steps
  <2>4. Drop(t, "number", "drop_number", next)
    BY <1>3 DEF DropNumber
  <2>5. "drop_number" \in Steps /\ "number" \in HeadLocks
    BY DEF Steps, HeadLocks
  <2> HIDE DEF next
  <2> QED BY <2>1, <2>2, <2>3, <2>4, <2>5, DropStep
<1> QED BY <1>1, <1>2, <1>3

LEMMA StepPreserves == ASSUME IInv, [Next]_vars PROVE IInv'
<1>1. CASE UNCHANGED vars
  BY <1>1 DEF IInv, LockProtocol, vars, data, calls, TypeOK, Now, GuardsMatchCode,
              CallMatchesCode, TornAsWritten, Written, PanicSeals, SomePanicked
<1>2. ASSUME NEW t \in Threads, Invoke(t) \/ Proceed(t) PROVE IInv'
  BY <1>2, InvokeStep, LockActions, DropActions, MatchStep, WriteStep, InsertStep,
     ReadStep, ReturnStep DEF Proceed
<1> QED BY <1>1, <1>2 DEF Next, Finished

(* The cache's types, and the whole lock protocol, hold in every reachable  *)
(* state: guards match the code, the tracker is torn only as the writing    *)
(* thread has left it, and a panic seals the tracker (cache.rs:53-116).     *)
THEOREM Correctness == Spec => [](TypeOK /\ LockProtocol)
<1>1. Init => IInv
  BY InitEstablishes
<1>2. IInv /\ [Next]_vars => IInv'
  BY StepPreserves
<1>3. IInv => TypeOK /\ LockProtocol
  BY DEF IInv
<1> QED BY <1>1, <1>2, <1>3, PTL DEF Spec

(* No lock has two holders, and none is leaked (cache.rs:72-106). *)
THEOREM Exclusion == Spec => []GuardsMatchCode
<1>1. TypeOK /\ LockProtocol => GuardsMatchCode
  BY DEF LockProtocol
<1> QED BY <1>1, Correctness, PTL

-----------------------------------------------------------------------------

LEMMA WriteAdvances ==
    ASSUME IInv, NEW t \in Threads, Write(t), number' # number
    PROVE  number' >= number \/ (number = MaxU64 /\ ~checked)
<1> USE DEF IInv, LockProtocol
<1>1. pc[t] = "write" /\ number' = req[t].head.number
  BY DEF Write
<1>2. /\ req[t].head \in Headers /\ before \in Tracker /\ number \in BlockNumbers
      /\ verdict[t] \in {"accept", "break"} /\ step[t] \in 1 .. 3
      /\ Verdict(before, req[t].head) # "ignore"
      /\ ~(checked /\ Overflows(before))
  BY <1>1, AloneWithTracker DEF TypeOK, TornAsWritten, Now, Tracker
<1>3. ~Written(t, "number")
  BY <1>1, <1>2 DEF Written, TornAsWritten
<1>4. number = before.number
  BY <1>1, <1>3 DEF TornAsWritten
<1> QED BY <1>1, <1>2, <1>4, TakenHeadsAdvance DEF Overflows, TypeOK

(* latest_block never goes back, unless unchecked u64 arithmetic wraps: for *)
(* any number of threads, whatever the heads and the order they arrive in   *)
(* (cache.rs:76-105).                                                       *)
THEOREM NumberTheorem == Spec => NumberNeverRegresses
<1>1. ASSUME IInv, [Next]_vars, number' # number
      PROVE  number' >= number \/ (number = MaxU64 /\ ~checked)
  <2>1. ASSUME NEW t \in Threads, Invoke(t) \/ Proceed(t) PROVE Write(t)
    BY <1>1, <2>1
    DEF Invoke, Proceed, LockNumber, LockHash, LockStatus, LockStates, Lock, Match, Insert, Read,
        Return, DropStatus, DropHash, DropNumber, Drop, data
  <2> QED BY <1>1, <2>1, WriteAdvances DEF Next, Finished, vars, data
<1>2. IInv /\ [Next]_vars => [number' >= number \/ (number = MaxU64 /\ ~checked)]_number
  BY <1>1
<1>3. TypeOK /\ LockProtocol => IInv
  BY DEF IInv
<1> QED BY <1>2, <1>3, Correctness, PTL DEF Spec, NumberNeverRegresses

-----------------------------------------------------------------------------
(* The locked cache implements the atomic one.                             *)

(* Both cache modules judge a head, and answer a request, by one rule. *)
LEMMA SameRule ==
    ASSUME NEW tr, NEW h, NEW r, NEW st
    PROVE  /\ Abstract!AfterHead(tr, h) = AfterHead(tr, h)
           /\ Abstract!Result(r, tr, st) = Result(r, tr, st)
           /\ Abstract!Overflows(tr) = Overflows(tr)
           /\ Abstract!Requests = Requests
           /\ Abstract!NoRequest = NoRequest
           /\ Abstract!NewTracker = NewTracker
BY DEF Abstract!AfterHead, AfterHead, Abstract!Result, Result, Abstract!Overflows, Overflows,
       Abstract!Requests, Requests, Abstract!NoRequest, NoRequest, Abstract!NewTracker, NewTracker,
       Abstract!Verdict, Verdict, Abstract!StatusAfter, StatusAfter, Abstract!HeadReturns, HeadReturns,
       Abstract!Uninitialised, Uninitialised, Abstract!IsSuccessor, IsSuccessor, Abstract!IsGap, IsGap,
       Abstract!ParentMismatch, ParentMismatch, Abstract!NextNumber, NextNumber,
       Abstract!HeadRequests, HeadRequests, Abstract!PoolWrites, PoolWrites,
       Abstract!PoolReads, PoolReads, Abstract!TrackerReads, TrackerReads

(* A step that starts or ends no assignment of handle_new_head shows the same *)
(* tracker before and after.                                                  *)
LEMMA SameView ==
    ASSUME UNCHANGED <<number, hash, status, before>>,
           \A u \in Threads : pc'[u] = "write" <=> pc[u] = "write"
    PROVE  TrackerView' = TrackerView
BY DEF TrackerView, Now, Writing

LEMMA RefineStutter ==
    ASSUME UNCHANGED <<data, calls, checked, before>>,
           \A u \in Threads : pc'[u] = "write" <=> pc[u] = "write"
    PROVE  UNCHANGED Abstract!absvars
<1>1. TrackerView' = TrackerView
  BY SameView DEF data
<1>2. SomePanicked' = SomePanicked
  BY DEF SomePanicked, calls
<1> QED BY <1>1, <1>2 DEF Abstract!absvars, data, calls

(* A thread that starts to unwind, in a call that uses the tracker. *)
LEMMA RefinePanic ==
    ASSUME IInv, NEW t \in Threads, phase[t] = "pending",
           req[t].op \in {"handle_new_head", "sync_status", "latest_block"},
           SomePanicked \/ (checked /\ req[t].op = "handle_new_head" /\ Overflows(TrackerView)),
           Unwind(t), UNCHANGED <<data, checked, before>>,
           \A u \in Threads : pc'[u] = "write" <=> pc[u] = "write"
    PROVE  Abstract!Panic(t)
<1>1. TrackerView' = TrackerView
  BY SameView DEF data
<1>2. SomePanicked' = TRUE
  BY DEF SomePanicked, Unwind, IInv, TypeOK
<1>3. Abstract!Panics(req[t])
  BY SameRule DEF Abstract!Panics, Abstract!UsesTracker
<1> QED BY <1>1, <1>2, <1>3 DEF Abstract!Panic, Unwind, data

(* A poisoned lock means that a panic has happened, in a call on the tracker. *)
LEMMA PoisonedLock ==
    ASSUME IInv, NEW l \in poisoned PROVE SomePanicked /\ l \in HeadLocks
BY DEF IInv, LockProtocol, PanicSeals

LEMMA RefineLock ==
    ASSUME IInv, NEW t \in Threads, NEW l \in Locks,
           NEW here, NEW next, NEW bail, Lock(t, l, here, next, bail),
           l \in HeadLocks => req[t] \in HeadRequests,
           PhasesAt(here) = {"pending"},
           here # "write", next # "write", bail # "write"
    PROVE  [Abstract!Next]_(Abstract!absvars)
<1>1. /\ pc[t] = here /\ phase[t] = "pending"
      /\ UNCHANGED <<data, checked, before>>
  BY DEF Lock, IInv, LockProtocol, CallMatchesCode
<1>2. \A u \in Threads : pc'[u] = "write" <=> pc[u] = "write"
  BY <1>1 DEF Lock, Goto, IInv, TypeOK
<1>3. CASE l \in poisoned
  <2>1. SomePanicked /\ req[t] \in HeadRequests /\ Unwind(t)
    BY <1>3, PoisonedLock DEF Lock
  <2>2. req[t].op = "handle_new_head"
    BY <2>1 DEF HeadRequests
  <2>3. Abstract!Panic(t)
    BY <1>1, <1>2, <2>1, <2>2, RefinePanic
  <2> QED BY <2>3 DEF Abstract!Next
<1>4. CASE l \notin poisoned
  <2>1. UNCHANGED calls
    BY <1>4 DEF Lock
  <2> QED BY <1>1, <1>2, <2>1, RefineStutter
<1> QED BY <1>3, <1>4

LEMMA RefineLockActions ==
    ASSUME IInv, NEW t \in Threads,
           LockNumber(t) \/ LockHash(t) \/ LockStatus(t) \/ LockStates(t)
    PROVE  [Abstract!Next]_(Abstract!absvars)
<1>1. ASSUME pc[t] \in {"lock_number", "lock_hash", "lock_status"}
      PROVE  req[t] \in HeadRequests
  BY <1>1, CodePositions DEF IInv, LockProtocol, CallMatchesCode
<1>2. {"number", "hash", "status", "states"} \subseteq Locks /\ "states" \notin HeadLocks
  BY DEF Locks, HeadLocks
<1>3. CASE LockNumber(t)
  <2>1. Lock(t, "number", "lock_number", "lock_hash", "panicked")
    BY <1>3 DEF LockNumber
  <2>2. req[t] \in HeadRequests
    BY <2>1, <1>1 DEF Lock
  <2> QED BY <1>2, <2>1, <2>2, CodePositions, RefineLock
<1>4. CASE LockHash(t)
  <2>1. Lock(t, "hash", "lock_hash", "lock_status", "drop_number")
    BY <1>4 DEF LockHash
  <2>2. req[t] \in HeadRequests
    BY <2>1, <1>1 DEF Lock
  <2> QED BY <1>2, <2>1, <2>2, CodePositions, RefineLock
<1>5. CASE LockStatus(t)
  <2>1. Lock(t, "status", "lock_status", "match", "drop_hash")
    BY <1>5 DEF LockStatus
  <2>2. req[t] \in HeadRequests
    BY <2>1, <1>1 DEF Lock
  <2> QED BY <1>2, <2>1, <2>2, CodePositions, RefineLock
<1>6. CASE LockStates(t)
  <2>1. Lock(t, "states", "lock_states", "insert", "panicked")
    BY <1>6 DEF LockStates
  <2> QED BY <1>2, <2>1, CodePositions, RefineLock
<1> QED BY <1>3, <1>4, <1>5, <1>6

LEMMA RefineDrop ==
    ASSUME IInv, NEW t \in Threads, DropStatus(t) \/ DropHash(t) \/ DropNumber(t)
    PROVE  [Abstract!Next]_(Abstract!absvars)
<1>1. UNCHANGED <<data, calls, checked, before>>
  BY DEF DropStatus, DropHash, DropNumber, Drop
<1>2. \A u \in Threads : pc'[u] = "write" <=> pc[u] = "write"
  BY DEF DropStatus, DropHash, DropNumber, Drop, Goto, IInv, TypeOK
<1> QED BY <1>1, <1>2, RefineStutter

(* The match under the three locks: nothing is seen of a verdict to write,  *)
(* an ignored head takes effect here, an overflow panics here.              *)
LEMMA RefineMatch ==
    ASSUME IInv, NEW t \in Threads, Match(t) PROVE [Abstract!Next]_(Abstract!absvars)
<1>1. /\ pc[t] = "match"
      /\ UNCHANGED <<data, checked>>
  BY DEF Match
<1>2. /\ phase[t] = "pending" /\ ~SomePanicked
      /\ req[t] \in HeadRequests /\ req[t].op = "handle_new_head"
  BY <1>1, AloneWithTracker DEF HeadRequests
<1>3. \A u \in Threads : pc[u] # "write"
  BY <1>1, AloneWithTracker
<1>4. TrackerView = Now
  BY <1>3 DEF TrackerView, Writing
<1>5. CASE checked /\ Overflows(Now)
  <2>1. Unwind(t) /\ Goto(t, "drop_status") /\ UNCHANGED before
    BY <1>5 DEF Match
  <2>2. \A u \in Threads : pc'[u] = "write" <=> pc[u] = "write"
    BY <1>1, <2>1 DEF Goto, IInv, TypeOK
  <2> QED BY <1>1, <1>2, <1>4, <1>5, <2>1, <2>2, RefinePanic DEF Abstract!Next
<1>6. CASE ~(checked /\ Overflows(Now)) /\ Verdict(Now, req[t].head) # "ignore"
  <2>1. Goto(t, "write") /\ UNCHANGED calls /\ before' = Now
    BY <1>6 DEF Match
  <2>2. pc'[t] = "write"
    BY <2>1 DEF Goto, IInv, TypeOK
  <2>3. TrackerView' = TrackerView
    BY <1>4, <2>1, <2>2 DEF TrackerView, Writing
  <2>4. SomePanicked' = SomePanicked
    BY <2>1 DEF SomePanicked, calls
  <2> QED BY <1>1, <2>1, <2>3, <2>4 DEF Abstract!absvars, data, calls
<1>7. CASE ~(checked /\ Overflows(Now)) /\ Verdict(Now, req[t].head) = "ignore"
  <2>1. Finish(t, FALSE) /\ Goto(t, "drop_status")
    BY <1>7 DEF Match
  <2>2. \A u \in Threads : pc'[u] # "write"
    BY <1>3, <2>1 DEF Goto, IInv, TypeOK
  <2>3. TrackerView' = Now
    BY <1>1, <2>2 DEF TrackerView, Writing, Now, data
  <2>4. AfterHead(Now, req[t].head) = Now /\ Result(req[t], Now, states) = FALSE
    BY <1>2, <1>7 DEF AfterHead, Result, HeadReturns
  <2>5. SomePanicked' = SomePanicked
    BY <1>2, <2>1 DEF SomePanicked, Finish, IInv, TypeOK
  <2>6. ~Abstract!Panics(req[t])
    BY <1>2, <1>4, <1>7, SameRule DEF Abstract!Panics
  <2>7. Abstract!TakeEffect(t)
    <3>1. phase' = [phase EXCEPT ![t] = "done"] /\ UNCHANGED req
      BY <2>1 DEF Finish
    <3>2. ret' = [ret EXCEPT ![t] = Abstract!Result(req[t], TrackerView, states)]
      BY <1>4, <2>1, <2>4, SameRule DEF Finish
    <3>3. TrackerView' = Abstract!AfterHead(TrackerView, req[t].head)
      BY <1>4, <2>3, <2>4, SameRule
    <3>4. UNCHANGED <<states, SomePanicked, checked>>
      BY <1>1, <2>5 DEF data
    <3> QED BY <1>2, <2>6, <3>1, <3>2, <3>3, <3>4 DEF Abstract!TakeEffect
  <2> QED BY <2>7 DEF Abstract!Next
<1> QED BY <1>5, <1>6, <1>7

(* The last of the three assignments is where a taken head takes effect. *)
LEMMA LastWriteComplete ==
    ASSUME IInv, NEW t \in Threads, Write(t), step[t] = 3
    PROVE  /\ Now' = AfterHead(before, req[t].head)
           /\ (verdict[t] = "accept") = HeadReturns(before, req[t].head)
<1> USE DEF IInv, LockProtocol
<1> DEFINE h == req[t].head
           v == verdict[t]
<1>1. pc[t] = "write"
  BY DEF Write
<1>2. /\ v = Verdict(before, h) /\ v \in {"accept", "break"}
      /\ h \in Headers /\ before \in Tracker
  BY <1>1, AloneWithTracker DEF TypeOK, TornAsWritten
<1>3. AfterHead(before, h) = [number |-> h.number, hash |-> h.hash, status |-> StatusAfter(v)]
  BY <1>2 DEF AfterHead
<1>4. ASSUME v = "accept" PROVE Now' = AfterHead(before, h)
  <2>1. WriteOrder(v)[1] = "number" /\ WriteOrder(v)[2] = "hash" /\ WriteOrder(v)[3] = "status"
    BY <1>4, WriteFields
  <2>2. Written(t, "number") /\ Written(t, "hash")
    BY <2>1 DEF Written
  <2>3. number = h.number /\ hash = h.hash
    BY <1>1, <2>2 DEF TornAsWritten
  <2>4. number' = number /\ hash' = hash /\ status' = StatusAfter(v)
    BY <2>1 DEF Write
  <2> QED BY <1>3, <2>3, <2>4 DEF Now
<1>5. ASSUME v = "break" PROVE Now' = AfterHead(before, h)
  <2>1. WriteOrder(v)[1] = "status" /\ WriteOrder(v)[2] = "number" /\ WriteOrder(v)[3] = "hash"
    BY <1>5, WriteFields
  <2>2. Written(t, "status") /\ Written(t, "number")
    BY <2>1 DEF Written
  <2>3. status = StatusAfter(v) /\ number = h.number
    BY <1>1, <2>2 DEF TornAsWritten
  <2>4. number' = number /\ status' = status /\ hash' = h.hash
    BY <2>1 DEF Write
  <2> QED BY <1>3, <2>3, <2>4 DEF Now
<1>6. (v = "accept") = HeadReturns(before, h)
  BY <1>2 DEF HeadReturns
<1> QED BY <1>2, <1>4, <1>5, <1>6

LEMMA RefineWrite ==
    ASSUME IInv, NEW t \in Threads, Write(t) PROVE [Abstract!Next]_(Abstract!absvars)
<1>1. /\ pc[t] = "write"
      /\ UNCHANGED <<states, checked, before>>
  BY DEF Write
<1>2. /\ phase[t] = "pending" /\ ~SomePanicked
      /\ req[t] \in HeadRequests /\ req[t].op = "handle_new_head"
      /\ \A u \in Threads : u # t => pc[u] # "write"
      /\ ~(checked /\ Overflows(before))
  BY <1>1, AloneWithTracker DEF HeadRequests, IInv, LockProtocol, TornAsWritten
<1>3. TrackerView = before
  BY <1>1 DEF TrackerView, Writing
<1>4. CASE step[t] < 3
  <2>1. UNCHANGED <<pc, calls>>
    BY <1>4 DEF Write
  <2>2. TrackerView' = before
    BY <1>1, <2>1 DEF TrackerView, Writing
  <2>3. SomePanicked' = SomePanicked
    BY <2>1 DEF SomePanicked, calls
  <2> QED BY <1>1, <1>3, <2>1, <2>2, <2>3 DEF Abstract!absvars, calls
<1>5. CASE step[t] = 3
  <2>1. Finish(t, verdict[t] = "accept") /\ Goto(t, "drop_status")
    BY <1>5 DEF Write
  <2>2. \A u \in Threads : pc'[u] # "write"
    BY <1>2, <2>1 DEF Goto, IInv, TypeOK
  <2>3. TrackerView' = AfterHead(before, req[t].head)
    BY <1>5, <2>2, LastWriteComplete DEF TrackerView, Writing
  <2>4. Result(req[t], before, states) = (verdict[t] = "accept")
    BY <1>2, <1>5, LastWriteComplete DEF Result
  <2>5. SomePanicked' = SomePanicked
    BY <1>2, <2>1 DEF SomePanicked, Finish, IInv, TypeOK
  <2>6. ~Abstract!Panics(req[t])
    BY <1>2, <1>3, SameRule DEF Abstract!Panics
  <2>7. Abstract!TakeEffect(t)
    <3>1. phase' = [phase EXCEPT ![t] = "done"] /\ UNCHANGED req
      BY <2>1 DEF Finish
    <3>2. ret' = [ret EXCEPT ![t] = Abstract!Result(req[t], TrackerView, states)]
      BY <1>3, <2>1, <2>4, SameRule DEF Finish
    <3>3. TrackerView' = Abstract!AfterHead(TrackerView, req[t].head)
      BY <1>3, <2>3, SameRule
    <3>4. UNCHANGED <<states, SomePanicked, checked>>
      BY <1>1, <2>5
    <3> QED BY <1>2, <2>6, <3>1, <3>2, <3>3, <3>4 DEF Abstract!TakeEffect
  <2> QED BY <2>7 DEF Abstract!Next
<1>6. step[t] \in 1 .. 3
  BY DEF IInv, TypeOK
<1> QED BY <1>4, <1>5, <1>6

LEMMA RefineInsert ==
    ASSUME IInv, NEW t \in Threads, Insert(t) PROVE [Abstract!Next]_(Abstract!absvars)
<1>1. /\ pc[t] = "insert"
      /\ UNCHANGED <<number, hash, status, checked, before>>
      /\ states' = [states EXCEPT ![req[t].pool] = req[t].state]
      /\ Finish(t, Absent) /\ Goto(t, "return")
  BY DEF Insert
<1>2. req[t] \in PoolWrites /\ phase[t] = "pending"
  BY <1>1, CodePositions DEF IInv, LockProtocol, CallMatchesCode
<1>3. req[t].op = "update_pool"
  BY <1>2 DEF PoolWrites
<1>4. \A u \in Threads : pc'[u] = "write" <=> pc[u] = "write"
  BY <1>1 DEF Goto, IInv, TypeOK
<1>5. TrackerView' = TrackerView
  BY <1>1, <1>4, SameView
<1>6. SomePanicked' = SomePanicked
  BY <1>1, <1>2 DEF SomePanicked, Finish, IInv, TypeOK
<1>7. ~Abstract!Panics(req[t])
  BY <1>3 DEF Abstract!Panics, Abstract!UsesTracker
<1>8. Abstract!Result(req[t], TrackerView, states) = Absent
  BY <1>3, SameRule DEF Result
<1>9. Abstract!TakeEffect(t)
  BY <1>1, <1>2, <1>3, <1>5, <1>6, <1>7, <1>8 DEF Abstract!TakeEffect, Finish
<1> QED BY <1>9 DEF Abstract!Next

(* A reader that finds its lock free sees a tracker that is not being written *)
(* and has not panicked, or reads the map of pools.                           *)
LEMMA ReaderSeesView ==
    ASSUME IInv, NEW r \in PoolReads \cup TrackerReads,
           writer[ReadLock(r)] = NoThread, ReadLock(r) \notin poisoned
    PROVE  /\ Result(r, Now, states) = Result(r, TrackerView, states)
           /\ r \in TrackerReads => ~SomePanicked
<1>1. CASE r \in PoolReads
  <2>1. r.op = "get_pool"
    BY <1>1 DEF PoolReads
  <2>2. \A tr : Result(r, tr, states) = states[r.pool]
    BY <2>1 DEF Result
  <2>3. r \notin TrackerReads
    BY <2>1 DEF TrackerReads
  <2> QED BY <2>2, <2>3
<1>2. CASE r \in TrackerReads
  <2>1. ReadLock(r) \in HeadLocks
    BY <1>2 DEF TrackerReads, ReadLock, HeadLocks
  <2>2. \A u \in Threads : pc[u] # "write"
    BY <2>1, AloneWithTracker, LocksAssumption
  <2>3. TrackerView = Now
    BY <2>2 DEF TrackerView, Writing
  <2>4. ~SomePanicked
    BY <2>1, LocksAssumption DEF IInv, LockProtocol, PanicSeals
  <2> QED BY <2>3, <2>4
<1> QED BY <1>1, <1>2

LEMMA RefineRead ==
    ASSUME IInv, NEW t \in Threads, Read(t) PROVE [Abstract!Next]_(Abstract!absvars)
<1> DEFINE l == ReadLock(req[t])
<1>1. /\ pc[t] = "read" /\ writer[l] = NoThread
      /\ UNCHANGED <<data, checked, before>>
  BY DEF Read
<1>2. req[t] \in PoolReads \cup TrackerReads /\ phase[t] = "pending"
  BY <1>1 DEF IInv, LockProtocol, CallMatchesCode, RequestsAt, PhasesAt
<1>3. CASE l \in poisoned
  <2>1. SomePanicked /\ l \in HeadLocks
    BY <1>3, PoisonedLock
  <2>2. req[t].op \in {"handle_new_head", "sync_status", "latest_block"}
    BY <1>2, <2>1 DEF ReadLock, HeadLocks, PoolReads, TrackerReads
  <2>3. Unwind(t) /\ Goto(t, "panicked")
    BY <1>3 DEF Read
  <2>4. \A u \in Threads : pc'[u] = "write" <=> pc[u] = "write"
    BY <1>1, <2>3 DEF Goto, IInv, TypeOK
  <2>5. Abstract!Panic(t)
    BY <1>1, <1>2, <2>1, <2>2, <2>3, <2>4, RefinePanic
  <2> QED BY <2>5 DEF Abstract!Next
<1>4. CASE l \notin poisoned
  <2>1. Finish(t, Result(req[t], Now, states)) /\ Goto(t, "return")
    BY <1>4 DEF Read
  <2>2. \A u \in Threads : pc'[u] = "write" <=> pc[u] = "write"
    BY <1>1, <2>1 DEF Goto, IInv, TypeOK
  <2>3. TrackerView' = TrackerView
    BY <1>1, <2>2, SameView DEF data
  <2>4. SomePanicked' = SomePanicked
    BY <1>2, <2>1 DEF SomePanicked, Finish, IInv, TypeOK
  <2>5. req[t].op \notin {"handle_new_head", "update_pool"}
    BY <1>2 DEF PoolReads, TrackerReads
  <2>6. ~Abstract!Panics(req[t])
    BY <1>1, <1>2, <1>4, <2>5, ReaderSeesView DEF Abstract!Panics, Abstract!UsesTracker, PoolReads
  <2>7. Abstract!Result(req[t], TrackerView, states) = Result(req[t], Now, states)
    BY <1>1, <1>2, <1>4, ReaderSeesView, SameRule
  <2>8. Abstract!TakeEffect(t)
    BY <1>1, <1>2, <2>1, <2>3, <2>4, <2>5, <2>6, <2>7
    DEF Abstract!TakeEffect, Finish, data
  <2> QED BY <2>8 DEF Abstract!Next
<1> QED BY <1>3, <1>4

LEMMA RefineInvoke ==
    ASSUME IInv, NEW t \in Threads, Invoke(t) PROVE [Abstract!Next]_(Abstract!absvars)
<1>1. PICK r \in Requests : req' = [req EXCEPT ![t] = r] /\ Goto(t, FirstStep(r))
  BY DEF Invoke
<1>2. /\ pc[t] = "idle" /\ phase[t] = "idle"
      /\ phase' = [phase EXCEPT ![t] = "pending"]
      /\ UNCHANGED <<data, ret, checked, before>>
  BY DEF Invoke, IInv, LockProtocol, CallMatchesCode, PhasesAt
<1>3. \A u \in Threads : pc'[u] = "write" <=> pc[u] = "write"
  BY <1>1, <1>2 DEF Goto, FirstStep, IInv, TypeOK
<1>4. TrackerView' = TrackerView
  BY <1>2, <1>3, SameView DEF data
<1>5. SomePanicked' = SomePanicked
  BY <1>2 DEF SomePanicked, IInv, TypeOK
<1>6. Abstract!Invoke(t)
  BY <1>1, <1>2, <1>4, <1>5, SameRule DEF Abstract!Invoke, data
<1> QED BY <1>6 DEF Abstract!Next

LEMMA RefineReturn ==
    ASSUME IInv, NEW t \in Threads, Return(t) PROVE [Abstract!Next]_(Abstract!absvars)
<1>1. /\ pc[t] = "return" /\ phase[t] = "done" /\ Goto(t, "idle")
      /\ UNCHANGED <<data, checked, before>>
  BY CodePositions DEF Return, IInv, LockProtocol, CallMatchesCode
<1>2. \A u \in Threads : pc'[u] = "write" <=> pc[u] = "write"
  BY <1>1 DEF Goto, IInv, TypeOK
<1>3. TrackerView' = TrackerView
  BY <1>1, <1>2, SameView DEF data
<1>4. phase' = [phase EXCEPT ![t] = "idle"]
  BY DEF Return
<1>5. SomePanicked' = SomePanicked
  BY <1>1, <1>4 DEF SomePanicked, IInv, TypeOK
<1>6. Abstract!Return(t)
  BY <1>1, <1>3, <1>5, SameRule DEF Abstract!Return, Return, data
<1> QED BY <1>6 DEF Abstract!Next

(* Every step of the locked cache is a step of the atomic one, or none. *)
LEMMA StepRefines == ASSUME IInv, [Next]_vars PROVE [Abstract!Next]_(Abstract!absvars)
<1>1. CASE UNCHANGED vars
  <2>1. UNCHANGED <<data, calls, checked, before>> /\ UNCHANGED pc
    BY <1>1 DEF vars
  <2> QED BY <2>1, RefineStutter
<1>2. ASSUME NEW t \in Threads, Invoke(t) \/ Proceed(t)
      PROVE  [Abstract!Next]_(Abstract!absvars)
  BY <1>2, RefineInvoke, RefineLockActions, RefineDrop, RefineMatch, RefineWrite,
     RefineInsert, RefineRead, RefineReturn DEF Proceed
<1> QED BY <1>1, <1>2 DEF Next, Finished

(* PoolCache's four locks give callers one atomic cache: every call takes    *)
(* effect, with the result that belongs to it, at one instant between its    *)
(* invocation and its return, or panics without effect (cache.rs:53-116).    *)
THEOREM Refinement == Spec => Linearizable
<1>1. Init => Abstract!Init
  BY SameRule DEF Init, Abstract!Init, TrackerView, Writing, Now, SomePanicked, NewTracker
<1>2. IInv /\ [Next]_vars => [Abstract!Next]_(Abstract!absvars)
  BY StepRefines
<1>3. TypeOK /\ LockProtocol => IInv
  BY DEF IInv
<1> QED BY <1>1, <1>2, <1>3, Correctness, PTL DEF Spec, Linearizable, Abstract!Spec

(* One panic in handle_new_head and the recorded head is never touched again *)
(* (cache.rs:72-84).                                                         *)
THEOREM PanicFreezesTracker == Spec => FrozenAfterPanic
<1>1. ASSUME IInv, [Next]_vars PROVE SomePanicked' => TrackerView' = TrackerView
  <2>1. CASE UNCHANGED Abstract!absvars
    BY <2>1 DEF Abstract!absvars
  <2>2. ASSUME NEW t \in Threads, Abstract!TakeEffect(t), SomePanicked'
        PROVE  TrackerView' = TrackerView
    <3>1. SomePanicked /\ ~Abstract!Panics(req[t])
      BY <2>2 DEF Abstract!TakeEffect
    <3>2. req[t].op # "handle_new_head"
      BY <3>1 DEF Abstract!Panics, Abstract!UsesTracker
    <3> QED BY <2>2, <3>2 DEF Abstract!TakeEffect
  <2>3. ASSUME NEW t \in Threads, Abstract!Invoke(t) \/ Abstract!Panic(t) \/ Abstract!Return(t)
        PROVE  TrackerView' = TrackerView
    BY <2>3 DEF Abstract!Invoke, Abstract!Panic, Abstract!Return
  <2> QED BY <1>1, <2>1, <2>2, <2>3, StepRefines DEF Abstract!Next
<1>2. IInv /\ [Next]_vars => [SomePanicked' => TrackerView' = TrackerView]_vars
  BY <1>1
<1>3. TypeOK /\ LockProtocol => IInv
  BY DEF IInv
<1> QED BY <1>2, <1>3, Correctness, PTL DEF Spec, FrozenAfterPanic

-----------------------------------------------------------------------------
(* What handle_new_head is given: a number below the largest u64, and the   *)
(* true parent of the block that the hash names, or no hash or no parent.   *)

Announced ==
    {h \in Headers :
        /\ h.number < MaxU64
        /\ h.hash # NoHash => h.parent \in {TrueParent(h.hash), NoHash}}

Frames == {HeadFrame(h) : h \in Announced} \cup {Frame(k) : k \in {"ping", "other", "error", "closed"}}

LEMMA ReadingsAnnounced ==
    ASSUME NEW b \in Blocks, NEW h \in Readings(b)
    PROVE  h \in Announced
<1>1. Height[b] \in BlockNumbers /\ Height[b] < MaxU64 /\ 0 \in BlockNumbers /\ 0 < MaxU64
  BY WatchAssumption, HeadRuleAssumption DEF BlockNumbers
<1>2. b \in Hashes /\ Parent[b] \in Hashes /\ NoHash \in Hashes
  BY WatchAssumption, HeadRuleAssumption
<1>3. h \in Headers /\ h.number < MaxU64
  BY <1>1, <1>2 DEF Readings, Headers
<1>4. h.hash \in {b, NoHash} /\ h.parent \in {Parent[b], NoHash}
  BY DEF Readings
<1>5. TrueParent(b) = Parent[b]
  BY DEF TrueParent
<1> QED
  BY <1>3, <1>4, <1>5 DEF Announced

LEMMA MockHeadAnnounced ==
    ASSUME NEW n \in PollStart .. PollStart + MaxPolls
    PROVE  MockHead(n) \in Announced
<1>1. n \in BlockNumbers /\ n < MaxU64 /\ n \in PollStart - 1 .. PollStart + MaxPolls
      /\ n - 1 \in PollStart - 1 .. PollStart + MaxPolls
  BY WatchAssumption, HeadRuleAssumption DEF BlockNumbers
<1>2. MockHash(n) \in Hashes \ Blocks /\ MockHash(n - 1) \in Hashes
  BY <1>1, WatchAssumption
<1>3. MockHash(n)[2] = n
  BY DEF MockHash
<1>4. TrueParent(MockHash(n)) = MockHash(n - 1)
  BY <1>2, <1>3 DEF TrueParent
<1> QED
  BY <1>1, <1>2, <1>4 DEF Announced, Headers, MockHead

-----------------------------------------------------------------------------
(* The inductive invariant.  Of the cache: its record is the last head of   *)
(* the run, and the run is consecutive whatever the status is.  Of main:    *)
(* where a batch is about to be evaluated, or may still be begun without    *)
(* another look at the flag, none was evaluated since ctrl-c.               *)

Linked(h, g) ==
    /\ g.number = h.number + 1
    /\ NoHash \notin {h.hash, g.hash} => TrueParent(g.hash) = h.hash

Consecutive(r) == \A i \in 1 .. Len(r) - 1 : Linked(r[i], r[i + 1])

EndsIn(r, tr) == r # <<>> => r[Len(r)].hash = tr.hash /\ r[Len(r)].number = tr.number

CacheOK ==
    /\ tracker \in Tracker /\ tracker.number < MaxU64
    /\ run \in Seq(Announced)
    /\ Consecutive(run) /\ EndsIn(run, tracker)

NodeOK ==
    /\ open \in BOOLEAN /\ canon \in Blocks \cup {Genesis}
    /\ wire \in Seq(Frames)
    /\ Len(wire) <= MaxWire + 1 /\ (open => Len(wire) <= MaxWire)

MainOK ==
    /\ mockMode \in BOOLEAN /\ wsUrl \in BOOLEAN
    /\ place \in Places /\ running \in BOOLEAN
    /\ block \in PollStart .. PollStart + MaxPolls
    /\ late \in 0 .. 1
    /\ running => late = 0
    /\ place \in {"start", "connecting", "select", "ws_sizing", "poll_sizing", "mock_sizing"}
         => late = 0

WatchInv == CacheOK /\ NodeOK /\ MainOK

(* Mock mode stays out of both loops; a websocket is held on a ws url only. *)
ModeOK ==
    /\ mockMode => place \in {"start", "mock_sizing", "exited"} /\ tracker = NewTracker
    /\ place \in {"connecting"} \cup Streaming => wsUrl
    /\ open => place \in Streaming

(* Nothing comes in before the websocket is open. *)
QuietBefore == place \in {"start", "connecting"} => wire = <<>> /\ ~open

LEMMA QuietHolds == WatchSpec => []QuietBefore
<1>1. WatchInit => QuietBefore
  BY DEF WatchInit, QuietBefore
<1>2. QuietBefore /\ [WatchNext]_watchvars => QuietBefore'
  <2>1. ASSUME QuietBefore, [WatchNext]_watchvars, place' \in {"start", "connecting"}
        PROVE  place \in {"start", "connecting"} /\ wire' = wire /\ open' = open
    BY <2>1 DEF QuietBefore, WatchNext, NewBlock, OtherFrame, Disconnect, CtrlC, Connected, ConnectFails,
           Subscribed, Ponged, Main, Start, LoopTest, Receive, Timer, LeaveLoop, MockSizing, WsSizing, PollSizing,
           Evaluate, Poll, Sleep, Exit, Exited, Move, Go, watchvars, node
  <2> QED
    BY <2>1 DEF QuietBefore
<1> QED
  BY <1>1, <1>2, PTL DEF WatchSpec

LEMMA ModeKeeps ==
    ASSUME ModeOK, [WatchNext]_watchvars
    PROVE  ModeOK'
<1>1. CASE UNCHANGED <<args, place, tracker, open>>
  BY <1>1 DEF ModeOK, args
<1>2. CASE Disconnect
  BY <1>2 DEF Disconnect, ModeOK, args, cache
<1>3. ASSUME NEW here, NEW there, Move(here, there),
             there \in {"connecting"} \cup Streaming => wsUrl,
             mockMode => there \in {"mock_sizing", "exited"},
             here \in Streaming => there \in Streaming
      PROVE  ModeOK'
  BY <1>3 DEF Move, Go, ModeOK, args, cache, node
<1>4. ASSUME NEW here, LeaveLoop(here), here \in {"loop", "select"}
      PROVE  ModeOK'
  BY <1>4 DEF LeaveLoop, Go, ModeOK, Streaming, args
<1>5. CASE Start
  BY <1>5, <1>3 DEF Start, Streaming
<1>6. CASE ConnectFails \/ Subscribed \/ Ponged \/ Sleep \/ Exit
  BY <1>6 DEF ConnectFails, Subscribed, Ponged, Sleep, Exit, Move, Go, ModeOK, Streaming, args, cache, node
<1>7. CASE LoopTest \/ Timer
  BY <1>4, <1>7 DEF LoopTest, Timer, Move, Go, ModeOK, Streaming, args, cache, node
<1>8. CASE Connected
  BY <1>8 DEF Connected, Go, ModeOK, Streaming, args, cache
<1>9. CASE Receive
  <2>1. ASSUME NEW there \in {"loop", "ponging", "ws_sizing"}, Go("select", there),
               UNCHANGED <<args, open>>
        PROVE  ModeOK'
    BY <2>1 DEF Go, ModeOK, Streaming, args
  <2> QED
    BY <1>4, <1>9, <2>1 DEF Receive
<1>10. CASE MockSizing \/ WsSizing \/ PollSizing
  BY <1>10 DEF MockSizing, WsSizing, PollSizing, Evaluate, Go, ModeOK, Streaming, args, cache, node
<1>11. CASE Poll
  BY <1>11 DEF Poll, Go, ModeOK, Streaming, args, node
<1>12. CASE (\E b \in Blocks : NewBlock(b)) \/ OtherFrame \/ CtrlC \/ Exited \/ UNCHANGED watchvars
  BY <1>1, <1>12 DEF NewBlock, OtherFrame, CtrlC, Exited, watchvars, cache, node
<1> QED
  BY <1>2, <1>5, <1>6, <1>7, <1>8, <1>9, <1>10, <1>11, <1>12 DEF WatchNext, Main

LEMMA ModeHolds == WatchSpec => []ModeOK
<1>1. WatchInit => ModeOK
  BY DEF WatchInit, ModeOK, Streaming
<1> QED
  BY <1>1, ModeKeeps, PTL DEF WatchSpec

LEMMA InitHolds ==
    ASSUME WatchInit
    PROVE  WatchInv
<1>1. wire \in Seq(Frames) /\ Len(wire) = 0 /\ run \in Seq(Announced) /\ Len(run) = 0 /\ run = <<>>
  BY EmptySeq DEF WatchInit
<1>2. NewTracker \in Tracker /\ NewTracker.number < MaxU64
  BY HeadRuleAssumption DEF NewTracker, Tracker, BlockNumbers, SyncStatus
<1>3. CacheOK
  BY <1>1, <1>2 DEF WatchInit, CacheOK, Consecutive, EndsIn
<1>4. NodeOK
  <2>1. open = FALSE /\ canon = Genesis
    BY DEF WatchInit
  <2>2. Len(wire) <= MaxWire + 1
    BY <1>1, WatchAssumption
  <2> QED
    BY <1>1, <2>1, <2>2, Zenon DEF NodeOK
<1>5. MainOK
  BY WatchAssumption DEF WatchInit, MainOK, Places, Streaming
<1> QED
  BY <1>3, <1>4, <1>5 DEF WatchInv

-----------------------------------------------------------------------------
(* handle_new_head. *)

LEMMA NumberAdvances ==
    ASSUME CacheOK, NEW h \in Announced
    PROVE  AfterHead(tracker, h).number >= tracker.number
<1>1. h \in Headers /\ tracker.number \in Nat /\ tracker.number # MaxU64
  BY HeadRuleAssumption DEF Announced, CacheOK, Tracker, BlockNumbers
<1>2. Verdict(tracker, h) # "ignore" => h.number >= tracker.number
  BY <1>1, TakenHeadsAdvance DEF CacheOK
<1> QED
  BY <1>1, <1>2 DEF AfterHead

LEMMA HeadKeepsCache ==
    ASSUME CacheOK, NEW h \in Announced, TakeHead(h)
    PROVE  CacheOK'
<1> DEFINE v == Verdict(tracker, h)
<1>1. h \in Headers /\ h.number < MaxU64 /\ tracker \in Tracker /\ tracker.number # MaxU64
  BY HeadRuleAssumption DEF Announced, CacheOK, Tracker, BlockNumbers
<1>2. v \in {"accept", "break", "ignore"} /\ AfterHead(tracker, h) \in Tracker
  BY <1>1, AfterHeadType
<1>3. tracker' = AfterHead(tracker, h)
  BY DEF TakeHead
<1>4. CASE v = "ignore"
  <2>1. tracker' = tracker
    BY <1>4, <1>3 DEF AfterHead
  <2>2. run' = run
    BY <1>4 DEF TakeHead, Verdict
  <2> QED
    BY <2>1, <2>2 DEF CacheOK
<1>5. CASE v # "ignore"
  <2>1. tracker'.number = h.number /\ tracker'.hash = h.hash
    BY <1>3, <1>5 DEF AfterHead
  <2>2. CASE v = "break" \/ Uninitialised(tracker)
    <3>1. run' = <<h>>
      BY <1>5, <2>2 DEF TakeHead
    <3>2. run' \in Seq(Announced) /\ Len(run') = 1 /\ run'[1] = h
      BY <3>1
    <3>3. Consecutive(run') /\ EndsIn(run', tracker')
      BY <2>1, <3>2 DEF Consecutive, EndsIn
    <3> QED
      BY <1>1, <1>2, <1>3, <2>1, <3>2, <3>3 DEF CacheOK
  <2>3. CASE v = "accept" /\ ~Uninitialised(tracker)
    <3>1. run' = Append(run, h)
      BY <2>3 DEF TakeHead
    <3>2. run \in Seq(Announced)
      BY DEF CacheOK
    <3>3. /\ run' \in Seq(Announced)
          /\ Len(run) \in Nat /\ Len(run') = Len(run) + 1 /\ run'[Len(run) + 1] = h
          /\ \A i \in 1 .. Len(run) : run'[i] = run[i] /\ run[i] \in Announced
      BY <3>1, <3>2, AppendProperties, LenProperties
    <3>4. h.number = tracker.number + 1 /\ (tracker.hash = NoHash \/ h.parent = tracker.hash)
      BY <1>1, <2>3, AcceptedHeadContinues
    <3>5. run # <<>> => Linked(run[Len(run)], h)
      <4>1. NoHash \notin {tracker.hash, h.hash} => TrueParent(h.hash) = tracker.hash
        BY <3>4 DEF Announced
      <4> QED
        BY <3>4, <4>1 DEF Linked, CacheOK, EndsIn
    <3>6. Consecutive(run')
      <4>1. ASSUME NEW i \in 1 .. Len(run') - 1
            PROVE  Linked(run'[i], run'[i + 1])
        <5>1. CASE i < Len(run)
          <6>1. i \in 1 .. Len(run) - 1 /\ run'[i] = run[i] /\ run'[i + 1] = run[i + 1]
            BY <3>3, <4>1, <5>1
          <6> QED
            BY <6>1 DEF CacheOK, Consecutive
        <5>2. CASE i = Len(run)
          <6>1. run # <<>>
            BY <3>3, <4>1, <5>2
          <6>2. run'[i] = run[Len(run)] /\ run'[i + 1] = h
            BY <3>3, <4>1, <5>2
          <6> QED
            BY <3>5, <6>1, <6>2
        <5> QED
          BY <3>3, <4>1, <5>1, <5>2
      <4> QED
        BY <4>1 DEF Consecutive
    <3>7. EndsIn(run', tracker')
      BY <2>1, <3>3 DEF EndsIn
    <3> QED
      BY <1>1, <1>2, <1>3, <2>1, <3>3, <3>6, <3>7 DEF CacheOK
  <2> QED
    BY <1>2, <1>5, <2>2, <2>3
<1> QED
  BY <1>4, <1>5

-----------------------------------------------------------------------------
(* The node. *)

LEMMA SendKeeps ==
    ASSUME NodeOK, open, Len(wire) < MaxWire \/ ~open', NEW f \in Frames, Send(f)
    PROVE  /\ wire' \in Seq(Frames)
           /\ Len(wire') <= MaxWire + 1 /\ (open' => Len(wire') <= MaxWire)
<1>1. wire' \in Seq(Frames) /\ Len(wire') = Len(wire) + 1 /\ Len(wire) \in Nat
  BY AppendProperties, LenProperties DEF NodeOK, Send
<1> QED
  BY <1>1, WatchAssumption DEF NodeOK

LEMMA NodeKeeps ==
    ASSUME WatchInv, (\E b \in Blocks : NewBlock(b)) \/ OtherFrame \/ Disconnect \/ CtrlC
    PROVE  WatchInv'
<1>1. ASSUME NEW b \in Blocks, NewBlock(b)
      PROVE  WatchInv'
  <2>1. UNCHANGED <<args, place, running, cache, block, open, late>> /\ canon' = b
    BY <1>1 DEF NewBlock
  <2>2. CacheOK' /\ MainOK'
    BY <2>1 DEF WatchInv, CacheOK, MainOK, args, cache
  <2>3. CASE UNCHANGED wire
    BY <2>1, <2>2, <2>3 DEF WatchInv, NodeOK
  <2>4. ASSUME NEW h \in Readings(b), open, Len(wire) < MaxWire, Send(HeadFrame(h))
        PROVE  WatchInv'
    <3>1. HeadFrame(h) \in Frames
      BY <2>4, ReadingsAnnounced DEF Frames
    <3>2. /\ wire' \in Seq(Frames)
          /\ Len(wire') <= MaxWire + 1 /\ (open' => Len(wire') <= MaxWire)
      BY <2>4, <3>1, SendKeeps DEF WatchInv
    <3> QED
      BY <2>1, <2>2, <3>2 DEF WatchInv, NodeOK
  <2> QED
    BY <1>1, <2>3, <2>4 DEF NewBlock
<1>2. CASE OtherFrame
  <2>1. PICK k \in {"ping", "other"} : Send(Frame(k))
    BY <1>2 DEF OtherFrame
  <2>2. Frame(k) \in Frames
    BY DEF Frames
  <2>3. /\ wire' \in Seq(Frames)
        /\ Len(wire') <= MaxWire + 1 /\ (open' => Len(wire') <= MaxWire)
    BY <1>2, <2>1, <2>2, SendKeeps DEF OtherFrame, WatchInv
  <2> QED
    BY <1>2, <2>3 DEF OtherFrame, WatchInv, CacheOK, MainOK, NodeOK, args, cache
<1>3. CASE Disconnect
  <2>1. PICK k \in {"error", "closed"} : Send(Frame(k))
    BY <1>3 DEF Disconnect
  <2>2. Frame(k) \in Frames
    BY DEF Frames
  <2>3. /\ wire' \in Seq(Frames)
        /\ Len(wire') <= MaxWire + 1 /\ (open' => Len(wire') <= MaxWire)
    BY <1>3, <2>1, <2>2, SendKeeps DEF Disconnect, WatchInv
  <2> QED
    BY <1>3, <2>3 DEF Disconnect, WatchInv, CacheOK, MainOK, NodeOK, args, cache
<1>4. CASE CtrlC
  BY <1>4 DEF CtrlC, WatchInv, CacheOK, MainOK, NodeOK, args, cache, node
<1> QED
  BY <1>1, <1>2, <1>3, <1>4

-----------------------------------------------------------------------------
(* main. *)

LEMMA CacheAndNodeStay ==
    ASSUME WatchInv, UNCHANGED <<cache, node>>
    PROVE  CacheOK' /\ NodeOK'
BY DEF WatchInv, CacheOK, NodeOK, cache, node

LEMMA LeavingKeeps ==
    ASSUME WatchInv, NEW here, LeaveLoop(here)
    PROVE  WatchInv'
<1>1. wire' = <<>> /\ open' = FALSE /\ canon' = canon /\ place' = "poll"
      /\ UNCHANGED <<args, running, cache, block, late>>
  BY DEF LeaveLoop, Go
<1>2. wire' \in Seq(Frames) /\ Len(wire') = 0
  BY <1>1, EmptySeq
<1>3. Len(wire') <= MaxWire + 1
  BY <1>2, WatchAssumption
<1>4. NodeOK'
  BY <1>1, <1>2, <1>3, Zenon DEF WatchInv, NodeOK
<1> QED
  BY <1>1, <1>4 DEF WatchInv, CacheOK, MainOK, Places, Streaming, args, cache

(* Only a running main goes on to select!, and nothing but the sizing of a *)
(* mock counts before it is there.                                         *)
LEMMA MovesKeep ==
    ASSUME WatchInv, Start \/ ConnectFails \/ Subscribed \/ Ponged \/ LoopTest \/ Timer \/ Sleep \/ Exit
    PROVE  WatchInv'
<1>1. ASSUME NEW here, NEW there \in Places, Move(here, there),
             there \in {"connecting", "select", "ws_sizing", "poll_sizing", "mock_sizing", "start"}
               => late = 0
      PROVE  WatchInv'
  <2>1. UNCHANGED <<cache, node>> /\ place' = there /\ UNCHANGED <<args, running, block, late>>
    BY <1>1 DEF Move, Go
  <2>2. MainOK'
    BY <1>1, <2>1 DEF WatchInv, MainOK, args
  <2> QED
    BY <2>1, <2>2, CacheAndNodeStay DEF WatchInv
<1>2. CASE Start
  <2>1. late = 0
    BY <1>2 DEF Start, Move, Go, WatchInv, MainOK
  <2> QED
    BY <1>1, <1>2, <2>1 DEF Start, Places
<1>3. CASE LoopTest
  <2>1. running => late = 0
    BY DEF WatchInv, MainOK
  <2>2. (Move("loop", "select") /\ running) \/ LeaveLoop("loop")
    BY <1>3 DEF LoopTest
  <2>3. "select" \in Places
    BY DEF Places, Streaming
  <2> QED
    BY <1>1, <2>1, <2>2, <2>3, LeavingKeeps
<1>4. CASE Timer
  <2>1. Move("select", "loop") \/ LeaveLoop("select")
    BY <1>4 DEF Timer
  <2>2. "loop" \in Places
    BY DEF Places, Streaming
  <2> QED
    BY <1>1, <2>1, <2>2, LeavingKeeps
<1>5. CASE ConnectFails \/ Subscribed \/ Ponged \/ Sleep \/ Exit
  <2>1. {"poll", "loop", "exited"} \subseteq Places
    BY DEF Places, Streaming
  <2> QED
    BY <1>1, <1>5, <2>1 DEF ConnectFails, Subscribed, Ponged, Sleep, Exit
<1> QED
  BY <1>2, <1>3, <1>4, <1>5

LEMMA ConnectedKeeps ==
    ASSUME WatchInv, QuietBefore, Connected
    PROVE  WatchInv'
<1>1. wire' = wire /\ wire = <<>> /\ open' = TRUE /\ canon' = canon
  BY DEF Connected, Go, QuietBefore
<1>2. wire' \in Seq(Frames) /\ Len(wire') <= MaxWire + 1 /\ Len(wire') <= MaxWire
  BY <1>1, EmptySeq, WatchAssumption
<1>3. NodeOK'
  BY <1>1, <1>2, Zenon DEF WatchInv, NodeOK
<1> QED
  BY <1>3 DEF Connected, Go, WatchInv, CacheOK, MainOK, Places, Streaming, args, cache

LEMMA ReceiveKeeps ==
    ASSUME WatchInv, Receive
    PROVE  WatchInv'
<1> DEFINE f == Head(wire)
<1>1. f \in Frames /\ Tail(wire) \in Seq(Frames) /\ Len(Tail(wire)) = Len(wire) - 1
      /\ Len(wire) \in Nat
  BY HeadTailProperties, LenProperties DEF WatchInv, NodeOK, Receive
<1>2. CASE f.kind = "head" /\ Go("select", "ws_sizing")
  <2>1. f.head \in Announced
    BY <1>1, <1>2 DEF Frames, HeadFrame, Frame
  <2>2. /\ TakeHead(f.head) /\ wire' = Tail(wire)
        /\ UNCHANGED <<args, running, block, open, canon, late>>
    BY <1>2 DEF Receive, Go, LeaveLoop
  <2>3. CacheOK'
    BY <2>1, <2>2, HeadKeepsCache DEF WatchInv
  <2>4. NodeOK'
    BY <1>1, <2>2, WatchAssumption DEF WatchInv, NodeOK
  <2> QED
    BY <1>2, <2>2, <2>3, <2>4 DEF Go, WatchInv, MainOK, Places, Streaming, args
<1>3. CASE f.kind \in {"ping", "other"} /\ Go("select", IF f.kind = "ping" THEN "ponging" ELSE "loop")
  <2>1. wire' = Tail(wire) /\ UNCHANGED <<args, running, cache, block, open, canon, late>>
    BY <1>3 DEF Receive, Go, LeaveLoop
  <2>2. NodeOK'
    BY <1>1, <2>1, WatchAssumption DEF WatchInv, NodeOK
  <2> QED
    BY <1>3, <2>1, <2>2 DEF Go, WatchInv, CacheOK, MainOK, Places, Streaming, args, cache
<1>4. CASE LeaveLoop("select")
  BY <1>4, LeavingKeeps
<1> QED
  BY <1>2, <1>3, <1>4 DEF Receive

LEMMA SizingKeeps ==
    ASSUME WatchInv, MockSizing \/ WsSizing \/ PollSizing
    PROVE  WatchInv'
<1>1. UNCHANGED <<cache, node>>
  BY DEF MockSizing, WsSizing, PollSizing, Evaluate
<1>2. MainOK'
  BY DEF MockSizing, WsSizing, PollSizing, Evaluate, Go, WatchInv, MainOK, Places, Streaming, args
<1> QED
  BY <1>1, <1>2, CacheAndNodeStay DEF WatchInv

LEMMA PollKeeps ==
    ASSUME WatchInv, Poll
    PROVE  WatchInv'
<1>1. block' \in PollStart .. PollStart + MaxPolls
  BY WatchAssumption DEF Poll, WatchInv, MainOK
<1>2. CacheOK'
  BY <1>1, MockHeadAnnounced, HeadKeepsCache DEF Poll, WatchInv
<1>3. NodeOK'
  BY DEF Poll, WatchInv, NodeOK, node
<1>4. MainOK'
  BY <1>1 DEF Poll, Go, WatchInv, MainOK, Places, Streaming, args
<1> QED
  BY <1>2, <1>3, <1>4 DEF WatchInv

LEMMA StepKeeps ==
    ASSUME WatchInv, QuietBefore, [WatchNext]_watchvars
    PROVE  WatchInv'
<1>1. CASE Exited \/ UNCHANGED watchvars
  BY <1>1 DEF Exited, watchvars, args, cache, node, WatchInv, CacheOK, NodeOK, MainOK
<1> QED
  BY <1>1, NodeKeeps, MovesKeep, ConnectedKeeps, ReceiveKeeps, SizingKeeps, PollKeeps DEF WatchNext, Main

LEMMA InvariantHolds == WatchSpec => []WatchInv
<1>1. WatchInit => WatchInv
  BY InitHolds
<1>2. WatchInv /\ QuietBefore /\ [WatchNext]_watchvars => WatchInv'
  BY StepKeeps
<1> QED
  BY <1>1, <1>2, QuietHolds, PTL DEF WatchSpec

-----------------------------------------------------------------------------
(* The theorems. *)

(* Types, that mock mode takes no head and joins neither loop, and that a   *)
(* websocket is held on a ws url only (main.rs:82-88, 97-147).              *)
THEOREM TypesHold == WatchSpec => []WatchTypeOK
<1>1. WatchInv /\ ModeOK => WatchTypeOK
  BY DEF WatchInv, CacheOK, NodeOK, MainOK, ModeOK, WatchTypeOK
<1> QED
  BY <1>1, InvariantHolds, ModeHolds, PTL

(* A synchronized cache has followed one chain, block by block, since the   *)
(* last break, whatever the node announced (cache.rs:76-105).               *)
THEOREM CacheFollowsChain == WatchSpec => []SynchronizedRun
<1>1. WatchInv => SynchronizedRun
  BY DEF WatchInv, CacheOK, Consecutive, Linked, EndsIn, SynchronizedRun
<1> QED
  BY <1>1, InvariantHolds, PTL

(* ctrl-c lets at most one more batch be evaluated (main.rs:108-164). *)
THEOREM OneLateBatch == WatchSpec => []AtMostOneLateBatch
<1>1. WatchInv => AtMostOneLateBatch
  BY DEF WatchInv, MainOK, AtMostOneLateBatch
<1> QED
  BY <1>1, InvariantHolds, PTL

(* Only two steps of main pass a head to the cache. *)
LEMMA HeadsComeFromMain ==
    ASSUME WatchInv, [WatchNext]_watchvars, tracker' # tracker
    PROVE  \E h \in Announced : tracker' = AfterHead(tracker, h)
<1>1. CASE Receive
  <2>1. Head(wire) \in Frames
    BY <1>1, HeadTailProperties DEF Receive, WatchInv, NodeOK
  <2>2. Head(wire).kind = "head" /\ tracker' = AfterHead(tracker, Head(wire).head)
    BY <1>1 DEF Receive, LeaveLoop, TakeHead, cache
  <2> QED
    BY <2>1, <2>2 DEF Frames, HeadFrame, Frame
<1>2. CASE Poll
  <2>1. block' \in PollStart .. PollStart + MaxPolls
    BY <1>2, WatchAssumption DEF Poll, WatchInv, MainOK
  <2> QED
    BY <1>2, <2>1, MockHeadAnnounced DEF Poll, TakeHead
<1> QED
  BY <1>1, <1>2 DEF WatchNext, NewBlock, OtherFrame, Disconnect, CtrlC, Connected, ConnectFails, Subscribed, Ponged, Main, Start,
      LoopTest, Timer, LeaveLoop, MockSizing, WsSizing, PollSizing, Evaluate, Sleep, Exit, Exited,
      Move, cache, watchvars

(* The number that events are labelled with never goes back, not even where *)
(* the polling loop takes over (cache.rs:76-105, main.rs:150-156).          *)
THEOREM LabelsAdvance == WatchSpec => LabelsNeverRegress
<1>1. WatchInv /\ [WatchNext]_watchvars => [tracker'.number >= tracker.number]_tracker
  BY HeadsComeFromMain, NumberAdvances DEF WatchInv
<1> QED
  BY <1>1, InvariantHolds, PTL DEF WatchSpec, LabelsNeverRegress

=============================================================================
