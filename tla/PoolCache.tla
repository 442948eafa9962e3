----------------------------- MODULE PoolCache ------------------------------
(***************************************************************************)
(* What PoolCache promises to the threads that share it: each call takes   *)
(* effect at one instant between its invocation and its return, and a call *)
(* that panics (u64 overflow in a checked build, or the unwrap of a        *)
(* poisoned lock) changes nothing.  PoolCacheLocks shows that the code's   *)
(* four separate RwLocks keep this promise.                                *)
(***************************************************************************)
EXTENDS CacheCalls

VARIABLES
    tracker,   (* last_block_number, last_block_hash and status *)
    states,    (* the map from pool_id to PoolState *)
    phase,     (* where each thread is with its call *)
    req,       (* the request of each thread's call *)
    ret,       (* the value each finished call returned *)
    broken,    (* a panic has poisoned the locks of the tracker *)
    checked    (* whether the build checks integer overflow; never changes *)

absvars == <<tracker, states, phase, req, ret, broken, checked>>

UsesTracker(r) == r.op \in {"handle_new_head", "sync_status", "latest_block"}

Init ==
    /\ tracker = NewTracker
    /\ states = [p \in Pools |-> Absent]
    /\ phase = [t \in Threads |-> "idle"]
    /\ req = [t \in Threads |-> NoRequest]
    /\ ret = [t \in Threads |-> Absent]
    /\ broken = FALSE
    /\ checked \in BOOLEAN

Invoke(t) ==
    /\ phase[t] = "idle"
    /\ phase' = [phase EXCEPT ![t] = "pending"]
    /\ \E r \in Requests : req' = [req EXCEPT ![t] = r]
    /\ UNCHANGED <<tracker, states, ret, broken, checked>>

Panics(r) ==
    /\ UsesTracker(r)
    /\ broken \/ (checked /\ r.op = "handle_new_head" /\ Overflows(tracker))

TakeEffect(t) ==
    /\ phase[t] = "pending"
    /\ ~Panics(req[t])
    /\ phase' = [phase EXCEPT ![t] = "done"]
    /\ ret' = [ret EXCEPT ![t] = Result(req[t], tracker, states)]
    /\ tracker' = IF req[t].op = "handle_new_head"
                  THEN AfterHead(tracker, req[t].head) ELSE tracker
    /\ states' = IF req[t].op = "update_pool"
                 THEN [states EXCEPT ![req[t].pool] = req[t].state] ELSE states
    /\ UNCHANGED <<req, broken, checked>>

Panic(t) ==
    /\ phase[t] = "pending"
    /\ Panics(req[t])
    /\ phase' = [phase EXCEPT ![t] = "panicked"]
    /\ broken' = TRUE
    /\ UNCHANGED <<tracker, states, req, ret, checked>>

Return(t) ==
    /\ phase[t] = "done"
    /\ phase' = [phase EXCEPT ![t] = "idle"]
    /\ req' = [req EXCEPT ![t] = NoRequest]
    /\ ret' = [ret EXCEPT ![t] = Absent]
    /\ UNCHANGED <<tracker, states, broken, checked>>

Next == \E t \in Threads : Invoke(t) \/ TakeEffect(t) \/ Panic(t) \/ Return(t)

Spec == Init /\ [][Next]_absvars

=============================================================================
