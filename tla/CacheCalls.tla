----------------------------- MODULE CacheCalls -----------------------------
(***************************************************************************)
(* The calls PoolCache offers (crates/sizing-watch/src/cache.rs) and the   *)
(* values they return, shared by the abstract cache and the locked one.    *)
(***************************************************************************)
EXTENDS HeadRule

CONSTANTS
    Threads,   (* the callers: each holds a Clone of the cache *)
    Heads,     (* the headers they pass to handle_new_head *)
    Pools,     (* pool identifiers *)
    Versions,  (* PoolState contents, told apart by last_block_number *)
    Absent     (* get_pool's None, and the result of a call still running *)

ASSUME CacheCallsAssumption == Heads \subseteq Headers

HeadRequests == [op : {"handle_new_head"}, head : Heads]
PoolWrites == [op : {"update_pool"}, pool : Pools, state : Versions]
PoolReads == [op : {"get_pool"}, pool : Pools]
TrackerReads == [op : {"sync_status", "latest_block"}]

Requests == HeadRequests \cup PoolWrites \cup PoolReads \cup TrackerReads

NoRequest == [op |-> "none"]

Phases == {"idle", "pending", "done", "panicked"}

PoolStates == [Pools -> Versions \cup {Absent}]

(* The value request r returns when it takes effect on tracker tr and map st. *)
Result(r, tr, st) ==
    CASE r.op = "handle_new_head" -> HeadReturns(tr, r.head)
      [] r.op = "update_pool"     -> Absent   (* the unit value *)
      [] r.op = "get_pool"        -> st[r.pool]
      [] r.op = "sync_status"     -> tr.status
      [] r.op = "latest_block"    -> tr.number

=============================================================================
