------------------------------ MODULE HeadRule ------------------------------
(***************************************************************************)
(* The rule by which PoolCache::handle_new_head judges a block header      *)
(* against what the cache last recorded (crates/sizing-watch/src/cache.rs, *)
(* lines 66-106).  Only the pure rule is here: PoolCache applies it in one *)
(* step, PoolCacheLocks under the four RwLocks of the code, Watch inside   *)
(* the daemon's loop.                                                      *)
(***************************************************************************)
EXTENDS Naturals

CONSTANTS
    MaxU64,   (* the largest value of a u64 block number *)
    Hashes,   (* block hashes, the empty string included *)
    NoHash    (* the empty string: what a header without a hash field gives *)

ASSUME HeadRuleAssumption == MaxU64 \in Nat \ {0} /\ NoHash \in Hashes

BlockNumbers == 0 .. MaxU64

SyncStatus == {"Synchronized", "Stale"}

(* The three arguments of handle_new_head. *)
Headers == [number : BlockNumbers, hash : Hashes, parent : Hashes]

(* last_block_number, last_block_hash and status taken together. *)
Tracker == [number : BlockNumbers, hash : Hashes, status : SyncStatus]

(* PoolCache::new: block number 0 also means that no head was seen yet. *)
NewTracker == [number |-> 0, hash |-> NoHash, status |-> "Synchronized"]

(* last + 1 in a build without overflow checks, where it wraps. *)
NextNumber(n) == (n + 1) % (MaxU64 + 1)

Uninitialised(tr) == tr.number = 0

IsSuccessor(tr, b) == ~Uninitialised(tr) /\ b.number = NextNumber(tr.number)

IsGap(tr, b) == ~Uninitialised(tr) /\ b.number > NextNumber(tr.number)

(* Mutant: the parent check is lost. *)
NeverMismatch(tr, b) == FALSE

(* An empty recorded hash disables the parent check. *)
ParentMismatch(tr, b) == tr.hash # NoHash /\ b.parent # tr.hash

(* Mutant: every head that is not the next one counts as a gap, older ones too. *)
VerdictAnyGap(tr, b) ==
    IF Uninitialised(tr) \/ (IsSuccessor(tr, b) /\ ~ParentMismatch(tr, b)) THEN "accept"
    ELSE "break"

(* What one call decides: take the head as the new synchronized head, take *)
(* it and mark the cache stale, or leave everything as it was.             *)
Verdict(tr, b) ==
    IF Uninitialised(tr) \/ (IsSuccessor(tr, b) /\ ~ParentMismatch(tr, b)) THEN "accept"
    ELSE IF IsSuccessor(tr, b) \/ IsGap(tr, b) THEN "break"
    ELSE "ignore"

StatusAfter(verdict) == IF verdict = "accept" THEN "Synchronized" ELSE "Stale"

AfterHead(tr, b) ==
    LET v == Verdict(tr, b) IN
    IF v = "ignore" THEN tr
    ELSE [number |-> b.number, hash |-> b.hash, status |-> StatusAfter(v)]

(* The bool that handle_new_head returns. *)
HeadReturns(tr, b) == Verdict(tr, b) = "accept"

(* last + 1 is evaluated on every path but the first head's. *)
Overflows(tr) == tr.number = MaxU64

=============================================================================
