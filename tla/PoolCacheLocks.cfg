SPECIFICATION FairSpec
CONSTANTS
    MaxU64 = 3
    NoHash = NoHash
    a = a
    b = b
    Hashes <- MCHashes
    Heads <- MCHeads
    Threads = {t1, t2}
    NoThread = NoThread
    Pools = {p}
    Versions = {7}
    Absent = Absent
    MaxCalls = 2
INVARIANTS GuardsMatchCode LockProtocol
PROPERTIES Linearizable NumberNeverRegresses FrozenAfterPanic CallsEnd
