SPECIFICATION WatchSpec
CONSTANTS
    MaxU64 = 5
    NoHash = NoHash
    Genesis = Genesis
    a1 = a1
    a2 = a2
    a3 = a3
    a4 = a4
    b2 = b2
    b3 = b3
    Blocks <- MCBlocks
    Height <- MCHeight
    Parent <- MCParent
    Hashes <- MCHashes
    PollStart = 2
    MaxPolls = 2
    MaxWire = 1
INVARIANTS SizedOnlyWhenSynchronized
