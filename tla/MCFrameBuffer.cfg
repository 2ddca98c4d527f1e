CONSTANTS
    Capacity = 4
    Readers = {r1, r2}
    NoEntry = NoEntry
    MaxPushes = 8
SPECIFICATION Spec
INVARIANTS
    RingHoldsNewest
    ReadsArePublished
    SnapshotMissesOnlyReplaced
    LatestIsFresh
