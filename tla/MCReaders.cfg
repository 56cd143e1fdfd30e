\* A walk through four records or audit entries with up to three writes, or one
\* summary while up to three entries are appended.  An int of four bits.
SPECIFICATION Spec
CONSTANTS
    Present <- MCPresent
    PageSizes <- MCPageSizes
    FirstPages = {0, 2, 6, 7}
    DefaultSize = 2
    LargestSize = 3
    LargestInt = 7
    MaxWrites = 3
    Actions = {"update", "transition"}
    Actors = {"operator", "reviewer"}
    EntityTypes = {"BridgeAsset", "PriorityDecision"}
    OldEntries <- MCOldEntries
    MaxEntries = 4
INVARIANTS
    WalkMissesNothing
    SummaryConsistent
PROPERTIES
    PageIsItsSlice
