\* Starts that fail or are cut short, deletions and creations between them.
SPECIFICATION Spec
CONSTANTS
    Tables <- MCTables
    SeedCodes <- MCSeedCodes
    OtherCodes <- MCOtherCodes
    Deletable <- MCDeletable
    Attempts = 3
    MaxInterruptions = 3
INVARIANTS
    TypeOK
    SeededWholeAndInOrder
PROPERTIES
    RestartKeepsRecords
    Restarts
