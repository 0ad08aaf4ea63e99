SPECIFICATION FairSpec
CONSTANT DbType = "badger"
INVARIANTS
    NoOrphanDcrd
    DbClosedAtExit
PROPERTIES
    ShutdownEnds
    FailureEnds
