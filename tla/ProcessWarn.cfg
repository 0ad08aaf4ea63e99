SPECIFICATION FairSpec
CONSTANT DbType = "badger"
INVARIANT TruncationReported
