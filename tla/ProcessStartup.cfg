SPECIFICATION FairSpec
CONSTANT DbType = "badger"
PROPERTY StartupSeen
