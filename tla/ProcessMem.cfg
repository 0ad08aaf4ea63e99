SPECIFICATION FairSpec
CONSTANT DbType = "mem"
INVARIANT AnswersRecordedBalance
