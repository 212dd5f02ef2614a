CONSTANTS
  Client = {c1, c2}
  Files <- MCFiles
  Missing <- MCMissing
  NameBuffers <- MCNameBuffers
  OldCopies <- MCOldCopies
  Window = 1
  JunkLimit = 1
  None = None
SPECIFICATION FairSpec
INVARIANTS
  TypeOK
  WrongNameOnlyAfterLonger
  FinishedCopyIsWhole
  DeathSparesNoOther
PROPERTY
  TransfersEnd
CHECK_DEADLOCK FALSE
