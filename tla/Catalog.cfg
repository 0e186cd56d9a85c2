\* A revision retried by an administrator, its executions overlapping; publication, a cover, cleanups; fairness.
SPECIFICATION FairSpec
CONSTANTS
  r1 = r1
  a1 = a1
  c1 = c1
  NoRevision = NoRevision
  MaxLive = 2
  Revisions <- OneRevision
  MaxGeneration <- RetriedOnce
  MaxAttempts <- TwoThenOne
  Admins <- OneAdmin
  CoverKeys <- OneCover
CHECK_DEADLOCK FALSE
INVARIANTS
  FinishedIsComplete
PROPERTIES
  SourceKept
  ShowsFinished
  EveryUploadDecided
