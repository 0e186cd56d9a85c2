\* A Stripe event's job and a classification job: rearms and adoptions, to the end.
SPECIFICATION FairSpec
CONSTANTS
  trigger1 = trigger1
  trigger2 = trigger2
  event = event
  subject = subject
  p1 = p1
  p2 = p2
  i1 = i1
  i2 = i2
  None = None
  Jobs <- KindsJobs
  Entities <- KindsEntities
  KindOf <- KindsKind
  EntityOf <- KindsEntity
  Gated <- KindsGated
  MaxAttempts <- KindsAttempts
  Procs <- MCProcs
  SlotIds <- OneSlot
  MaxRequests = 3
CHECK_DEADLOCK FALSE
INVARIANTS
  NoLostRequest
PROPERTIES
  JobsEnd
  KeepsFairPromise
