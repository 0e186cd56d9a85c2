\* Overlapping dispatchers of one message beside one without a handler, under fairness.
SPECIFICATION BoxFairSpec
CONSTANTS
  mail = mail
  stray = stray
  p1 = p1
  p2 = p2
  i1 = i1
  None = None
  Jobs <- Messages
  Entities <- Messages
  KindOf <- BoxKind
  EntityOf <- BoxEntity
  Gated <- NotGated
  MaxAttempts <- BoxAttempts
  Unroutable <- NoHandler
  Procs <- MCProcs
  SlotIds <- MCSlotIds
  MaxRequests = 2
CHECK_DEADLOCK FALSE
INVARIANTS
  SucceededIsDelivered
PROPERTIES
  EveryMessageDecided
