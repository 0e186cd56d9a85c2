\* Two triggers of one entity, two processes of two slots each.
SPECIFICATION Spec
CONSTANTS
  trigger1 = trigger1
  trigger2 = trigger2
  event = event
  subject = subject
  p1 = p1
  p2 = p2
  i1 = i1
  i2 = i2
  None = None
  Jobs <- CoalescedJobs
  Entities <- CoalescedEntities
  KindOf <- CoalescedKind
  EntityOf <- CoalescedEntity
  Gated <- CoalescedGated
  MaxAttempts <- CoalescedAttempts
  Procs <- MCProcs
  SlotIds <- TwoSlots
  MaxRequests = 3
SYMMETRY Symmetric
CHECK_DEADLOCK FALSE
INVARIANTS
  OneActivePerEntity
PROPERTIES
  FencedSettlement
  FailsOnlyWhenSpent
  KeepsPromise
