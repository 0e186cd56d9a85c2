\* One session, two handlers, every job fails after its second attempt.
SPECIFICATION FairJobSpec
CONSTANTS
  s1 = s1
  h1 = h1
  h2 = h2
  r1 = r1
  None = None
  MaxTries = 2
  Sessions <- OneSession
  Handlers <- TwoHandlers
  Requests <- OneRequest
CHECK_DEADLOCK FALSE
PROPERTIES
  PaidIsFulfilled
