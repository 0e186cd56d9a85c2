\* Two devices in two revisions that replace each other; requests late, lost and retried.
SPECIFICATION Spec
CONSTANTS
  r1 = r1
  r2 = r2
  d1 = d1
  d2 = d2
  NoRevision = NoRevision
  Revisions <- TwoRevisions
  Devices <- TwoDevices
  Places <- MCPlaces
  Beginning = "cover"
  Matched <- OnlyCover
  Retries <- Once
  MaxNavigations <- TwoThenOne
  MaxDisposals <- OnlyFirst
SYMMETRY Symmetric
CHECK_DEADLOCK FALSE
INVARIANTS
  ActiveIsPublished
  NoPlaceForgotten
PROPERTIES
  NoSilentOverwrite
