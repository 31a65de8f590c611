\* Two blobs, one damaged word, a reader with a limit.
SPECIFICATION Spec
CONSTANTS
  Kinds <- MCKinds
  MaxBlobs = 2
  MaxFaults = 1
  MaxBodyLen = 2
  InflateCap = 3
  SizeOver = 9
INVARIANTS
  ReadsExactPrefix
  FailsOnlyWhereTorn
  HeaderAgreement
  TornSliceRejected
PROPERTY ImplementsQueue
CHECK_DEADLOCK FALSE
