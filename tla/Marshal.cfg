\* The encoder: two passes, three Writers, streaming, failures at every step.
SPECIFICATION Spec
CONSTANTS
  VarintBase = 4
  MaxVarintLen = 4
  Fixed32Size = 2
  Fixed64Size = 3
  Chunks <- MCChunks
  Payloads <- MCPayloads
  Slots = {s1, s2}
  OptionSet <- MCOptions
  FrameLens <- MCFrames
  Threshold = 3
  ReservedLen = 2
  MaxUint32 = 14
  MaxOps = 5
  MaxNesting = 2
SYMMETRY SlotSymmetry
INVARIANTS
  SizePassExact
  BlobIsCanonical
  StreamedPrefix
  OneMaterialization
  NothingOnEncodeError
