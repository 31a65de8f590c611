\* MaxAlloc is 16 MiB and Uint64 2^64 in the code; 4 * 2 wraps to 0.
CONSTANTS
  Words = {0, 1}
  Zero = 0
  Types = {"T", "U"}
  Sizeof <- MCSizeof
  Chunk <- MCChunk
  MaxDistinct = 1
  MaxAlloc = 2
  Uint64 = 8
  SrcLen = 2
  MaxLength = 4
  MaxViews = 3

SPECIFICATION Spec

INVARIANTS
  KeepsValue
  Apart
  BoundedSlices
