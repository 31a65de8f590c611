\* One-byte keys: 8 (tag 1 varint), 10 and 18 (tags 1 and 2 length-delimited),
\* 26 and 27 (the unknown tag 3, length-delimited and fixed32).  Varints of two
\* bytes start at 64.
\* Hand-written decoders meet more of the Reader: 66 = 64+2 carries the
\* continuation bit, <<66, 0>> is 2, <<66, 1>> is 66, above MaxInt = 63 and, as a
\* key, above MaxTag; <<66, 2>> overflows.  Key 13 has a reserved wire type and
\* keys 0 to 7 the reserved tag 0.
CONSTANTS
  VarintBase = 64
  MaxVarintLen = 2
  Fixed32Size = 2
  Fixed64Size = 3
  MaxTag = 7
  MaxSliceAlloc = 2
  MaxDepth = 2
  MaxNanos = 9
  MaxScale = 4
  MaxLen = 4
  Alphabet = {0, 1, 3, 8, 18, 26}
  Inputs <- AllInputs
  ResetInputs <- OneReset
  HandAlphabet = {0, 1, 2, 10, 13, 66}
  HandLengths = {1, 2, 66}
  HandInputs <- HandWrittenInputs
  Schema <- MCSchema
  NotWritten <- MCNotWritten
  CodecOutputs <- MCCodecOutputs
  Roots = {"List", "Dict"}
  Values <- MCValues
  Envs <- MCEnvs
  Readers <- MCReaders
SPECIFICATION RSpec
INVARIANTS RegionsNested RegionsMatchFrames AcceptsWholeInput AcceptsExactlyWellFormed ReadsBack SizeMatchesMarshal
PROPERTIES FirstErrorSticks DecodeTerminates
CHECK_DEADLOCK FALSE
