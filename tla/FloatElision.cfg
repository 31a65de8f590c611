\* Floats are encoded, behind pointers and not, and read back.
CONSTANTS
  VarintBase = 64
  MaxVarintLen = 2
  Fixed32Size = 2
  Fixed64Size = 3
  MaxTag = 7
  MaxSliceAlloc = 2
  MaxDepth = 0
  MaxNanos = 9
  MaxScale = 4
  MaxLen = 0
  Alphabet = {}
  HandAlphabet = {}
  HandLengths = {}
  Inputs = {}
  ResetInputs = {}
  HandInputs = {}
  Schema <- MCSchema
  NotWritten <- MCNotWritten
  CodecOutputs <- MCCodecOutputs
  Roots = {}
  Values <- MCFloats
  Envs <- MCEnvs
  Readers <- MCReaders
SPECIFICATION RSpec
INVARIANT FloatsKeepBits
CHECK_DEADLOCK FALSE
