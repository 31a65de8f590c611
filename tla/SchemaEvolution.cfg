\* Two tags, two names: fields are edited, removed, moved and reused.
SPECIFICATION Spec
CONSTANTS
  Tags = {t1, t2}
  Names = {a, b}
  Shapes <- MCShapes
  CodecWire <- MCCodecWire
SYMMETRY Symmetry
INVARIANTS
  StoredBlobsReadable
  
PROPERTY RollbackReads
