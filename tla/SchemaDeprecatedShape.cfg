\* The shape of a deprecated field is edited under stored data.
SPECIFICATION Spec
CONSTANTS
  Tags = {t1, t2}
  Names = {a, b}
  Shapes <- MCShapes
  CodecWire <- MCCodecWire
SYMMETRY Symmetry
INVARIANT DeprecatedShapeHarmless
