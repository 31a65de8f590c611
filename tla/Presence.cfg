\* The presence sidecar shared by goroutines, at a reused address.
SPECIFICATION Spec
CONSTANTS
  Procs = {p1, p2}
  Types = {Parent, Nested}
  Addrs = {a1}
  Nil = Nil
  None = None
  Masks = {m1, m2, m3, m4}
  MaxTrackedTag = 2
  WordBits = 1
  Modulus = 8
  TagsOf <- MCTagsOf
  Parent = Parent
  Nested = Nested
SYMMETRY Symmetry
INVARIANTS
  NoLostMark
  NoPhantom
  NeverPanics
