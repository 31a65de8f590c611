\* Programs of three structs and Go types three layers deep; the nesting limit
\* is 2 for 3 so that it is passed.
CONSTANTS
  Programs <- MCPrograms
  Registry <- MCRegistry
  MaxNestingDepth = 2

SPECIFICATION Spec

INVARIANTS
  ClosureExact
  NoInfiniteDescent
  TagSpaceSound
  MemoExact
  

\* The tool ends with a verdict or a set of files.
CHECK_DEADLOCK FALSE
