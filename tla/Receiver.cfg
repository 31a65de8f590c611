\* A pooled receiver decoded into twice.
SPECIFICATION Spec
CONSTANTS
  Ints = {1, 2}
  Keys = {1, 2}
  ItemMsgs <- MCItemMsgs
  FieldSets <- MCFieldSets
  MaxLen = 2
  MaxMsg = 2
  MaxDecodes = 2
INVARIANTS
  ReuseIsInvisible
  HeldPointersStable
  LastOccurrenceWins
CHECK_DEADLOCK FALSE
