\* A field that occurs twice in a body.
SPECIFICATION Spec
CONSTANTS
  Ints = {1, 2}
  Keys = {1, 2}
  ItemMsgs <- MCItemMsgs
  FieldSets <- MCFieldSets
  MaxLen = 2
  MaxMsg = 2
  MaxDecodes = 1
CHECK_DEADLOCK FALSE
INVARIANT
  DuplicateTagReplaces
