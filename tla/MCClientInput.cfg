SPECIFICATION Spec
CONSTANTS
  Body <- MCBody
  Bytes <- MCBytes
  MaxCommandSize = 2
  RTF0 = TRUE
  MaxBacklog = 3
INVARIANTS
  TypeOK
  BlockExact
  NeverForgotten
PROPERTIES
  StreamSpec
