SPECIFICATION Spec
CONSTANTS
  Messages <- AllMessages
  Enums <- AllEnums
  NUMBERS = {0, 300, 2147483647}
  SIGNED <- SignedValues
  LENGTHS = {0, 200}
  UNKNOWN_TAGS = {255, 256}
  DEPTH = 2
INVARIANTS RequestUnderstood RefusedForCause TxAcksAccepted AnswerUnderstood
