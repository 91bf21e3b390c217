SPECIFICATION Spec
CONSTANTS
  LOG_WORDS = 4
  WORD_BITS = 8
  BYTE_BITS = 2
  PIN_MAX_TRIES = 8
INVARIANTS TypeOK CountInRange ExhaustedOnlyAtLimit
PROPERTY CountSteps
