SPECIFICATION Spec
CONSTANTS
  LOG_WORDS = 4
  WORD_BITS = 4
  BYTE_BITS = 2
  PIN_MAX_TRIES = 4
INVARIANT LastTryGranted
