SPECIFICATION FairSpec
CONSTANTS
  Pins = {p1, p2}
  PIN_EMPTY = PIN_EMPTY
  WIPE_CODE_EMPTY = WIPE_CODE_EMPTY
  Protected = {a}
  Public = {c}
  Writable = {d}
  Vals = {v}
  DEKS = {1, 2, 3, 4, 5}
  PIN_MAX_TRIES = 2
  LOG_LIMIT = 3
  OLD_VERSIONS = {4}
  NORCOW_VERSION = 5
  MAX_LOSSES = 1
  NeedRoom <- AllKeys
  LostSets <- OneEntry
  MISSING = MISSING
  TORN = TORN
  NONE = NONE
INVARIANTS GuessBound CounterCovers UnlockedSound PinIsNotWipeCode
PROPERTIES UnlockNeedsPin AlwaysUsableAgain
