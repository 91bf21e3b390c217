SPECIFICATION Spec
CONSTANTS
  Pins = {p1, p2}
  PIN_EMPTY = PIN_EMPTY
  WIPE_CODE_EMPTY = WIPE_CODE_EMPTY
  Protected = {a, b}
  Public = {}
  Writable = {}
  Vals = {v}
  DEKS = {1, 2, 3, 4, 5}
  PIN_MAX_TRIES = 3
  LOG_LIMIT = 4
  OLD_VERSIONS = {4}
  NORCOW_VERSION = 5
  MAX_LOSSES = 2
  NeedRoom <- AllKeys
  LostSets = {}
  MISSING = MISSING
  TORN = TORN
  NONE = NONE
INVARIANTS TypeOK GuessBound CounterCovers UnlockedSound PinIsNotWipeCode HasPinAgrees
PROPERTIES UnlockNeedsPin FaultNeedsLossOrFullLog
SYMMETRY Symmetry
