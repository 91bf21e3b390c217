SPECIFICATION Spec
CONSTANTS
  Keys = {1, 2}
  Lens = {1, 2}
  Builds <- BothBuilds
  PREFIX_LEN = 1
  NORCOW_VERSION = 5
  FoundVersions = {4, 6}
  NONE = NONE
INVARIANTS TypeOK UniqueLive StaticsMatchFlash EnsureHolds
PROPERTY ImplementsKVStore
