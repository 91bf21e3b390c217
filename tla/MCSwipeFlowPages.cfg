SPECIFICATION Spec
CONSTANTS
  FLOWS <- OnlyGetAddress
  MAX_PAGES = 2
  MAX_STUCK = 0
PROPERTIES
  ComponentAskedFirst
CHECK_DEADLOCK FALSE
