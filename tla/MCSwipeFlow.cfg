SPECIFICATION Spec
CONSTANTS
  FLOWS <- MCFlows
  MAX_PAGES = 2
  MAX_STUCK = 1
INVARIANTS
  WordsAllShown
  SwipingComesBack
  FramesKeepComing
CHECK_DEADLOCK FALSE
