CONSTANTS
  PREV <- MCPrev
  INPUTS <- MCInputs
  OUTPUTS = 1
  OPS = {"Initialize", "GetAddress", "ResetDevice", "SignTx", "EthereumGetAddress", "EthereumSignTx"}
  MAX_CALLS = 2
  LENGTHS = {55, 56}
  CHUNK = 2
  DATA = {0, 2, 3, 5}
  MAX_ASKS = 2
  MAX_REQUESTS = 2
SPECIFICATION Spec
INVARIANTS
  AnswersMatch
  DataStreamed
PROPERTIES
  CallAnswered
CHECK_DEADLOCK FALSE
