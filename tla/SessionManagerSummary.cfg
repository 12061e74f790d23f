SPECIFICATION Spec
CONSTANTS
  Types = {"user", "assistant", "toolResult", "label"}
  MaxEntries = 5
  MaxMoves = 0
  MaxFaults = 0
  Header = Header
  None = None
INVARIANTS
  SummariesGrow
CHECK_DEADLOCK FALSE
