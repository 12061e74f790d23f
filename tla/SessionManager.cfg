SPECIFICATION Spec
CONSTANTS
  Types = {"user", "assistant", "toolResult", "label"}
  MaxEntries = 5
  MaxMoves = 2
  MaxFaults = 1
  Header = Header
  None = None
INVARIANTS
  Intact
  DroppedIsSummarised
  ResultsFollowCalls
  
PROPERTIES
  ForkKeepsContext
CHECK_DEADLOCK FALSE
