CONSTANTS
  MaxCalls = 3
  MaxBreaks = 1
SPECIFICATION FairSpec
PROPERTY ConnectAnswered
CHECK_DEADLOCK FALSE
