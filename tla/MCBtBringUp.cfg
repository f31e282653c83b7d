CONSTANTS
  MaxFails = 1
  MaxDeaths = 2
CHECK_DEADLOCK FALSE
SPECIFICATION FairSpec
INVARIANTS ReadyAt115200
PROPERTIES BringUpEnds
