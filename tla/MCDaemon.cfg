CONSTANTS
  params <- MCParams
  Pids = {1, 2, 3, 4}
  MaxForeign = 2
  MAX_FAIL_COUNT = 1
SPECIFICATION FairSpec
INVARIANTS PidIsChild NoStrayChild NoStartAfterReboot NoChildLeft
PROPERTIES CountsEveryFailure Restarted SigtermEnds
