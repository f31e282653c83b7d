CONSTANTS
  Releases <- MCReleases
  Current = 2
  Pids = {1, 2}
  MaxForeign = 0
  MAX_FAIL_COUNT = 1
SPECIFICATION FairSpec
PROPERTIES ChecksOnceADay
