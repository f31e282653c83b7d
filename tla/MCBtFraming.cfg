CONSTANTS
  Frames <- MCFrames
  MaxFrames = 3
  MaxReads = {8, 30}
SPECIFICATION FairSpec
INVARIANTS NothingLost KeepsUp
PROPERTIES AllStored
