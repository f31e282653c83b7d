CONSTANTS
  w1 = w1
  w2 = w2
  w3 = w3
  Workers = {w1, w2, w3}
  MqMax = 2
  MaxUp = 4
  MaxDown = 2
  Length <- MCLength
  MinWrite = 2
  TotalSize = 6
  BufferSize = 5
SPECIFICATION FairSpec
INVARIANTS NoOrphans EachInOnePlace TakenInOrder
PROPERTIES BuffersDrain
