CONSTANTS
  w1 = w1
  r1 = r1
  r2 = r2
  a = a
  b = b
  c = c
  Writers = {w1}
  Readers = {r1, r2}
  Msgs = {a, b, c}
  DataSize <- MCDataSize
  MaxDataSize = 3
  TotalSize = 6
  BufferSize = 5
SPECIFICATION FairSpec
INVARIANTS ExclusiveAccess IInv
PROPERTIES WedgeIsPermanent ImplementsFifo ImplementsCalls SomeCallReturns
