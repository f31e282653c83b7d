--------------------------- MODULE AppBuffer_proofs ---------------------------
(***************************************************************************)
(* Proofs about the double buffer, for every number of writers and readers *)
(* and every message length, allocation size and array size.               *)
(***************************************************************************)
EXTENDS AppBuffer, SequenceTheorems, TLAPS

------------------------------------------------------------------------------
(* Layouts: what one message more or less does to the bytes in use. *)

(* An empty sub-buffer is one with no bytes in use, and only that one. *)
LEMMA EncodesEmpty ==
  ASSUME NEW s \in Seq(Msgs), NEW n \in Nat
  PROVE  /\ Encodes(<<>>, 0)
         /\ Encodes(s, n) => (n = 0 <=> s = <<>>)
<1>1. Encodes(<<>>, 0)
  <2>1. IsLayout([k \in 1..1 |-> 0], <<>>, 0)
    BY DEF IsLayout
  <2>2. [k \in 1..1 |-> 0] \in [1..(Len(<<>>) + 1) -> 0..0]
    OBVIOUS
  <2> QED BY <2>1, <2>2 DEF Encodes
<1>2. ASSUME Encodes(s, n)
      PROVE  n = 0 <=> s = <<>>
  <2>1. PICK off \in [1..(Len(s) + 1) -> 0..n] : IsLayout(off, s, n)
    BY <1>2 DEF Encodes
  <2>2. Len(s) \in Nat /\ (Len(s) = 0 <=> s = <<>>)
    BY EmptySeq, LenProperties
  <2>3. CASE Len(s) = 0
    BY <2>1, <2>2, <2>3 DEF IsLayout
  <2>4. CASE Len(s) # 0
    <3>1. 1 \in 1..(Len(s) + 1) /\ Len(s) + 1 \in 1..(Len(s) + 1) /\ 1 < Len(s) + 1
      BY <2>2, <2>4
    <3>2. off[1] < off[Len(s) + 1]
      BY <2>1, <3>1 DEF IsLayout
    <3> QED BY <2>1, <2>2, <2>4, <3>2 DEF IsLayout
  <2> QED BY <2>3, <2>4
<1> QED BY <1>1, <1>2

(* Appending a message extends the layout by its length byte and its data. *)
LEMMA EncodesAppend ==
  ASSUME NEW s \in Seq(Msgs), NEW n \in Nat, NEW m \in Msgs, Encodes(s, n)
  PROVE  Encodes(Append(s, m), n + 1 + DataSize[m])
<1> DEFINE d   == 1 + DataSize[m]
           a   == Append(s, m)
           L   == Len(s)
<1>1. PICK off \in [1..(L + 1) -> 0..n] : IsLayout(off, s, n)
  BY DEF Encodes
<1>2. L \in Nat /\ d \in Nat /\ d > 0 /\ DataSize[m] \in Nat
  BY LenProperties, BufferAssumption
<1>3. /\ Len(a) = L + 1
      /\ \A k \in 1..L : a[k] = s[k]
      /\ a[L + 1] = m
  BY AppendProperties
<1> DEFINE new == [k \in 1..(L + 2) |-> IF k <= L + 1 THEN off[k] ELSE n + d]
<1>4. new \in [1..(Len(a) + 1) -> 0..(n + d)]
  BY <1>1, <1>2, <1>3
<1>5. new[1] = 0 /\ new[Len(a) + 1] = n + d
  BY <1>1, <1>2, <1>3 DEF IsLayout
<1>6. ASSUME NEW k \in 1..Len(a)
      PROVE  new[k + 1] = new[k] + 1 + DataSize[a[k]]
  <2>1. CASE k \in 1..L
    <3>1. off[k + 1] = off[k] + 1 + DataSize[s[k]] /\ a[k] = s[k]
      BY <1>1, <1>3, <2>1 DEF IsLayout
    <3>2. new[k + 1] = off[k + 1] /\ new[k] = off[k]
      BY <1>2, <2>1
    <3> QED BY <3>1, <3>2
  <2>2. CASE k = L + 1
    <3>1. off[L + 1] = n
      BY <1>1 DEF IsLayout
    <3>2. new[k + 1] = n + d /\ new[k] = n
      BY <1>2, <2>2, <3>1
    <3>3. a[k] = m
      BY <1>3, <2>2
    <3>4. n + d = n + 1 + DataSize[m]
      BY <1>2
    <3> HIDE DEF new, a
    <3> QED BY <3>2, <3>3, <3>4
  <2> QED BY <1>2, <1>3, <2>1, <2>2
<1>7. ASSUME NEW j \in 1..(Len(a) + 1), NEW k \in 1..(Len(a) + 1), j < k
      PROVE  new[j] < new[k]
  <2>1. CASE k \in 1..(L + 1)
    BY <1>1, <1>2, <1>7, <2>1 DEF IsLayout
  <2>2. CASE k = L + 2
    <3>1. j \in 1..(L + 1) /\ off[j] \in 0..n
      BY <1>1, <1>2, <1>3, <1>7, <2>2
    <3> QED BY <1>2, <2>2, <3>1
  <2> QED BY <1>2, <1>3, <2>1, <2>2
<1>8. IsLayout(new, a, n + d)
  <2> HIDE DEF new, a, d
  <2> QED BY <1>5, <1>6, <1>7 DEF IsLayout
<1>9. Encodes(a, n + d)
  <2> HIDE DEF new, a, d
  <2> QED BY <1>4, <1>8 DEF Encodes
<1>10. n + d = n + 1 + DataSize[m]
  BY <1>2
<1> QED BY <1>9, <1>10

(* Taking the oldest message away gives its bytes back, no more than that. *)
LEMMA EncodesTail ==
  ASSUME NEW s \in Seq(Msgs), NEW n \in Nat, s # <<>>, Encodes(s, n)
  PROVE  /\ n - DataSize[Head(s)] - 1 \in Nat
         /\ Encodes(Tail(s), n - DataSize[Head(s)] - 1)
<1> DEFINE d == DataSize[Head(s)] + 1
           b == Tail(s)
           L == Len(s)
<1>1. PICK off \in [1..(L + 1) -> 0..n] : IsLayout(off, s, n)
  BY DEF Encodes
<1>2. /\ L \in Nat \ {0}
      /\ Head(s) = s[1] /\ Head(s) \in Msgs
      /\ b \in Seq(Msgs) /\ Len(b) = L - 1
      /\ \A k \in 1..Len(b) : b[k] = s[k + 1]
  BY HeadTailProperties, EmptySeq, LenProperties
<1>3. d \in Nat
  BY <1>2, BufferAssumption
<1>4. off[2] = d
  BY <1>1, <1>2, <1>3, BufferAssumption DEF IsLayout
<1>5. \A k \in 1..L : off[k + 1] \in d..n
  <2> SUFFICES ASSUME NEW k \in 1..L
               PROVE  off[k + 1] \in d..n
    OBVIOUS
  <2>1. off[k + 1] \in 0..n /\ (k # 1 => off[2] < off[k + 1])
    BY <1>1, <1>2 DEF IsLayout
  <2> QED BY <1>3, <1>4, <2>1
<1>6. n - d \in Nat
  BY <1>2, <1>3, <1>5
<1> DEFINE new == [k \in 1..L |-> off[k + 1] - d]
<1>7. new \in [1..(Len(b) + 1) -> 0..(n - d)]
  BY <1>1, <1>2, <1>3, <1>5, <1>6
<1>8. new[1] = 0 /\ new[Len(b) + 1] = n - d
  BY <1>1, <1>2, <1>3, <1>4 DEF IsLayout
<1>9. ASSUME NEW k \in 1..Len(b)
      PROVE  new[k + 1] = new[k] + 1 + DataSize[b[k]]
  <2>1. k \in 1..L /\ k + 1 \in 1..L
    BY <1>2
  <2>2. off[k + 2] = off[k + 1] + 1 + DataSize[s[k + 1]]
    BY <1>1, <1>2, <2>1 DEF IsLayout
  <2>3. b[k] = s[k + 1] /\ DataSize[b[k]] \in Nat
    BY <1>2, BufferAssumption, ElementOfSeq
  <2>4. off[k + 1] \in Int /\ off[k + 2] \in Int
    BY <1>1, <1>2
  <2>5. new[k] = off[k + 1] - d /\ new[k + 1] = off[k + 2] - d
    BY <2>1
  <2>6. DataSize[s[k + 1]] = DataSize[b[k]]
    BY <2>3
  <2>7. off[k + 2] - d = (off[k + 1] - d) + 1 + DataSize[b[k]]
    <3>1. \A x, y, e, z \in Int : x = y + 1 + z => x - e = (y - e) + 1 + z
      OBVIOUS
    <3>2. off[k + 2] = off[k + 1] + 1 + DataSize[b[k]]
      BY <2>2, <2>6
    <3>3. d \in Int /\ DataSize[b[k]] \in Int
      BY <1>3, <2>3
    <3> HIDE DEF b, d
    <3> QED BY <2>4, <3>1, <3>2, <3>3
  <2> HIDE DEF new, b, d
  <2> QED BY <2>5, <2>7
<1>10. ASSUME NEW j \in 1..(Len(b) + 1), NEW k \in 1..(Len(b) + 1), j < k
       PROVE  new[j] < new[k]
  <2>1. off[j + 1] < off[k + 1]
    BY <1>1, <1>2, <1>10 DEF IsLayout
  <2> QED BY <1>1, <1>2, <1>3, <1>5, <2>1
<1>11. IsLayout(new, b, n - d)
  <2> HIDE DEF new, b, d
  <2> QED BY <1>8, <1>9, <1>10 DEF IsLayout
<1>12. Encodes(b, n - d)
  <2> HIDE DEF new, b, d
  <2> QED BY <1>7, <1>11 DEF Encodes
<1>13. n - DataSize[Head(s)] - 1 = n - d
  BY <1>2, BufferAssumption
<1> QED BY <1>6, <1>12, <1>13
------------------------------------------------------------------------------
(* The inductive invariant *)

(* What is encoded takes a natural number of bytes. *)
LEMMA EncodesNat ==
  ASSUME NEW s \in Seq(Msgs), NEW n \in Int, Encodes(s, n)
  PROVE  n \in Nat
<1>1. PICK off \in [1..(Len(s) + 1) -> 0..n] : IsLayout(off, s, n)
  BY DEF Encodes
<1>2. 1 \in 1..(Len(s) + 1)
  BY LenProperties
<1>3. off[1] \in 0..n
  BY <1>1, <1>2
<1> QED BY <1>3

(* A message is half written exactly while its writer is between the length *)
(* byte and the copy, so a step elsewhere half writes nothing.              *)
LEMMA HalfWrittenFrame ==
  ASSUME TypeOK, NEW t \in Threads, NEW from, NEW to, Goto(t, from, to),
         from # "w_data", to # "w_data",
         \A u \in Threads : u # t => sub'[u] = sub[u]
  PROVE  \A i \in 0..1 : HalfWritten(i)' <=> HalfWritten(i)
BY DEF HalfWritten, Goto, TypeOK

(* So the accounting of the bytes survives a step that leaves them alone.   *)
LEMMA UsedFrame ==
  ASSUME TypeOK, UsedIsExact, UNCHANGED <<msgs, used>>,
         NEW t \in Threads, NEW from, NEW to, Goto(t, from, to),
         from # "w_data", to # "w_data",
         \A u \in Threads : u # t => sub'[u] = sub[u]
  PROVE  UsedIsExact'
<1>1. \A i \in 0..1 : HalfWritten(i)' <=> HalfWritten(i)
  BY HalfWrittenFrame
<1>2. ASSUME NEW i \in 0..1
      PROVE  /\ Encodes(msgs'[i], used'[i] - (IF HalfWritten(i)' THEN 1 ELSE 0))
             /\ used'[i] <= TotalSize
  <2>1. (IF HalfWritten(i)' THEN 1 ELSE 0) = (IF HalfWritten(i) THEN 1 ELSE 0)
    BY <1>1
  <2> QED BY <2>1 DEF UsedIsExact
<1> QED BY <1>2 DEF UsedIsExact, Encodes, IsLayout

(* The initial state has the inductive invariant. *)
THEOREM InitInvariant == Init => IInv
<1> SUFFICES ASSUME Init
             PROVE  IInv
  OBVIOUS
<1>1. TypeOK
  BY DEF Init, TypeOK, Locations, HoldsRead, HoldsWrite
<1>2. OppositeRoles /\ LocksHeld
  BY DEF Init, OppositeRoles, LocksHeld, HoldsRead, HoldsWrite
<1>3. \A t \in Threads : WriterLocals(t) /\ ReaderLocals(t)
  BY DEF Init, WriterLocals, ReaderLocals
<1>4. ASSUME NEW i \in 0..1
      PROVE  Encodes(msgs[i], used[i] - (IF HalfWritten(i) THEN 1 ELSE 0))
  <2>1. msgs[i] = <<>> /\ used[i] = 0 /\ ~HalfWritten(i)
    BY DEF Init, HalfWritten
  <2>2. used[i] - (IF HalfWritten(i) THEN 1 ELSE 0) = 0
    <3>1. (IF HalfWritten(i) THEN 1 ELSE 0) = 0
      BY <2>1
    <3>2. 0 - 0 = 0
      OBVIOUS
    <3> QED BY <2>1, <3>1, <3>2
  <2>3. <<>> \in Seq(Msgs) /\ 0 \in Nat
    OBVIOUS
  <2> QED BY <2>1, <2>2, <2>3, EncodesEmpty
<1>5. \A i \in 0..1 : used[i] <= TotalSize
  BY BufferAssumption DEF Init
<1> QED BY <1>1, <1>2, <1>3, <1>4, <1>5 DEF IInv, UsedIsExact

(* A reader about to copy or to shift has a message in front of it: nobody   *)
(* half writes the sub-buffer it reads.                                      *)
LEMMA ReaderHasMessage ==
  ASSUME IInv, NEW t \in Threads, pc[t] \in {"r_size", "r_copy", "r_shift"}
  PROVE  /\ msgs[sub[t]] \in Seq(Msgs) /\ msgs[sub[t]] # <<>>
         /\ First(msgs[sub[t]]) = Head(msgs[sub[t]])
         /\ Head(msgs[sub[t]]) \in Msgs
         /\ ~HalfWritten(sub[t])
         /\ Encodes(msgs[sub[t]], used[sub[t]])
<1>1. ~HalfWritten(sub[t])
  BY DEF IInv, HalfWritten, OppositeRoles, WriterLocals, ReaderLocals, TypeOK
<1>2. sub[t] \in 0..1 /\ msgs[sub[t]] \in Seq(Msgs) /\ used[sub[t]] \in Nat
  BY DEF IInv, TypeOK
<1>3. Encodes(msgs[sub[t]], used[sub[t]])
  <2>1. used[sub[t]] - (IF HalfWritten(sub[t]) THEN 1 ELSE 0) = used[sub[t]]
    BY <1>1, <1>2
  <2> QED BY <1>2, <2>1 DEF IInv, UsedIsExact
<1>4. msgs[sub[t]] # <<>>
  BY <1>2, <1>3, EncodesEmpty DEF IInv, ReaderLocals
<1> QED BY <1>1, <1>2, <1>3, <1>4, HeadTailProperties DEF First

(* Every step of app_buffer_write preserves it. *)
LEMMA WriteInvariant ==
  ASSUME IInv, NEW t \in Writers, Write(t)
  PROVE  IInv'
<1>0. t \in Threads
  BY DEF Threads
<1>a. ASSUME NEW m \in Msgs, WriteCall(t, m)
      PROVE  IInv'
  <2>1. TypeOK'
    BY <1>a DEF IInv, TypeOK, WriteCall, Goto, Locations, HoldsRead, HoldsWrite, Threads
  <2>2. OppositeRoles'
    BY <1>a DEF IInv, OppositeRoles, WriteCall
  <2>3. LocksHeld'
    BY <1>a DEF IInv, LocksHeld, WriteCall, Goto, TypeOK, HoldsRead, HoldsWrite
  <2>4. ASSUME NEW u \in Threads PROVE WriterLocals(u)' /\ ReaderLocals(u)'
    BY <1>0, <1>a, <2>4 DEF IInv, WriterLocals, ReaderLocals, WriteCall, Goto, TypeOK
  <2>5. UsedIsExact'
    BY <1>0, <1>a, UsedFrame DEF IInv, WriteCall, Goto, TypeOK
  <2> QED BY <2>1, <2>2, <2>3, <2>4, <2>5 DEF IInv
<1>b. ASSUME NEW m \in Msgs, WriteInvalid(t, m)
      PROVE  IInv'
  <2>1. TypeOK'
    BY <1>b DEF IInv, TypeOK, WriteInvalid, Goto, Locations, HoldsRead, HoldsWrite, Threads, Failures
  <2>2. OppositeRoles'
    BY <1>b DEF IInv, OppositeRoles, WriteInvalid
  <2>3. LocksHeld'
    BY <1>b DEF IInv, LocksHeld, WriteInvalid, Goto, TypeOK, HoldsRead, HoldsWrite
  <2>4. ASSUME NEW u \in Threads PROVE WriterLocals(u)' /\ ReaderLocals(u)'
    BY <1>0, <1>b, <2>4 DEF IInv, WriterLocals, ReaderLocals, WriteInvalid, Goto, TypeOK
  <2>5. UsedIsExact'
    BY <1>0, <1>b, UsedFrame DEF IInv, WriteInvalid, Goto, TypeOK
  <2> QED BY <2>1, <2>2, <2>3, <2>4, <2>5 DEF IInv
<1>1. CASE WriteLock(t)
  <2>1. TypeOK'
    BY <1>1, <1>0 DEF IInv, TypeOK, WriteLock, Goto, Locations, HoldsRead, HoldsWrite, Threads, Failures
  <2>2. OppositeRoles'
    BY <1>0, <1>1 DEF IInv, OppositeRoles, WriteLock, Goto, TypeOK
  <2>3. LocksHeld'
    BY <1>0, <1>1 DEF IInv, LocksHeld, WriteLock, Goto, TypeOK, HoldsRead, HoldsWrite
  <2>4. ASSUME NEW u \in Threads PROVE WriterLocals(u)'
    BY <1>0, <1>1, <2>4 DEF IInv, LocksHeld, OppositeRoles, WriterLocals, WriteLock, Goto, TypeOK, HoldsRead, HoldsWrite
  <2>5. ASSUME NEW u \in Threads PROVE ReaderLocals(u)'
    BY <1>0, <1>1, <2>5 DEF IInv, LocksHeld, OppositeRoles, ReaderLocals, WriteLock, Goto, TypeOK, HoldsRead, HoldsWrite
  <2>6. UsedIsExact'
    BY <1>0, <1>1, UsedFrame DEF IInv, WriteLock, Goto, TypeOK
  <2> QED BY <2>1, <2>2, <2>3, <2>4, <2>5, <2>6 DEF IInv
<1>2. CASE WriteRoom(t)
  <2>1. TypeOK'
    BY <1>2, <1>0 DEF IInv, TypeOK, WriteRoom, Goto, Locations, HoldsRead, HoldsWrite, Threads, Failures
  <2>2. OppositeRoles'
    BY <1>0, <1>2 DEF IInv, OppositeRoles, WriteRoom, Goto, TypeOK
  <2>3. LocksHeld'
    BY <1>0, <1>2 DEF IInv, LocksHeld, WriteRoom, Goto, TypeOK, HoldsRead, HoldsWrite
  <2>4. ASSUME NEW u \in Threads PROVE WriterLocals(u)'
    BY <1>0, <1>2, <2>4 DEF IInv, LocksHeld, OppositeRoles, WriterLocals, WriteRoom, Goto, TypeOK, HoldsRead, HoldsWrite
  <2>5. ASSUME NEW u \in Threads PROVE ReaderLocals(u)'
    BY <1>0, <1>2, <2>5 DEF IInv, LocksHeld, OppositeRoles, ReaderLocals, WriteRoom, Goto, TypeOK, HoldsRead, HoldsWrite
  <2>6. UsedIsExact'
    BY <1>0, <1>2, UsedFrame DEF IInv, WriteRoom, Goto, TypeOK
  <2> QED BY <2>1, <2>2, <2>3, <2>4, <2>5, <2>6 DEF IInv
<1>3. CASE WriteFull(t)
  <2>1. TypeOK'
    BY <1>3, <1>0 DEF IInv, TypeOK, WriteFull, Goto, Locations, HoldsRead, HoldsWrite, Threads, Failures
  <2>2. OppositeRoles'
    BY <1>0, <1>3 DEF IInv, OppositeRoles, WriteFull, Goto, TypeOK
  <2>3. LocksHeld'
    BY <1>0, <1>3 DEF IInv, LocksHeld, WriteFull, Goto, TypeOK, HoldsRead, HoldsWrite
  <2>4. ASSUME NEW u \in Threads PROVE WriterLocals(u)'
    BY <1>0, <1>3, <2>4 DEF IInv, LocksHeld, OppositeRoles, WriterLocals, WriteFull, Goto, TypeOK, HoldsRead, HoldsWrite
  <2>5. ASSUME NEW u \in Threads PROVE ReaderLocals(u)'
    BY <1>0, <1>3, <2>5 DEF IInv, LocksHeld, OppositeRoles, ReaderLocals, WriteFull, Goto, TypeOK, HoldsRead, HoldsWrite
  <2>6. UsedIsExact'
    BY <1>0, <1>3, UsedFrame DEF IInv, WriteFull, Goto, TypeOK
  <2> QED BY <2>1, <2>2, <2>3, <2>4, <2>5, <2>6 DEF IInv
<1>4. CASE WriteUnlock(t)
  <2>1. TypeOK'
    BY <1>4, <1>0 DEF IInv, TypeOK, WriteUnlock, Goto, Locations, HoldsRead, HoldsWrite, Threads, Failures
  <2>2. OppositeRoles'
    BY <1>0, <1>4 DEF IInv, OppositeRoles, WriteUnlock, Goto, TypeOK
  <2>3. LocksHeld'
    BY <1>0, <1>4 DEF IInv, LocksHeld, WriteUnlock, Goto, TypeOK, HoldsRead, HoldsWrite
  <2>4. ASSUME NEW u \in Threads PROVE WriterLocals(u)'
    BY <1>0, <1>4, <2>4 DEF IInv, LocksHeld, OppositeRoles, WriterLocals, WriteUnlock, Goto, TypeOK, HoldsRead, HoldsWrite
  <2>5. ASSUME NEW u \in Threads PROVE ReaderLocals(u)'
    BY <1>0, <1>4, <2>5 DEF IInv, LocksHeld, OppositeRoles, ReaderLocals, WriteUnlock, Goto, TypeOK, HoldsRead, HoldsWrite
  <2>6. UsedIsExact'
    BY <1>0, <1>4, UsedFrame DEF IInv, WriteUnlock, Goto, TypeOK
  <2> QED BY <2>1, <2>2, <2>3, <2>4, <2>5, <2>6 DEF IInv
<1>5. CASE WriteLength(t)
  <2>1. /\ pc[t] = "w_len" /\ sub[t] \in 0..1 /\ sub[t] = write_index
        /\ used[sub[t]] + 1 + DataSize[arg[t]] <= TotalSize
        /\ DataSize[arg[t]] \in Nat /\ used \in [0..1 -> Nat] /\ t \in write_mutex
    BY <1>0, <1>5, BufferAssumption DEF IInv, TypeOK, LocksHeld, WriterLocals, WriteLength, Goto, HoldsWrite
  <2>2. \A u \in Threads : u # t => pc[u] \notin HoldsWrite
    BY <2>1 DEF IInv, LocksHeld
  <2>3. TypeOK'
    BY <1>0, <1>5, <2>1 DEF IInv, TypeOK, WriteLength, Goto, Locations, HoldsRead, HoldsWrite, Threads
  <2>4. OppositeRoles' /\ LocksHeld'
    BY <1>0, <1>5 DEF IInv, OppositeRoles, LocksHeld, WriteLength, Goto, TypeOK, HoldsRead, HoldsWrite
  <2>5. ASSUME NEW u \in Threads PROVE WriterLocals(u)'
    BY <1>0, <1>5, <2>1, <2>2, <2>5 DEF IInv, WriterLocals, WriteLength, Goto, TypeOK, HoldsWrite
  <2>6. ASSUME NEW u \in Threads PROVE ReaderLocals(u)'
    BY <1>0, <1>5, <2>1, <2>2, <2>6 DEF IInv, OppositeRoles, ReaderLocals, WriteLength, Goto, TypeOK, HoldsWrite
  <2>7. ASSUME NEW i \in 0..1
        PROVE  /\ Encodes(msgs'[i], used'[i] - (IF HalfWritten(i)' THEN 1 ELSE 0))
               /\ used'[i] <= TotalSize
    <3>1. msgs' = msgs
      BY <1>5 DEF WriteLength
    <3>2. HalfWritten(i)' <=> i = sub[t]
      BY <1>0, <1>5, <2>1, <2>2 DEF HalfWritten, WriteLength, Goto, IInv, TypeOK, HoldsWrite
    <3>3. ~HalfWritten(i)
      BY <1>0, <2>1, <2>2 DEF HalfWritten, HoldsWrite
    <3>4. used'[i] = IF i = sub[t] THEN used[i] + 1 ELSE used[i]
      BY <1>5, <2>1 DEF WriteLength
    <3>5. used'[i] - (IF HalfWritten(i)' THEN 1 ELSE 0)
            = used[i] - (IF HalfWritten(i) THEN 1 ELSE 0)
      BY <2>1, <3>2, <3>3, <3>4
    <3>6. used'[i] <= TotalSize
      BY <2>1, <3>4, BufferAssumption DEF IInv, UsedIsExact
    <3> QED BY <3>1, <3>5, <3>6 DEF IInv, UsedIsExact
  <2>8. UsedIsExact'
    BY <2>7 DEF UsedIsExact, Encodes, IsLayout
  <2> QED BY <2>3, <2>4, <2>5, <2>6, <2>8 DEF IInv
<1>6. CASE WriteData(t)
  <2>1. /\ pc[t] = "w_data" /\ sub[t] \in 0..1 /\ sub[t] = write_index
        /\ used[sub[t]] + DataSize[arg[t]] <= TotalSize /\ arg[t] \in Msgs
        /\ DataSize[arg[t]] \in Nat /\ used \in [0..1 -> Nat] /\ t \in write_mutex
    BY <1>0, <1>6, BufferAssumption DEF IInv, TypeOK, LocksHeld, WriterLocals, WriteData, Goto, HoldsWrite
  <2>2. \A u \in Threads : u # t => pc[u] \notin HoldsWrite
    BY <2>1 DEF IInv, LocksHeld
  <2>3. msgs \in [0..1 -> Seq(Msgs)] /\ Append(msgs[sub[t]], arg[t]) \in Seq(Msgs)
    BY <2>1, AppendProperties DEF IInv, TypeOK
  <2>4. TypeOK'
    BY <1>0, <1>6, <2>1, <2>3 DEF IInv, TypeOK, WriteData, Goto, Locations, HoldsRead, HoldsWrite, Threads
  <2>5. OppositeRoles' /\ LocksHeld'
    BY <1>0, <1>6 DEF IInv, OppositeRoles, LocksHeld, WriteData, Goto, TypeOK, HoldsRead, HoldsWrite
  <2>6. ASSUME NEW u \in Threads PROVE WriterLocals(u)'
    BY <1>0, <1>6, <2>1, <2>2, <2>6 DEF IInv, WriterLocals, WriteData, Goto, TypeOK, HoldsWrite
  <2>7. ASSUME NEW u \in Threads PROVE ReaderLocals(u)'
    BY <1>0, <1>6, <2>1, <2>2, <2>7 DEF IInv, OppositeRoles, ReaderLocals, WriteData, Goto, TypeOK, HoldsWrite
  <2>8. ASSUME NEW i \in 0..1
        PROVE  /\ Encodes(msgs'[i], used'[i] - (IF HalfWritten(i)' THEN 1 ELSE 0))
               /\ used'[i] <= TotalSize
    <3>1. ~HalfWritten(i)'
      BY <1>0, <1>6, <2>2 DEF HalfWritten, WriteData, Goto, IInv, TypeOK, HoldsWrite
    <3>2. HalfWritten(i) <=> i = sub[t]
      BY <1>0, <2>1, <2>2 DEF HalfWritten, HoldsWrite
    <3>3. used'[i] \in Nat
      BY <2>4 DEF TypeOK
    <3>4. used'[i] - (IF HalfWritten(i)' THEN 1 ELSE 0) = used'[i]
      BY <3>1, <3>3
    <3>5. CASE i = sub[t]
      <4>1. Encodes(msgs[i], used[i] - (IF HalfWritten(i) THEN 1 ELSE 0))
        BY DEF IInv, UsedIsExact
      <4>2. used[i] - (IF HalfWritten(i) THEN 1 ELSE 0) = used[i] - 1
        BY <3>2, <3>5
      <4>3. msgs[i] \in Seq(Msgs) /\ used[i] - 1 \in Nat
        BY <2>1, <2>3, <3>5, <4>1, <4>2, EncodesNat
      <4>4. Encodes(Append(msgs[i], arg[t]), used[i] - 1 + 1 + DataSize[arg[t]])
        BY <2>1, <4>1, <4>2, <4>3, EncodesAppend
      <4>5. used'[i] = used[i] - 1 + 1 + DataSize[arg[t]] /\ msgs'[i] = Append(msgs[i], arg[t])
        BY <1>6, <2>1, <2>3, <3>5, <4>3 DEF WriteData
      <4> QED BY <2>1, <3>4, <3>5, <4>4, <4>5
    <3>6. CASE i # sub[t]
      <4>1. used[i] - (IF HalfWritten(i) THEN 1 ELSE 0) = used[i]
        BY <2>1, <3>2, <3>6
      <4>2. used'[i] = used[i] /\ msgs'[i] = msgs[i]
        BY <1>6, <2>1, <2>3, <3>6 DEF WriteData
      <4> QED BY <3>4, <4>1, <4>2 DEF IInv, UsedIsExact
    <3> QED BY <3>5, <3>6
  <2>9. UsedIsExact'
    BY <2>8 DEF UsedIsExact, Encodes, IsLayout
  <2> QED BY <2>4, <2>5, <2>6, <2>7, <2>9 DEF IInv
<1> QED BY <1>a, <1>b, <1>1, <1>2, <1>3, <1>4, <1>5, <1>6 DEF Write

(* Every step of app_buffer_read preserves it. *)
LEMMA ReadInvariant ==
  ASSUME IInv, NEW t \in Readers, Read(t)
  PROVE  IInv'
<1>0. t \in Threads
  BY DEF Threads
<1>1. CASE ReadCall(t)
  <2>1. TypeOK'
    BY <1>0, <1>1 DEF IInv, TypeOK, ReadCall, Goto, Locations, HoldsRead, HoldsWrite, Threads, Failures
  <2>2. OppositeRoles'
    BY <1>0, <1>1 DEF IInv, OppositeRoles, ReadCall, Goto, TypeOK
  <2>3. LocksHeld'
    BY <1>0, <1>1 DEF IInv, LocksHeld, ReadCall, Goto, TypeOK, HoldsRead, HoldsWrite
  <2>4. ASSUME NEW u \in Threads PROVE WriterLocals(u)'
    BY <1>0, <1>1, <2>4 DEF IInv, LocksHeld, OppositeRoles, WriterLocals, ReadCall, Goto, TypeOK, HoldsRead, HoldsWrite
  <2>5. ASSUME NEW u \in Threads PROVE ReaderLocals(u)'
    BY <1>0, <1>1, <2>5 DEF IInv, LocksHeld, OppositeRoles, ReaderLocals, ReadCall, Goto, TypeOK, HoldsRead, HoldsWrite
  <2>6. UsedIsExact'
    BY <1>0, <1>1, UsedFrame DEF IInv, ReadCall, Goto, TypeOK
  <2> QED BY <2>1, <2>2, <2>3, <2>4, <2>5, <2>6 DEF IInv
<1>2. CASE ReadLock(t)
  <2>1. TypeOK'
    BY <1>0, <1>2 DEF IInv, TypeOK, ReadLock, Goto, Locations, HoldsRead, HoldsWrite, Threads, Failures
  <2>2. OppositeRoles'
    BY <1>0, <1>2 DEF IInv, OppositeRoles, ReadLock, Goto, TypeOK
  <2>3. LocksHeld'
    BY <1>0, <1>2 DEF IInv, LocksHeld, ReadLock, Goto, TypeOK, HoldsRead, HoldsWrite
  <2>4. ASSUME NEW u \in Threads PROVE WriterLocals(u)'
    BY <1>0, <1>2, <2>4 DEF IInv, LocksHeld, OppositeRoles, WriterLocals, ReadLock, Goto, TypeOK, HoldsRead, HoldsWrite
  <2>5. ASSUME NEW u \in Threads PROVE ReaderLocals(u)'
    BY <1>0, <1>2, <2>5 DEF IInv, LocksHeld, OppositeRoles, ReaderLocals, ReadLock, Goto, TypeOK, HoldsRead, HoldsWrite
  <2>6. UsedIsExact'
    BY <1>0, <1>2, UsedFrame DEF IInv, ReadLock, Goto, TypeOK
  <2> QED BY <2>1, <2>2, <2>3, <2>4, <2>5, <2>6 DEF IInv
<1>3. CASE ReadPeek(t)
  <2>1. TypeOK'
    BY <1>0, <1>3 DEF IInv, TypeOK, ReadPeek, Goto, Locations, HoldsRead, HoldsWrite, Threads, Failures
  <2>2. OppositeRoles'
    BY <1>0, <1>3 DEF IInv, OppositeRoles, ReadPeek, Goto, TypeOK
  <2>3. LocksHeld'
    BY <1>0, <1>3 DEF IInv, LocksHeld, ReadPeek, Goto, TypeOK, HoldsRead, HoldsWrite
  <2>4. ASSUME NEW u \in Threads PROVE WriterLocals(u)'
    BY <1>0, <1>3, <2>4 DEF IInv, LocksHeld, OppositeRoles, WriterLocals, ReadPeek, Goto, TypeOK, HoldsRead, HoldsWrite
  <2>5. ASSUME NEW u \in Threads PROVE ReaderLocals(u)'
    BY <1>0, <1>3, <2>5 DEF IInv, LocksHeld, OppositeRoles, ReaderLocals, ReadPeek, Goto, TypeOK, HoldsRead, HoldsWrite
  <2>6. UsedIsExact'
    BY <1>0, <1>3, UsedFrame DEF IInv, ReadPeek, Goto, TypeOK
  <2> QED BY <2>1, <2>2, <2>3, <2>4, <2>5, <2>6 DEF IInv
<1>4. CASE ReadLockWrite(t)
  <2>1. TypeOK'
    BY <1>0, <1>4 DEF IInv, TypeOK, ReadLockWrite, Goto, Locations, HoldsRead, HoldsWrite, Threads, Failures
  <2>2. OppositeRoles'
    BY <1>0, <1>4 DEF IInv, OppositeRoles, ReadLockWrite, Goto, TypeOK
  <2>3. LocksHeld'
    BY <1>0, <1>4 DEF IInv, LocksHeld, ReadLockWrite, Goto, TypeOK, HoldsRead, HoldsWrite
  <2>4. ASSUME NEW u \in Threads PROVE WriterLocals(u)'
    BY <1>0, <1>4, <2>4 DEF IInv, LocksHeld, OppositeRoles, WriterLocals, ReadLockWrite, Goto, TypeOK, HoldsRead, HoldsWrite
  <2>5. ASSUME NEW u \in Threads PROVE ReaderLocals(u)'
    BY <1>0, <1>4, <2>5 DEF IInv, LocksHeld, OppositeRoles, ReaderLocals, ReadLockWrite, Goto, TypeOK, HoldsRead, HoldsWrite
  <2>6. UsedIsExact'
    BY <1>0, <1>4, UsedFrame DEF IInv, ReadLockWrite, Goto, TypeOK
  <2> QED BY <2>1, <2>2, <2>3, <2>4, <2>5, <2>6 DEF IInv
<1>5. CASE ReadSwap(t)
  <2>1. TypeOK'
    BY <1>0, <1>5 DEF IInv, TypeOK, ReadSwap, Goto, Locations, HoldsRead, HoldsWrite, Threads, Failures
  <2>2. OppositeRoles'
    BY <1>0, <1>5 DEF IInv, OppositeRoles, ReadSwap, Goto, TypeOK
  <2>3. LocksHeld'
    BY <1>0, <1>5 DEF IInv, LocksHeld, ReadSwap, Goto, TypeOK, HoldsRead, HoldsWrite
  <2>4. ASSUME NEW u \in Threads PROVE WriterLocals(u)'
    BY <1>0, <1>5, <2>4 DEF IInv, LocksHeld, OppositeRoles, WriterLocals, ReadSwap, Goto, TypeOK, HoldsRead, HoldsWrite
  <2>5. ASSUME NEW u \in Threads PROVE ReaderLocals(u)'
    BY <1>0, <1>5, <2>5 DEF IInv, LocksHeld, OppositeRoles, ReaderLocals, ReadSwap, Goto, TypeOK, HoldsRead, HoldsWrite
  <2>6. UsedIsExact'
    BY <1>0, <1>5, UsedFrame DEF IInv, ReadSwap, Goto, TypeOK
  <2> QED BY <2>1, <2>2, <2>3, <2>4, <2>5, <2>6 DEF IInv
<1>6. CASE ReadUnlockWrite(t)
  <2>1. TypeOK'
    BY <1>0, <1>6 DEF IInv, TypeOK, ReadUnlockWrite, Goto, Locations, HoldsRead, HoldsWrite, Threads, Failures
  <2>2. OppositeRoles'
    BY <1>0, <1>6 DEF IInv, OppositeRoles, ReadUnlockWrite, Goto, TypeOK
  <2>3. LocksHeld'
    BY <1>0, <1>6 DEF IInv, LocksHeld, ReadUnlockWrite, Goto, TypeOK, HoldsRead, HoldsWrite
  <2>4. ASSUME NEW u \in Threads PROVE WriterLocals(u)'
    BY <1>0, <1>6, <2>4 DEF IInv, LocksHeld, OppositeRoles, WriterLocals, ReadUnlockWrite, Goto, TypeOK, HoldsRead, HoldsWrite
  <2>5. ASSUME NEW u \in Threads PROVE ReaderLocals(u)'
    BY <1>0, <1>6, <2>5 DEF IInv, LocksHeld, OppositeRoles, ReaderLocals, ReadUnlockWrite, Goto, TypeOK, HoldsRead, HoldsWrite
  <2>6. UsedIsExact'
    BY <1>0, <1>6, UsedFrame DEF IInv, ReadUnlockWrite, Goto, TypeOK
  <2> QED BY <2>1, <2>2, <2>3, <2>4, <2>5, <2>6 DEF IInv
<1>7. CASE ReadFits(t)
  <2>1. TypeOK'
    BY <1>0, <1>7 DEF IInv, TypeOK, ReadFits, Goto, Locations, HoldsRead, HoldsWrite, Threads, Failures
  <2>2. OppositeRoles'
    BY <1>0, <1>7 DEF IInv, OppositeRoles, ReadFits, Goto, TypeOK
  <2>3. LocksHeld'
    BY <1>0, <1>7 DEF IInv, LocksHeld, ReadFits, Goto, TypeOK, HoldsRead, HoldsWrite
  <2>4. ASSUME NEW u \in Threads PROVE WriterLocals(u)'
    BY <1>0, <1>7, <2>4 DEF IInv, LocksHeld, OppositeRoles, WriterLocals, ReadFits, Goto, TypeOK, HoldsRead, HoldsWrite
  <2>5. ASSUME NEW u \in Threads PROVE ReaderLocals(u)'
    BY <1>0, <1>7, <2>5 DEF IInv, LocksHeld, OppositeRoles, ReaderLocals, ReadFits, Goto, TypeOK, HoldsRead, HoldsWrite
  <2>6. UsedIsExact'
    BY <1>0, <1>7, UsedFrame DEF IInv, ReadFits, Goto, TypeOK
  <2> QED BY <2>1, <2>2, <2>3, <2>4, <2>5, <2>6 DEF IInv
<1>8. CASE ReadSmall(t)
  <2>1. TypeOK'
    BY <1>0, <1>8 DEF IInv, TypeOK, ReadSmall, Goto, Locations, HoldsRead, HoldsWrite, Threads, Failures
  <2>2. OppositeRoles'
    BY <1>0, <1>8 DEF IInv, OppositeRoles, ReadSmall, Goto, TypeOK
  <2>3. LocksHeld'
    BY <1>0, <1>8 DEF IInv, LocksHeld, ReadSmall, Goto, TypeOK, HoldsRead, HoldsWrite
  <2>4. ASSUME NEW u \in Threads PROVE WriterLocals(u)'
    BY <1>0, <1>8, <2>4 DEF IInv, LocksHeld, OppositeRoles, WriterLocals, ReadSmall, Goto, TypeOK, HoldsRead, HoldsWrite
  <2>5. ASSUME NEW u \in Threads PROVE ReaderLocals(u)'
    BY <1>0, <1>8, <2>5 DEF IInv, LocksHeld, OppositeRoles, ReaderLocals, ReadSmall, Goto, TypeOK, HoldsRead, HoldsWrite
  <2>6. UsedIsExact'
    BY <1>0, <1>8, UsedFrame DEF IInv, ReadSmall, Goto, TypeOK
  <2> QED BY <2>1, <2>2, <2>3, <2>4, <2>5, <2>6 DEF IInv
<1>9. CASE ReadCopy(t)
  <2>1. TypeOK'
    BY <1>0, <1>9, ReaderHasMessage DEF IInv, TypeOK, ReadCopy, Goto, Locations, HoldsRead, HoldsWrite, Threads, Failures
  <2>2. OppositeRoles'
    BY <1>0, <1>9 DEF IInv, OppositeRoles, ReadCopy, Goto, TypeOK
  <2>3. LocksHeld'
    BY <1>0, <1>9 DEF IInv, LocksHeld, ReadCopy, Goto, TypeOK, HoldsRead, HoldsWrite
  <2>4. ASSUME NEW u \in Threads PROVE WriterLocals(u)'
    BY <1>0, <1>9, <2>4 DEF IInv, LocksHeld, OppositeRoles, WriterLocals, ReadCopy, Goto, TypeOK, HoldsRead, HoldsWrite
  <2>5. ASSUME NEW u \in Threads PROVE ReaderLocals(u)'
    BY <1>0, <1>9, <2>5 DEF IInv, LocksHeld, OppositeRoles, ReaderLocals, ReadCopy, Goto, TypeOK, HoldsRead, HoldsWrite
  <2>6. UsedIsExact'
    BY <1>0, <1>9, UsedFrame DEF IInv, ReadCopy, Goto, TypeOK
  <2> QED BY <2>1, <2>2, <2>3, <2>4, <2>5, <2>6 DEF IInv
<1>10. CASE ReadUnlock(t)
  <2>1. TypeOK'
    BY <1>0, <1>10 DEF IInv, TypeOK, ReadUnlock, Goto, Locations, HoldsRead, HoldsWrite, Threads, Failures
  <2>2. OppositeRoles'
    BY <1>0, <1>10 DEF IInv, OppositeRoles, ReadUnlock, Goto, TypeOK
  <2>3. LocksHeld'
    BY <1>0, <1>10 DEF IInv, LocksHeld, ReadUnlock, Goto, TypeOK, HoldsRead, HoldsWrite
  <2>4. ASSUME NEW u \in Threads PROVE WriterLocals(u)'
    BY <1>0, <1>10, <2>4 DEF IInv, LocksHeld, OppositeRoles, WriterLocals, ReadUnlock, Goto, TypeOK, HoldsRead, HoldsWrite
  <2>5. ASSUME NEW u \in Threads PROVE ReaderLocals(u)'
    BY <1>0, <1>10, <2>5 DEF IInv, LocksHeld, OppositeRoles, ReaderLocals, ReadUnlock, Goto, TypeOK, HoldsRead, HoldsWrite
  <2>6. UsedIsExact'
    BY <1>0, <1>10, UsedFrame DEF IInv, ReadUnlock, Goto, TypeOK
  <2> QED BY <2>1, <2>2, <2>3, <2>4, <2>5, <2>6 DEF IInv
<1>11. CASE ReadShift(t)
  <2> DEFINE i == sub[t]
             m == Head(msgs[i])
  <2>1. /\ pc[t] = "r_shift" /\ i \in 0..1 /\ i = read_index /\ ret[t] = m
        /\ used \in [0..1 -> Nat] /\ msgs \in [0..1 -> Seq(Msgs)] /\ t \in read_mutex
        /\ m \in Msgs /\ msgs[i] # <<>> /\ ~HalfWritten(i) /\ Encodes(msgs[i], used[i])
    BY <1>0, <1>11, ReaderHasMessage DEF IInv, TypeOK, LocksHeld, ReaderLocals, ReadShift, Goto, HoldsRead
  <2>2. \A u \in Threads : u # t => pc[u] \notin HoldsRead
    BY <2>1 DEF IInv, LocksHeld
  <2>3. used[i] - DataSize[m] - 1 \in Nat /\ Encodes(Tail(msgs[i]), used[i] - DataSize[m] - 1)
    BY <2>1, EncodesTail
  <2>4. Bytes(ret[t]) = DataSize[m] /\ Rest(msgs[i]) = Tail(msgs[i]) /\ Tail(msgs[i]) \in Seq(Msgs)
    BY <2>1, BufferAssumption, HeadTailProperties DEF Bytes, Rest
  <2>5. /\ msgs' = [msgs EXCEPT ![i] = Tail(msgs[i])]
        /\ used' = [used EXCEPT ![i] = used[i] - DataSize[m] - 1]
    BY <1>11, <2>4 DEF ReadShift
  <2> HIDE DEF i, m
  <2>6. TypeOK'
    <3>1. msgs' \in [0..1 -> Seq(Msgs)] /\ used' \in [0..1 -> Nat]
      BY <2>1, <2>3, <2>4, <2>5
    <3>2. pc' = [pc EXCEPT ![t] = "r_unlock"] /\ read_mutex' = read_mutex /\ write_mutex' = write_mutex
          /\ UNCHANGED <<read_index, write_index, sub, arg, ret>>
      BY <1>11 DEF ReadShift, Goto
    <3> QED BY <1>0, <3>1, <3>2 DEF IInv, TypeOK, Locations, HoldsRead
  <2>7. OppositeRoles' /\ LocksHeld'
    BY <1>0, <1>11 DEF IInv, OppositeRoles, LocksHeld, ReadShift, Goto, TypeOK, HoldsRead, HoldsWrite
  <2>8. ASSUME NEW u \in Threads PROVE WriterLocals(u)'
    BY <1>0, <1>11, <2>1, <2>3, <2>5, <2>8 DEF IInv, OppositeRoles, WriterLocals, ReadShift, Goto, TypeOK
  <2>9. ASSUME NEW u \in Threads PROVE ReaderLocals(u)'
    BY <1>0, <1>11, <2>1, <2>2, <2>9 DEF IInv, ReaderLocals, ReadShift, Goto, TypeOK, HoldsRead, i
  <2>10. ASSUME NEW k \in 0..1
         PROVE  /\ Encodes(msgs'[k], used'[k] - (IF HalfWritten(k)' THEN 1 ELSE 0))
                /\ used'[k] <= TotalSize
    <3>1. HalfWritten(k)' <=> HalfWritten(k)
      BY <1>0, <1>11, HalfWrittenFrame DEF IInv, ReadShift, Goto, TypeOK
    <3>2. CASE k = i
      <4>1. /\ used'[k] = used[i] - DataSize[m] - 1 /\ msgs'[k] = Tail(msgs[i])
            /\ used[i] <= TotalSize
        BY <2>1, <2>5, <3>2 DEF IInv, UsedIsExact
      <4>2. used'[k] - (IF HalfWritten(k)' THEN 1 ELSE 0) = used[i] - DataSize[m] - 1
        BY <2>1, <2>3, <3>1, <3>2, <4>1
      <4>3. DataSize[m] \in Nat /\ used[i] \in Nat
        BY <2>1, BufferAssumption
      <4> QED BY <2>3, <4>1, <4>2, <4>3, BufferAssumption
    <3>3. CASE k # i
      <4>1. used'[k] = used[k] /\ msgs'[k] = msgs[k]
        BY <2>1, <2>5, <3>3
      <4>2. (IF HalfWritten(k)' THEN 1 ELSE 0) = (IF HalfWritten(k) THEN 1 ELSE 0)
        BY <3>1
      <4> QED BY <4>1, <4>2 DEF IInv, UsedIsExact
    <3> QED BY <3>2, <3>3
  <2>11. UsedIsExact'
    BY <2>10 DEF UsedIsExact, Encodes, IsLayout
  <2> QED BY <2>6, <2>7, <2>8, <2>9, <2>11 DEF IInv
<1> QED BY <1>1, <1>2, <1>3, <1>4, <1>5, <1>6, <1>7, <1>8, <1>9, <1>10, <1>11 DEF Read

(* Every step preserves it. *)
LEMMA StepInvariant == IInv /\ [Next]_vars => IInv'
<1> SUFFICES ASSUME IInv, [Next]_vars
             PROVE  IInv'
  OBVIOUS
<1>1. ASSUME NEW t \in Threads, Return(t)
      PROVE  IInv'
  <2>1. TypeOK'
    BY <1>1 DEF IInv, TypeOK, Return, Goto, Locations
  <2>2. OppositeRoles' /\ LocksHeld'
    BY <1>1 DEF IInv, OppositeRoles, LocksHeld, Return, Goto, TypeOK, HoldsRead, HoldsWrite
  <2>3. ASSUME NEW u \in Threads PROVE WriterLocals(u)' /\ ReaderLocals(u)'
    BY <1>1, <2>3 DEF IInv, WriterLocals, ReaderLocals, Return, Goto, TypeOK
  <2>4. UsedIsExact'
    BY <1>1, UsedFrame DEF IInv, Return, Goto, TypeOK
  <2> QED BY <2>1, <2>2, <2>3, <2>4 DEF IInv
<1>2. CASE UNCHANGED vars
  <2> USE <1>2 DEF vars
  <2>1. TypeOK' /\ OppositeRoles'
    BY DEF IInv, TypeOK, OppositeRoles
  <2>2. LocksHeld'
    BY DEF IInv, LocksHeld
  <2>3. ASSUME NEW u \in Threads PROVE WriterLocals(u)' /\ ReaderLocals(u)'
    BY <2>3 DEF IInv, WriterLocals, ReaderLocals
  <2>4. UsedIsExact'
    <3>1. ASSUME NEW i \in 0..1 PROVE HalfWritten(i)' <=> HalfWritten(i)
      BY DEF HalfWritten
    <3>2. ASSUME NEW i \in 0..1
          PROVE  /\ Encodes(msgs'[i], used'[i] - (IF HalfWritten(i)' THEN 1 ELSE 0))
                 /\ used'[i] <= TotalSize
      <4>1. (IF HalfWritten(i)' THEN 1 ELSE 0) = (IF HalfWritten(i) THEN 1 ELSE 0)
        BY <3>1
      <4> QED BY <4>1 DEF IInv, UsedIsExact
    <3> QED BY <3>2 DEF UsedIsExact, Encodes, IsLayout
  <2> QED BY <2>1, <2>2, <2>3, <2>4 DEF IInv
<1> QED BY <1>1, <1>2, WriteInvariant, ReadInvariant DEF Next

(* So the inductive invariant holds in every reachable state. *)
THEOREM Invariance == Spec => []IInv
BY InitInvariant, StepInvariant, PTL DEF Spec

(* The types hold throughout. *)
THEOREM TypeCorrect == Spec => []TypeOK
<1>1. IInv => TypeOK
  BY DEF IInv
<1> QED BY <1>1, Invariance, PTL

(* The bytes of both sub-buffers are always accounted for. *)
THEOREM AccountingCorrect == Spec => []UsedIsExact
<1>1. IInv => UsedIsExact
  BY DEF IInv
<1> QED BY <1>1, Invariance, PTL

------------------------------------------------------------------------------
(* Mutual exclusion on the sub-buffers. *)

(* The sub-buffer a thread is about to access is the one its locks protect:  *)
(* write_mutex protects the write sub-buffer, read_mutex the read one.       *)
LEMMA LocksProtect ==
  ASSUME IInv, NEW t \in Threads, NEW i \in Touches(t)
  PROVE  /\ i \in 0..1
         /\ i = write_index => t \in write_mutex
         /\ i = read_index => t \in read_mutex
BY DEF IInv, TypeOK, OppositeRoles, LocksHeld, WriterLocals, ReaderLocals, Touches,
       HoldsRead, HoldsWrite

(* No two threads ever touch the same sub-buffer. *)
THEOREM MutualExclusion == Spec => []ExclusiveAccess
<1>1. IInv => ExclusiveAccess
  <2> SUFFICES ASSUME IInv, NEW t \in Threads, NEW u \in Threads, t # u,
                      NEW i \in Touches(t), i \in Touches(u)
               PROVE  FALSE
    BY DEF ExclusiveAccess
  <2>1. i = write_index \/ i = read_index
    BY LocksProtect DEF IInv, TypeOK, OppositeRoles
  <2>2. CASE i = write_index
    BY <2>2, LocksProtect DEF IInv, LocksHeld
  <2>3. CASE i = read_index
    BY <2>3, LocksProtect DEF IInv, LocksHeld
  <2> QED BY <2>1, <2>2, <2>3
<1> QED BY <1>1, Invariance, PTL

------------------------------------------------------------------------------
(* The wedge. *)

(* The lock that the next step of t takes, if it takes one, is free.         *)
Unblocked(t) ==
  /\ pc[t] = "r_lock" => read_mutex = {}
  /\ pc[t] \in {"w_lock", "r_lock_w"} => write_mutex = {}

(* t waits for a lock that u holds. *)
WaitsFor(t, u) ==
  \/ pc[t] = "r_lock" /\ u \in read_mutex
  \/ pc[t] \in {"w_lock", "r_lock_w"} /\ u \in write_mutex

(* t is inside a call and can go on. *)
Goes(t) == pc[t] \notin {"idle", "done"} /\ Unblocked(t)

ChainsEnd ==
  \A t \in Threads : Unblocked(t) \/
    \E u \in Threads :
      /\ WaitsFor(t, u) /\ pc[u] \notin {"idle", "done"}
      /\ Goes(u) \/ \E v \in Threads : WaitsFor(u, v) /\ Goes(v)

(* The locks make no cycle: a thread that waits, waits for one that is       *)
(* inside a call and can go on, or for a reader that waits for such a one    *)
(* in turn; nobody holds a lock while it is outside of a call                *)
(* (app_buffer.c:114-144, 150-202).                                          *)
THEOREM NoLockCycle == Spec => []ChainsEnd
<1> DEFINE Chain(u) == Goes(u) \/ \E v \in Threads : WaitsFor(u, v) /\ Goes(v)
<1>1. ASSUME IInv, NEW u \in write_mutex
      PROVE  u \in Threads /\ Goes(u)
  BY <1>1 DEF IInv, LocksHeld, HoldsWrite, Goes, Unblocked
<1>2. ASSUME IInv, NEW u \in read_mutex
      PROVE  u \in Threads /\ pc[u] \notin {"idle", "done"} /\ Chain(u)
  <2>1. u \in Threads /\ pc[u] \in HoldsRead
    BY <1>2 DEF IInv, LocksHeld
  <2>2. pc[u] \notin {"idle", "done", "r_lock", "w_lock"}
    BY <2>1 DEF HoldsRead
  <2>3. CASE Unblocked(u)
    BY <2>1, <2>2, <2>3 DEF Goes
  <2>4. CASE ~Unblocked(u)
    <3>1. pc[u] = "r_lock_w" /\ write_mutex # {}
      BY <2>2, <2>4 DEF Unblocked
    <3>2. PICK v \in write_mutex : TRUE
      BY <3>1
    <3>3. v \in Threads /\ Goes(v) /\ WaitsFor(u, v)
      BY <1>1, <1>2, <3>1, <3>2 DEF WaitsFor
    <3> QED BY <2>1, <2>2, <3>3
  <2> QED BY <2>1, <2>2, <2>3, <2>4
<1>3. ASSUME IInv, NEW t \in Threads, ~Unblocked(t)
      PROVE  \E u \in Threads : WaitsFor(t, u) /\ pc[u] \notin {"idle", "done"} /\ Chain(u)
  <2>1. CASE pc[t] = "r_lock"
    <3>1. PICK u \in read_mutex : TRUE
      BY <1>3, <2>1 DEF Unblocked
    <3>2. u \in Threads /\ pc[u] \notin {"idle", "done"} /\ Chain(u)
      BY <1>2, <1>3, <3>1
    <3>3. WaitsFor(t, u)
      BY <2>1, <3>1 DEF WaitsFor
    <3> HIDE DEF Chain
    <3> QED BY <3>2, <3>3
  <2>2. CASE pc[t] \in {"w_lock", "r_lock_w"}
    <3>1. PICK u \in write_mutex : TRUE
      BY <1>3, <2>2 DEF Unblocked
    <3>2. u \in Threads /\ Goes(u) /\ WaitsFor(t, u)
      BY <1>1, <1>3, <2>2, <3>1 DEF WaitsFor
    <3> QED BY <3>2 DEF Goes
  <2> QED BY <1>3, <2>1, <2>2 DEF Unblocked
<1>4. IInv => ChainsEnd
  BY <1>3 DEF ChainsEnd
<1> QED BY <1>4, Invariance, PTL

(* No step of any thread undoes a wedge: a reader that could consume checked *)
(* the size first, and a writer writes to the other sub-buffer.              *)
THEOREM WedgeTheorem == Spec => WedgeIsPermanent
<1>1. ASSUME IInv, [Next]_vars, Wedged
      PROVE  Wedged' /\ msgs'[read_index'] = msgs[read_index]
  <2> USE BufferAssumption
  <2>1. /\ used \in [0..1 -> Nat] /\ msgs \in [0..1 -> Seq(Msgs)]
        /\ read_index \in 0..1 /\ write_index \in 0..1 /\ write_index # read_index
        /\ used[read_index] > BufferSize /\ used[read_index] # 0
    BY <1>1 DEF IInv, TypeOK, OppositeRoles, Wedged
  <2>2. ASSUME NEW t \in Writers, Write(t)
        PROVE  /\ read_index' = read_index
               /\ used'[read_index] = used[read_index]
               /\ msgs'[read_index] = msgs[read_index]
    <3>1. t \in Threads
      BY DEF Threads
    <3>2. pc[t] \in {"w_len", "w_data"} => sub[t] = write_index
      BY <1>1, <3>1 DEF IInv, WriterLocals
    <3>3. CASE WriteLength(t) \/ WriteData(t)
      BY <2>1, <3>2, <3>3 DEF WriteLength, WriteData, Goto
    <3>4. CASE ~(WriteLength(t) \/ WriteData(t))
      BY <2>2, <3>4 DEF Write, WriteCall, WriteInvalid, WriteLock, WriteRoom, WriteFull, WriteUnlock
    <3> QED BY <3>3, <3>4
  <2>3. ASSUME NEW t \in Readers, Read(t)
        PROVE  /\ read_index' = read_index
               /\ used'[read_index] = used[read_index]
               /\ msgs'[read_index] = msgs[read_index]
    <3>1. t \in Threads
      BY DEF Threads
    <3>2. ~ReadShift(t)
      BY <1>1, <2>1, <3>1 DEF IInv, ReaderLocals, ReadShift, Goto
    <3>3. CASE ReadSwap(t)
      BY <2>1, <3>3 DEF ReadSwap
    <3>4. CASE ~ReadSwap(t)
      BY <2>3, <3>2, <3>4 DEF Read, ReadCall, ReadLock, ReadPeek, ReadLockWrite, ReadUnlockWrite,
                              ReadFits, ReadSmall, ReadCopy, ReadUnlock
    <3> QED BY <3>3, <3>4
  <2>4. CASE UNCHANGED vars
    BY <2>1, <2>4 DEF vars, Wedged
  <2>5. ASSUME NEW t \in Threads, Return(t)
        PROVE  Wedged' /\ msgs'[read_index'] = msgs[read_index]
    BY <2>1, <2>5 DEF Return, Wedged
  <2> QED BY <1>1, <2>1, <2>2, <2>3, <2>4, <2>5 DEF Next, Wedged
<1>2. IInv /\ [Next]_vars => [Wedged => Wedged' /\ msgs'[read_index'] = msgs[read_index]]_vars
  BY <1>1
<1> QED BY <1>2, Invariance, PTL DEF Spec, WedgeIsPermanent

------------------------------------------------------------------------------
(* The double buffer implements the queue. *)

(* A step of one thread changes the abstract phase and result of that thread *)
(* only.                                                                     *)
LEMMA PhaseFrame ==
  ASSUME NEW t \in Threads,
         \A u \in Threads : u # t => pc'[u] = pc[u] /\ ret'[u] = ret[u]
  PROVE  /\ Phases'  = [Phases EXCEPT ![t] = Phase(t)']
         /\ Results' = [Results EXCEPT ![t] = Result(t)']
BY DEF Phases, Results, Phase, Result

(* The queue in reading order, one sub-buffer after the other.               *)
LEMMA QueueFacts ==
  ASSUME IInv
  PROVE  /\ msgs[read_index] \in Seq(Msgs) /\ msgs[write_index] \in Seq(Msgs)
         /\ Queue = <<>> => msgs[read_index] = <<>> /\ msgs[write_index] = <<>>
         /\ msgs[read_index] = <<>> => Queue = msgs[write_index]
         /\ msgs[write_index] = <<>> => Queue = msgs[read_index]
<1>1. msgs[read_index] \in Seq(Msgs) /\ msgs[write_index] \in Seq(Msgs)
  BY DEF IInv, TypeOK
<1>2. Queue = <<>> => msgs[read_index] = <<>> /\ msgs[write_index] = <<>>
  BY <1>1, ConcatEqualIffEmpty DEF Queue
<1>3. msgs[read_index] = <<>> => Queue = msgs[write_index]
  BY <1>1, ConcatEmptySeq DEF Queue
<1>4. msgs[write_index] = <<>> => Queue = msgs[read_index]
  BY <1>1, ConcatEmptySeq DEF Queue
<1> QED BY <1>1, <1>2, <1>3, <1>4

(* Appending to the second part appends to the whole.                        *)
LEMMA AppendToSecond ==
  ASSUME NEW x \in Seq(Msgs), NEW y \in Seq(Msgs), NEW e \in Msgs
  PROVE  x \o Append(y, e) = Append(x \o y, e)
<1>1. Append(y, e) = y \o <<e>> /\ <<e>> \in Seq(Msgs)
  BY AppendIsConcat
<1>2. x \o y \in Seq(Msgs)
  BY ConcatProperties
<1>3. x \o (y \o <<e>>) = (x \o y) \o <<e>>
  BY <1>1, ConcatAssociative
<1> QED BY <1>1, <1>2, <1>3, AppendIsConcat

(* The head of the first part is the head of the whole.                      *)
LEMMA HeadOfFirst ==
  ASSUME NEW S, NEW x \in Seq(S), NEW y \in Seq(S), x # <<>>
  PROVE  /\ x \o y # <<>>
         /\ Head(x \o y) = Head(x)
         /\ Tail(x \o y) = Tail(x) \o y
<1> DEFINE c == x \o y
           d == Tail(x) \o y
<1>1. /\ c \in Seq(S) /\ Len(c) = Len(x) + Len(y)
      /\ \A i \in 1..(Len(x) + Len(y)) : c[i] = IF i <= Len(x) THEN x[i] ELSE y[i - Len(x)]
  BY ConcatProperties
<1>2. /\ Len(x) \in Nat \ {0} /\ Len(y) \in Nat
      /\ Head(x) = x[1] /\ Tail(x) \in Seq(S) /\ Len(Tail(x)) = Len(x) - 1
      /\ \A i \in 1..(Len(x) - 1) : Tail(x)[i] = x[i + 1]
  BY HeadTailProperties, LenProperties, EmptySeq
<1>3. c # <<>>
  BY ConcatEqualIffEmpty
<1>4. /\ Head(c) = c[1] /\ Tail(c) \in Seq(S) /\ Len(Tail(c)) = Len(c) - 1
      /\ \A i \in 1..(Len(c) - 1) : Tail(c)[i] = c[i + 1]
  <2> HIDE DEF c
  <2> QED BY <1>1, <1>3, HeadTailProperties
<1>5. /\ d \in Seq(S) /\ Len(d) = Len(x) - 1 + Len(y)
      /\ \A i \in 1..(Len(x) - 1 + Len(y)) :
           d[i] = IF i <= Len(x) - 1 THEN Tail(x)[i] ELSE y[i - (Len(x) - 1)]
  BY <1>2, ConcatProperties
<1> HIDE DEF c, d
<1>6. Head(c) = Head(x)
  BY <1>1, <1>2, <1>4
<1>7. ASSUME NEW i \in 1..Len(d)
      PROVE  Tail(c)[i] = d[i]
  <2>1. Tail(c)[i] = c[i + 1]
    BY <1>1, <1>2, <1>4, <1>5
  <2>2. CASE i <= Len(x) - 1
    BY <1>1, <1>2, <1>5, <2>1, <2>2
  <2>3. CASE ~(i <= Len(x) - 1)
    <3>1. c[i + 1] = y[i + 1 - Len(x)] /\ d[i] = y[i - (Len(x) - 1)]
      BY <1>1, <1>2, <1>5, <2>3
    <3>2. i + 1 - Len(x) = i - (Len(x) - 1)
      BY <1>2
    <3> QED BY <2>1, <3>1, <3>2
  <2> QED BY <2>2, <2>3
<1>8. Tail(c) = d
  <2>1. Len(Tail(c)) = Len(d)
    BY <1>1, <1>2, <1>4, <1>5
  <2> QED BY <1>4, <1>5, <1>7, <2>1, SeqEqual
<1> QED BY <1>3, <1>6, <1>8 DEF c, d

(* Every step of app_buffer_write is a step of the queue, or none. *)
LEMMA WriteRefines ==
  ASSUME IInv, NEW t \in Writers, Write(t)
  PROVE  Fifo!Next \/ UNCHANGED <<Queue, Phases, arg, Results>>
<1>1. t \in Threads /\ Phases \in [Threads -> {"idle", "write", "read", "done"}]
  BY DEF Threads, Phases, Phase
<1>2. Results \in [Threads -> UNION {Msgs, Failures, {"none", "ok"}}]
  BY DEF IInv, TypeOK, Results, Result
<1>3. Phases[t] = Phase(t) /\ Results[t] = Result(t)
  BY <1>1 DEF Phases, Results
<1>4. \A u \in Threads : u # t => pc'[u] = pc[u] /\ ret'[u] = ret[u]
  BY <1>1 DEF Write, WriteCall, WriteInvalid, WriteLock, WriteRoom, WriteFull, WriteLength,
              WriteData, WriteUnlock, Goto, IInv, TypeOK
<1>5. /\ Phases'  = [Phases EXCEPT ![t] = Phase(t)']
      /\ Results' = [Results EXCEPT ![t] = Result(t)']
  BY <1>1, <1>4, PhaseFrame
<1>6. /\ pc \in [Threads -> Locations]
      /\ ret \in [Threads -> Msgs \cup Failures \cup {"none", "ok"}]
      /\ pc[t] \in {"idle", "w_lock", "w_check", "w_len", "w_data"} => ret[t] = "none"
  BY <1>1 DEF IInv, TypeOK, ReaderLocals
<1>a. ASSUME NEW m \in Msgs, WriteCall(t, m)
      PROVE  Fifo!InvokeWrite(t, m)
  <2>1. Phase(t) = "idle" /\ Phase(t)' = "write" /\ Result(t) = "none" /\ Result(t)' = "none"
    BY <1>1, <1>6, <1>a DEF WriteCall, Goto, Phase, Result
  <2>2. Queue' = Queue /\ arg' = [arg EXCEPT ![t] = m]
    BY <1>a DEF WriteCall, Queue
  <2> QED BY <1>2, <1>3, <1>5, <2>1, <2>2 DEF Fifo!InvokeWrite
<1>b. ASSUME NEW m \in Msgs, WriteInvalid(t, m)
      PROVE  Fifo!PutInvalid(t, m)
  <2>1. Phase(t) = "idle" /\ Phase(t)' = "done" /\ Result(t)' = "invalid"
    BY <1>1, <1>6, <1>b DEF WriteInvalid, Goto, Phase, Result
  <2>2. Queue' = Queue /\ arg' = [arg EXCEPT ![t] = m] /\ DataSize[m] \notin 1..MaxDataSize
    BY <1>b DEF WriteInvalid, Queue
  <2> QED BY <1>3, <1>5, <2>1, <2>2 DEF Fifo!PutInvalid
<1>c. CASE WriteLock(t) \/ WriteRoom(t) \/ WriteLength(t) \/ WriteUnlock(t)
  <2>1. Phase(t)' = Phase(t) /\ Result(t)' = Result(t)
    BY <1>1, <1>6, <1>c DEF WriteLock, WriteRoom, WriteLength, WriteUnlock, Goto, Phase, Result
  <2>2. Queue' = Queue /\ arg' = arg
    BY <1>c DEF WriteLock, WriteRoom, WriteLength, WriteUnlock, Queue
  <2> QED BY <1>1, <1>2, <1>3, <1>5, <2>1, <2>2
<1>d. CASE WriteFull(t)
  <2>1. Phase(t) = "write" /\ Phase(t)' = "done" /\ Result(t)' = "full"
    BY <1>1, <1>6, <1>d DEF WriteFull, Goto, Phase, Result
  <2>2. Queue' = Queue /\ arg' = arg
    BY <1>d DEF WriteFull, Queue
  <2>3. Queue # <<>> \/ DataSize[arg[t]] + 1 > TotalSize
    <3> SUFFICES ASSUME Queue = <<>>
                 PROVE  DataSize[arg[t]] + 1 > TotalSize
      OBVIOUS
    <3>1. write_index \in 0..1 /\ used[write_index] \in Nat /\ msgs[write_index] = <<>>
      BY QueueFacts DEF IInv, TypeOK
    <3>2. ~HalfWritten(write_index)
      BY <1>1, <1>d DEF HalfWritten, WriteFull, Goto, IInv, LocksHeld, HoldsWrite
    <3>3. Encodes(msgs[write_index], used[write_index])
      <4>1. used[write_index] - (IF HalfWritten(write_index) THEN 1 ELSE 0) = used[write_index]
        BY <3>1, <3>2
      <4> QED BY <3>1, <4>1 DEF IInv, UsedIsExact
    <3>4. used[write_index] = 0
      BY <3>1, <3>3, EncodesEmpty, EmptySeq
    <3>5. arg[t] \in Msgs /\ DataSize[arg[t]] \in Nat
      BY <1>1, <1>d, BufferAssumption DEF WriteFull, Goto, IInv, WriterLocals
    <3> QED BY <1>d, <3>4, <3>5 DEF WriteFull
  <2>4. Fifo!PutFull(t)
    BY <1>3, <1>5, <2>1, <2>2, <2>3 DEF Fifo!PutFull, Fifo!TakeEffect
  <2> QED BY <2>4 DEF Fifo!Next
<1>e. CASE WriteData(t)
  <2>1. Phase(t) = "write" /\ Phase(t)' = "done" /\ Result(t)' = "ok"
    BY <1>1, <1>6, <1>e DEF WriteData, Goto, Phase, Result
  <2>2. sub[t] = write_index /\ arg[t] \in Msgs /\ write_index \in 0..1 /\ read_index \in 0..1
        /\ read_index # write_index /\ msgs \in [0..1 -> Seq(Msgs)]
    BY <1>1, <1>e DEF WriteData, Goto, IInv, TypeOK, WriterLocals, OppositeRoles
  <2>3. msgs'[read_index'] = msgs[read_index] /\ msgs'[write_index'] = Append(msgs[write_index], arg[t])
    BY <1>e, <2>2 DEF WriteData
  <2>4. Queue' = Append(Queue, arg[t])
    <3>1. msgs[read_index] \in Seq(Msgs) /\ msgs[write_index] \in Seq(Msgs)
      BY <2>2
    <3>2. msgs[read_index] \o Append(msgs[write_index], arg[t])
            = Append(msgs[read_index] \o msgs[write_index], arg[t])
      BY <2>2, <3>1, AppendToSecond
    <3> QED BY <2>3, <3>2 DEF Queue
  <2>5. Fifo!Put(t)
    BY <1>3, <1>5, <1>e, <2>1, <2>4 DEF WriteData, Fifo!Put, Fifo!TakeEffect
  <2> QED BY <2>5 DEF Fifo!Next
<1> QED BY <1>a, <1>b, <1>c, <1>d, <1>e DEF Write, Fifo!Next

(* Every step of app_buffer_read is a step of the queue, or none. *)
LEMMA ReadRefines ==
  ASSUME IInv, NEW t \in Readers, Read(t)
  PROVE  Fifo!Next \/ UNCHANGED <<Queue, Phases, arg, Results>>
<1>1. t \in Threads /\ Phases \in [Threads -> {"idle", "write", "read", "done"}]
  BY DEF Threads, Phases, Phase
<1>2. Results \in [Threads -> UNION {Msgs, Failures, {"none", "ok"}}]
  BY DEF IInv, TypeOK, Results, Result
<1>3. Phases[t] = Phase(t) /\ Results[t] = Result(t)
  BY <1>1 DEF Phases, Results
<1>4. \A u \in Threads : u # t => pc'[u] = pc[u] /\ ret'[u] = ret[u]
  BY <1>1 DEF Read, ReadCall, ReadLock, ReadPeek, ReadLockWrite, ReadSwap, ReadUnlockWrite,
              ReadFits, ReadSmall, ReadCopy, ReadShift, ReadUnlock, Goto, IInv, TypeOK
<1>5. /\ Phases'  = [Phases EXCEPT ![t] = Phase(t)']
      /\ Results' = [Results EXCEPT ![t] = Result(t)']
  BY <1>1, <1>4, PhaseFrame
<1>6. /\ pc \in [Threads -> Locations]
      /\ ret \in [Threads -> Msgs \cup Failures \cup {"none", "ok"}]
      /\ pc[t] \in {"idle", "r_lock", "r_peek", "r_lock_w", "r_swap", "r_size", "r_copy"} => ret[t] = "none"
  BY <1>1 DEF IInv, TypeOK, ReaderLocals
<1>7. arg' = arg
  BY DEF Read, ReadCall, ReadLock, ReadPeek, ReadLockWrite, ReadSwap, ReadUnlockWrite,
         ReadFits, ReadSmall, ReadCopy, ReadShift, ReadUnlock
<1>a. CASE ReadCall(t)
  <2>1. Phase(t) = "idle" /\ Phase(t)' = "read" /\ Result(t) = "none" /\ Result(t)' = "none"
    BY <1>1, <1>6, <1>a DEF ReadCall, Goto, Phase, Result
  <2>2. Queue' = Queue
    BY <1>a DEF ReadCall, Queue
  <2>3. Fifo!InvokeRead(t)
    BY <1>2, <1>3, <1>5, <1>7, <2>1, <2>2 DEF Fifo!InvokeRead
  <2> QED BY <2>3 DEF Fifo!Next
<1>b. CASE ReadLock(t) \/ ReadPeek(t) \/ ReadLockWrite(t) \/ ReadFits(t) \/ ReadCopy(t) \/ ReadUnlock(t)
  <2>1. Phase(t)' = Phase(t) /\ Result(t)' = Result(t)
    BY <1>1, <1>6, <1>b
       DEF ReadLock, ReadPeek, ReadLockWrite, ReadFits, ReadCopy, ReadUnlock, Goto, Phase, Result
  <2>2. Queue' = Queue
    BY <1>b DEF ReadLock, ReadPeek, ReadLockWrite, ReadFits, ReadCopy, ReadUnlock, Queue
  <2> QED BY <1>1, <1>2, <1>3, <1>5, <1>7, <2>1, <2>2
<1>c. CASE ReadUnlockWrite(t)
  <2>1. Phase(t)' = Phase(t) /\ Result(t)' = Result(t)
    BY <1>1, <1>6, <1>c DEF ReadUnlockWrite, Goto, Phase, Result
  <2>2. Queue' = Queue
    BY <1>c DEF ReadUnlockWrite, Queue
  <2> QED BY <1>1, <1>2, <1>3, <1>5, <1>7, <2>1, <2>2
<1>d. CASE ReadSwap(t)
  <2>1. pc[t] = "r_swap" /\ pc'[t] = "r_unlock_w" /\ Phase(t) = "read" /\ Result(t) = "none"
    BY <1>1, <1>6, <1>d DEF ReadSwap, Goto, Phase, Result
  <2>2. /\ write_index \in 0..1 /\ read_index \in 0..1 /\ write_index = 1 - read_index
        /\ used \in [0..1 -> Nat] /\ msgs \in [0..1 -> Seq(Msgs)] /\ msgs' = msgs
    BY <1>d DEF ReadSwap, IInv, TypeOK, OppositeRoles
  <2>3. ASSUME NEW i \in 0..1
        PROVE  used[i] = 0 <=> msgs[i] = <<>>
    <3>1. ~HalfWritten(i)
      BY <1>1, <2>1 DEF IInv, LocksHeld, HoldsWrite, HalfWritten
    <3>2. Encodes(msgs[i], used[i])
      <4>1. used[i] - (IF HalfWritten(i) THEN 1 ELSE 0) = used[i]
        BY <2>2, <3>1
      <4> QED BY <4>1 DEF IInv, UsedIsExact
    <3> QED BY <2>2, <3>2, EncodesEmpty
  <2>4. Queue' = Queue
    <3>1. CASE used[read_index] = 0
      <4>1. read_index' = write_index /\ write_index' = read_index
        <5>1. read_index' = write_index /\ write_index' = (write_index + 1) % 2
          BY <1>d, <3>1 DEF ReadSwap
        <5> QED BY <2>2, <5>1
      <4>2. msgs[read_index] = <<>>
        BY <2>2, <2>3, <3>1
      <4>3. Queue' = msgs[write_index] \o msgs[read_index]
        BY <2>2, <4>1 DEF Queue
      <4>4. msgs[write_index] \o <<>> = msgs[write_index]
        BY <2>2, ConcatEmptySeq
      <4> QED BY <4>2, <4>3, <4>4, QueueFacts
    <3>2. CASE used[read_index] # 0
      BY <1>d, <3>2 DEF ReadSwap, Queue
    <3> QED BY <3>1, <3>2
  <2>5. CASE used[read_index] = 0 /\ used[write_index] = 0
    <3>1. ret'[t] = "empty"
      BY <1>1, <1>6, <1>d, <2>5 DEF ReadSwap
    <3>2. Phase(t)' = "done" /\ Result(t)' = "empty"
      BY <2>1, <3>1 DEF Phase, Result
    <3>3. Queue = <<>>
      BY <2>2, <2>3, <2>5, QueueFacts
    <3>4. Fifo!GetEmpty(t)
      BY <1>3, <1>5, <1>7, <2>1, <2>4, <3>2, <3>3 DEF Fifo!GetEmpty, Fifo!TakeEffect
    <3> QED BY <3>4 DEF Fifo!Next
  <2>6. CASE ~(used[read_index] = 0 /\ used[write_index] = 0)
    <3>1. ret'[t] = "none"
      BY <1>1, <1>6, <1>d, <2>1, <2>6 DEF ReadSwap
    <3>2. Phase(t)' = "read" /\ Result(t)' = "none"
      BY <2>1, <3>1 DEF Phase, Result
    <3> QED BY <1>1, <1>2, <1>3, <1>5, <1>7, <2>1, <2>4, <3>2
  <2> QED BY <2>5, <2>6
<1>e. CASE ReadSmall(t)
  <2>1. Phase(t) = "read" /\ Phase(t)' = "done" /\ Result(t)' = "small"
    BY <1>1, <1>6, <1>e DEF ReadSmall, Goto, Phase, Result
  <2>2. Queue' = Queue
    BY <1>e DEF ReadSmall, Queue
  <2>3. Queue # <<>>
    BY <1>1, <1>e, ReaderHasMessage, QueueFacts DEF ReadSmall, Goto, IInv, ReaderLocals
  <2>4. Fifo!GetSmall(t)
    BY <1>3, <1>5, <1>7, <2>1, <2>2, <2>3 DEF Fifo!GetSmall, Fifo!TakeEffect
  <2> QED BY <2>4 DEF Fifo!Next
<1>f. CASE ReadShift(t)
  <2>1. /\ sub[t] = read_index /\ ret[t] = Head(msgs[read_index]) /\ msgs[read_index] # <<>>
        /\ write_index \in 0..1 /\ read_index \in 0..1 /\ read_index # write_index
        /\ msgs \in [0..1 -> Seq(Msgs)] /\ ret[t] \in Msgs
    BY <1>1, <1>f, ReaderHasMessage DEF ReadShift, Goto, IInv, TypeOK, ReaderLocals, OppositeRoles
  <2>2. Phase(t) = "read" /\ Phase(t)' = "done" /\ Result(t)' = ret[t]
    BY <1>1, <1>6, <1>f DEF ReadShift, Goto, Phase, Result
  <2>3. /\ msgs'[read_index'] = Tail(msgs[read_index])
        /\ msgs'[write_index'] = msgs[write_index]
    BY <1>f, <2>1 DEF ReadShift, Rest
  <2>4. Queue # <<>> /\ Head(Queue) = ret[t] /\ Queue' = Tail(Queue)
    <3>1. msgs[read_index] \in Seq(Msgs) /\ msgs[write_index] \in Seq(Msgs)
      BY <2>1
    <3>2. /\ msgs[read_index] \o msgs[write_index] # <<>>
          /\ Head(msgs[read_index] \o msgs[write_index]) = Head(msgs[read_index])
          /\ Tail(msgs[read_index] \o msgs[write_index]) = Tail(msgs[read_index]) \o msgs[write_index]
      BY <2>1, <3>1, HeadOfFirst
    <3> QED BY <2>1, <2>3, <3>2 DEF Queue
  <2>5. Fifo!Get(t)
    BY <1>3, <1>5, <1>7, <2>2, <2>4 DEF Fifo!Get, Fifo!TakeEffect
  <2> QED BY <2>5 DEF Fifo!Next
<1> QED BY <1>a, <1>b, <1>c, <1>d, <1>e, <1>f DEF Read

(* The double buffer implements the linearizable FIFO queue. *)
THEOREM Refinement == Spec => ImplementsFifo
<1>1. Init => Fifo!Init
  <2> SUFFICES ASSUME Init
               PROVE  Fifo!Init
    OBVIOUS
  <2>1. Queue = <<>>
    BY ConcatEmptySeq DEF Init, Queue
  <2>2. Phases = [t \in Threads |-> "idle"] /\ Results = [t \in Threads |-> "none"]
    BY DEF Init, Phases, Results, Phase, Result
  <2> QED BY <2>1, <2>2 DEF Init, Fifo!Init, Fifo!Threads, Threads
<1>2. IInv /\ [Next]_vars => [Fifo!Next]_(Fifo!vars)
  <2> SUFFICES ASSUME IInv, [Next]_vars
               PROVE  Fifo!Next \/ UNCHANGED <<Queue, Phases, arg, Results>>
    BY DEF Fifo!vars
  <2>1. ASSUME NEW t \in Threads, Return(t)
        PROVE  Fifo!Return(t)
    <3>1. \A u \in Threads : u # t => pc'[u] = pc[u] /\ ret'[u] = ret[u]
      BY <2>1 DEF Return, Goto, IInv, TypeOK
    <3>2. Phase(t) = "done" /\ Phase(t)' = "idle" /\ Result(t)' = "none"
      BY <2>1 DEF Return, Goto, IInv, TypeOK, Phase, Result
    <3>3. Queue' = Queue /\ arg' = [arg EXCEPT ![t] = "none"]
      BY <2>1 DEF Return, Queue
    <3>4. Phases[t] = Phase(t)
      BY DEF Phases
    <3> QED BY <3>1, <3>2, <3>3, <3>4, PhaseFrame DEF Fifo!Return
  <2>2. CASE UNCHANGED vars
    BY <2>2 DEF vars, Queue, Phases, Results, Phase, Result
  <2> QED BY <2>1, <2>2, WriteRefines, ReadRefines DEF Next, Fifo!Next, Fifo!Threads, Threads
<1> QED BY <1>1, <1>2, Invariance, PTL DEF Spec, ImplementsFifo, Fifo!Spec

------------------------------------------------------------------------------
(* The calls are single steps of DoubleBuffer. *)

(* A double buffer by its parts. *)
Pair(x, n, y, k) ==
  [read |-> [msgs |-> x, used_size |-> n], write |-> [msgs |-> y, used_size |-> k]]

LEMMA ReplaceSub ==
  ASSUME NEW r, NEW w, NEW z
  PROVE  /\ [[read |-> r, write |-> w] EXCEPT !.read = z] = [read |-> z, write |-> w]
         /\ [[read |-> r, write |-> w] EXCEPT !.write = z] = [read |-> r, write |-> z]
OBVIOUS

(* What the steps of DoubleBuffer make of it. *)
LEMMA PairPut ==
  ASSUME NEW x, NEW n, NEW y, NEW k, NEW m
  PROVE  /\ Calls!HasRoom(Pair(x, n, y, k), m) <=> k + 1 + DataSize[m] <= TotalSize
         /\ Calls!Put(Pair(x, n, y, k), m) = Pair(x, n, Append(y, m), k + 1 + DataSize[m])
<1> USE DEF Pair, Size
<1>1. Calls!HasRoom(Pair(x, n, y, k), m) <=> k + 1 + DataSize[m] <= TotalSize
  BY DEF Calls!HasRoom
<1>2. Calls!Put(Pair(x, n, y, k), m) = Pair(x, n, Append(y, m), k + 1 + DataSize[m])
  <2> DEFINE b == Pair(x, n, y, k)
             z == [msgs |-> Append(y, m), used_size |-> k + 1 + DataSize[m]]
  <2>1. b.write.msgs = y /\ b.write.used_size = k
    OBVIOUS
  <2>2. Calls!Put(b, m) = [b EXCEPT !.write = z]
    BY <2>1 DEF Calls!Put
  <2> QED BY <2>2, ReplaceSub
<1> QED BY <1>1, <1>2

LEMMA PairTaken ==
  ASSUME NEW x, NEW n, NEW y, NEW k, x # <<>>
  PROVE  /\ Calls!Turned(Pair(x, n, y, k)) = Pair(x, n, y, k)
         /\ Calls!Taken(Pair(x, n, y, k)) = Pair(Tail(x), n - 1 - DataSize[Head(x)], y, k)
<1> DEFINE b == Pair(x, n, y, k)
           z == [msgs |-> Tail(x), used_size |-> n - 1 - DataSize[Head(x)]]
<1>1. b.read.msgs = x /\ b.read.used_size = n
  BY DEF Pair
<1>2. Calls!Turned(b) = b
  BY <1>1 DEF Calls!Turned
<1>3. Calls!Taken(b) = [b EXCEPT !.read = z]
  BY <1>1, <1>2 DEF Calls!Taken, Size
<1> QED BY <1>2, <1>3, ReplaceSub DEF Pair

LEMMA PairTurned ==
  ASSUME NEW n, NEW y, NEW k
  PROVE  Calls!Turned(Pair(<<>>, n, y, k)) = Pair(y, k, <<>>, n)
BY DEF Pair, Calls!Turned

LEMMA PairRead ==
  ASSUME NEW x, NEW n, NEW y, NEW k
  PROVE  /\ Pair(x, n, y, k).read = [msgs |-> x, used_size |-> n]
         /\ Calls!Wedged(Pair(x, n, y, k)) <=> n > BufferSize
BY DEF Pair, Calls!Wedged

(* The two instances of DoubleBuffer agree. *)
LEMMA Alike ==
  ASSUME NEW b
  PROVE  /\ DB!Taken(b) = Calls!Taken(b)
         /\ DB!Wedged(b) <=> Calls!Wedged(b)
BY DEF Calls!Taken, DB!Taken, Calls!Turned, DB!Turned, Size, DB!Wedged, Calls!Wedged

(* The bytes of the messages that are complete. *)
Exact(i) == used[i] - (IF HalfWritten(i) THEN 1 ELSE 0)

Claimed == \E t \in Readers : Taking(t)

LEMMA InMemoryIs ==
  /\ InMemory = Pair(msgs[read_index], Exact(read_index), msgs[write_index], Exact(write_index))
  /\ DB!Wedged(InMemory) <=> Exact(read_index) > BufferSize
  /\ InMemory.read = [msgs |-> msgs[read_index], used_size |-> Exact(read_index)]
<1>1. InMemory = Pair(msgs[read_index], Exact(read_index), msgs[write_index], Exact(write_index))
  BY DEF InMemory, Stored, Exact, Pair
<1> DEFINE x == msgs[read_index]
           n == Exact(read_index)
           y == msgs[write_index]
           k == Exact(write_index)
<1>2. InMemory = Pair(x, n, y, k)
  BY <1>1
<1> HIDE DEF x, n, y, k
<1>3. (DB!Wedged(InMemory) <=> n > BufferSize) /\ InMemory.read = [msgs |-> x, used_size |-> n]
  BY <1>2, PairRead, Alike
<1> QED BY <1>1, <1>3 DEF x, n

(* The thread that takes a message holds read_mutex and finds a message in   *)
(* the sub-buffer it has chosen, of which nobody writes.                     *)
LEMMA TakingFacts ==
  ASSUME IInv, NEW t \in Threads, Taking(t)
  PROVE  /\ t \in Readers /\ pc[t] \in HoldsRead /\ sub[t] = read_index
         /\ \A u \in Threads : pc[u] \in HoldsRead => u = t
         /\ msgs[read_index] \in Seq(Msgs) /\ msgs[read_index] # <<>>
         /\ Head(msgs[read_index]) \in Msgs
         /\ Exact(read_index) = used[read_index]
<1>1. pc[t] \in HoldsRead /\ sub[t] = read_index
  BY DEF Taking, HoldsRead, IInv, ReaderLocals
<1>2. t \in Readers /\ \A u \in Threads : pc[u] \in HoldsRead => u = t
  BY <1>1 DEF IInv, TypeOK, LocksHeld
<1>3. used[read_index] # 0
  BY <1>1 DEF Taking, IInv, ReaderLocals
<1>4. ~HalfWritten(read_index)
  BY DEF IInv, HalfWritten, OppositeRoles, WriterLocals, TypeOK
<1>5. read_index \in 0..1 /\ msgs[read_index] \in Seq(Msgs) /\ used[read_index] \in Nat
  BY DEF IInv, TypeOK
<1>6. Exact(read_index) = used[read_index]
  BY <1>4, <1>5 DEF Exact
<1>7. Encodes(msgs[read_index], used[read_index])
  BY <1>5, <1>6 DEF IInv, UsedIsExact, Exact
<1>8. msgs[read_index] # <<>>
  BY <1>3, <1>5, <1>7, EncodesEmpty
<1> QED BY <1>1, <1>2, <1>5, <1>6, <1>8, HeadTailProperties, BufferAssumption

(* The buffer its callers see.                                               *)
LEMMA WholeIs ==
  ASSUME IInv
  PROVE  Whole =
           IF Claimed /\ ~(Exact(read_index) > BufferSize)
           THEN Pair(Tail(msgs[read_index]),
                     Exact(read_index) - 1 - DataSize[Head(msgs[read_index])],
                     msgs[write_index], Exact(write_index))
           ELSE InMemory
<1>1. ASSUME Claimed
      PROVE  DB!Taken(InMemory) =
               Pair(Tail(msgs[read_index]),
                    Exact(read_index) - 1 - DataSize[Head(msgs[read_index])],
                    msgs[write_index], Exact(write_index))
  <2>1. msgs[read_index] # <<>>
    BY <1>1, TakingFacts DEF Claimed, Threads
  <2> DEFINE x == msgs[read_index]
             n == Exact(read_index)
             y == msgs[write_index]
             k == Exact(write_index)
  <2>2. InMemory = Pair(x, n, y, k) /\ x # <<>>
    BY <2>1, InMemoryIs
  <2> HIDE DEF x, n, y, k
  <2>3. DB!Taken(InMemory) = Pair(Tail(x), n - 1 - DataSize[Head(x)], y, k)
    <3>1. Calls!Taken(Pair(x, n, y, k)) = Pair(Tail(x), n - 1 - DataSize[Head(x)], y, k)
      BY <2>2, PairTaken
    <3>2. DB!Taken(InMemory) = Calls!Taken(InMemory)
      BY Alike
    <3> QED BY <2>2, <3>1, <3>2, Zenon
  <2> QED BY <2>3 DEF x, n, y, k
<1> QED BY <1>1, InMemoryIs DEF Whole, Claimed

(* A step of one thread changes the call of that thread only. *)
LEMMA CallFrame ==
  ASSUME NEW t \in Threads,
         \A u \in Threads : u # t => pc'[u] = pc[u] /\ ret'[u] = ret[u],
         \A u \in Threads : u # t /\ Taking(u) => InMemory'.read = InMemory.read
  PROVE  /\ CallPhases'  = [CallPhases EXCEPT ![t] = CallPhase(t)']
         /\ CallResults' = [CallResults EXCEPT ![t] = CallResult(t)']
         /\ CallPhases[t] = CallPhase(t) /\ CallResults[t] = CallResult(t)
<1>1. ASSUME NEW u \in Threads, u # t
      PROVE  CallPhase(u)' = CallPhase(u) /\ CallResult(u)' = CallResult(u)
  <2>1. Taking(u)' <=> Taking(u)
    BY <1>1 DEF Taking
  <2>2. Phase(u)' = Phase(u) /\ Result(u)' = Result(u)
    BY <1>1 DEF Phase, Result
  <2>3. CASE ~Taking(u)
    BY <2>1, <2>2, <2>3 DEF CallPhase, CallResult
  <2>4. CASE Taking(u)
    <3>1. InMemory'.read = InMemory.read
      BY <1>1, <2>4
    <3>2. DB!Wedged(InMemory)' <=> DB!Wedged(InMemory)
      BY <3>1 DEF DB!Wedged
    <3> QED BY <2>1, <2>4, <3>1, <3>2 DEF CallPhase, CallResult
  <2> QED BY <2>3, <2>4
<1> QED BY <1>1 DEF CallPhases, CallResults

(* What the callers see, before and after a step. *)
WholeShape ==
  Whole = IF Claimed /\ ~(Exact(read_index) > BufferSize)
          THEN Pair(Tail(msgs[read_index]),
                    Exact(read_index) - 1 - DataSize[Head(msgs[read_index])],
                    msgs[write_index], Exact(write_index))
          ELSE Pair(msgs[read_index], Exact(read_index), msgs[write_index], Exact(write_index))

ReadShape == InMemory.read = [msgs |-> msgs[read_index], used_size |-> Exact(read_index)]

LEMMA Shapes == ReadShape /\ (IInv => WholeShape)
BY InMemoryIs, WholeIs DEF ReadShape, WholeShape

LEMMA ShapesNext == ReadShape' /\ (IInv' => WholeShape')
BY Shapes, PTL

(* A writer leaves the roles and the read sub-buffer alone, and adds its     *)
(* message to the bytes of the write one when it is complete.                *)
LEMMA WriterSteps ==
  ASSUME IInv, NEW t \in Writers, Write(t)
  PROVE  /\ \A u \in Threads : u # t => pc'[u] = pc[u] /\ ret'[u] = ret[u]
         /\ ~Taking(t) /\ ~Taking(t)' /\ (Claimed' <=> Claimed)
         /\ UNCHANGED <<read_index, write_index>>
         /\ msgs'[read_index] = msgs[read_index] /\ Exact(read_index)' = Exact(read_index)
         /\ ~WriteData(t) => UNCHANGED msgs /\ Exact(write_index)' = Exact(write_index)
         /\ WriteData(t) =>
              /\ msgs'[write_index] = Append(msgs[write_index], arg[t])
              /\ Exact(write_index)' = Exact(write_index) + 1 + DataSize[arg[t]]
              /\ Exact(write_index) + 1 + DataSize[arg[t]] <= TotalSize
<1>0. t \in Threads
  BY DEF Threads
<1> USE DEF Write, WriteCall, WriteInvalid, WriteLock, WriteRoom, WriteFull, WriteLength,
            WriteData, WriteUnlock, Goto
<1>1. /\ \A u \in Threads : u # t => pc'[u] = pc[u] /\ ret'[u] = ret[u] /\ sub'[u] = sub[u]
      /\ UNCHANGED <<read_index, write_index>>
  BY <1>0 DEF IInv, TypeOK
<1>2. ~Taking(t) /\ ~Taking(t)'
  BY <1>0 DEF IInv, TypeOK, Taking
<1>3. Claimed' <=> Claimed
  <2>1. \A u \in Threads : Taking(u)' <=> Taking(u)
    BY <1>1, <1>2 DEF Taking
  <2> QED BY <2>1 DEF Claimed, Threads
<1>4. CASE ~WriteLength(t) /\ ~WriteData(t)
  <2>1. UNCHANGED <<msgs, used>>
    BY <1>4
  <2>2. \A i \in 0..1 : HalfWritten(i)' <=> HalfWritten(i)
    BY <1>0, <1>1, <1>4 DEF HalfWritten, IInv, TypeOK
  <2>3. \A i \in 0..1 : Exact(i)' = Exact(i)
    BY <2>1, <2>2 DEF Exact
  <2> QED BY <1>1, <1>2, <1>3, <1>4, <2>1, <2>3 DEF IInv, TypeOK
<1>5. ASSUME WriteLength(t) \/ WriteData(t)
      PROVE  /\ sub[t] = write_index /\ sub'[t] = write_index /\ write_index \in 0..1
             /\ read_index \in 0..1 /\ read_index # write_index
             /\ used \in [0..1 -> Nat] /\ msgs \in [0..1 -> Seq(Msgs)] /\ DataSize[arg[t]] \in Nat
             /\ \A u \in Threads : u # t => pc[u] # "w_data" /\ pc'[u] # "w_data"
  <2>1. \A u \in Threads : u # t => pc[u] # "w_data"
    BY <1>0, <1>5 DEF IInv, LocksHeld, HoldsWrite
  <2> QED BY <1>0, <1>1, <1>5, <2>1, BufferAssumption DEF IInv, TypeOK, OppositeRoles, WriterLocals
<1>6. CASE WriteLength(t)
  <2>1. HalfWritten(write_index)' /\ ~HalfWritten(write_index)
        /\ ~HalfWritten(read_index) /\ ~HalfWritten(read_index)'
    BY <1>0, <1>1, <1>5, <1>6 DEF HalfWritten, IInv, TypeOK
  <2>2. /\ used'[write_index] = used[write_index] + 1 /\ used'[read_index] = used[read_index]
        /\ UNCHANGED msgs
    BY <1>5, <1>6
  <2>3. Exact(write_index)' = Exact(write_index) /\ Exact(read_index)' = Exact(read_index)
    BY <1>1, <1>5, <1>6, <2>1, <2>2 DEF Exact
  <2>4. ~WriteData(t)
    BY <1>6
  <2> QED BY <1>1, <1>2, <1>3, <2>2, <2>3, <2>4
<1>7. CASE WriteData(t)
  <2>1. HalfWritten(write_index) /\ ~HalfWritten(write_index)'
        /\ ~HalfWritten(read_index) /\ ~HalfWritten(read_index)'
    BY <1>0, <1>1, <1>5, <1>7 DEF HalfWritten, IInv, TypeOK
  <2>2. /\ used'[write_index] = used[write_index] + DataSize[arg[t]]
        /\ used'[read_index] = used[read_index]
        /\ msgs'[read_index] = msgs[read_index]
        /\ msgs'[write_index] = Append(msgs[write_index], arg[t])
    BY <1>5, <1>7
  <2>3. /\ Exact(read_index)' = Exact(read_index)
        /\ Exact(write_index)' = Exact(write_index) + 1 + DataSize[arg[t]]
    BY <1>1, <1>5, <1>7, <2>1, <2>2 DEF Exact
  <2>4. used[write_index] + DataSize[arg[t]] <= TotalSize
    BY <1>0, <1>5, <1>7 DEF IInv, WriterLocals
  <2>5. Exact(write_index) + 1 + DataSize[arg[t]] <= TotalSize
    BY <1>5, <1>7, <2>1, <2>4 DEF Exact
  <2> QED BY <1>1, <1>2, <1>3, <1>7, <2>2, <2>3, <2>5
<1> QED BY <1>4, <1>6, <1>7

(* Every step of app_buffer_write is a step of the call, or none. *)
LEMMA WriteCalls ==
  ASSUME IInv, NEW t \in Writers, Write(t)
  PROVE  Calls!Next \/ UNCHANGED <<Whole, CallPhases, arg, CallResults>>
<1>0. t \in Threads /\ IInv'
  BY WriteInvariant DEF Threads
<1>1. InMemory'.read = InMemory.read
  BY WriterSteps, Shapes, ShapesNext DEF ReadShape
<1>2. /\ CallPhases'  = [CallPhases EXCEPT ![t] = CallPhase(t)']
      /\ CallResults' = [CallResults EXCEPT ![t] = CallResult(t)']
      /\ CallPhases[t] = CallPhase(t) /\ CallResults[t] = CallResult(t)
  BY <1>0, <1>1, WriterSteps, CallFrame
<1>3. /\ CallPhase(t) = Phase(t) /\ CallPhase(t)' = Phase(t)'
      /\ CallResult(t) = Result(t) /\ CallResult(t)' = Result(t)'
  BY WriterSteps DEF CallPhase, CallResult
<1>4. /\ CallPhases = [CallPhases EXCEPT ![t] = CallPhases[t]]
      /\ CallResults = [CallResults EXCEPT ![t] = CallResults[t]]
  BY DEF CallPhases, CallResults
<1>5. pc \in [Threads -> Locations] /\ (pc[t] \in {"idle", "w_lock", "w_check", "w_len", "w_data"} => ret[t] = "none")
      /\ ret \in [Threads -> Msgs \cup Failures \cup {"none", "ok"}]
  BY <1>0 DEF IInv, TypeOK, ReaderLocals
<1>6. ASSUME ~WriteData(t)
      PROVE  Whole' = Whole
  BY <1>0, <1>6, WriterSteps, Shapes, ShapesNext DEF WholeShape
<1>a. ASSUME NEW m \in Msgs, WriteCall(t, m)
      PROVE  Calls!CallWrite(t, m)
  <2>1. Phase(t) = "idle" /\ Phase(t)' = "write" /\ Result(t) = "none" /\ Result(t)' = "none"
    BY <1>0, <1>5, <1>a DEF WriteCall, Goto, Phase, Result
  <2>2. arg' = [arg EXCEPT ![t] = m] /\ Size(m) \in 1..MaxDataSize /\ ~WriteData(t)
    BY <1>a DEF WriteCall, Size, Goto, WriteData
  <2> QED BY <1>2, <1>3, <1>4, <1>6, <2>1, <2>2 DEF Calls!CallWrite
<1>b. ASSUME NEW m \in Msgs, WriteInvalid(t, m)
      PROVE  Calls!CallInvalid(t, m)
  <2>1. Phase(t) = "idle" /\ Phase(t)' = "done" /\ Result(t)' = "invalid"
    BY <1>0, <1>5, <1>b DEF WriteInvalid, Goto, Phase, Result
  <2>2. arg' = [arg EXCEPT ![t] = m] /\ Size(m) \notin 1..MaxDataSize /\ ~WriteData(t)
    BY <1>b DEF WriteInvalid, Size, Goto, WriteData
  <2> QED BY <1>2, <1>3, <1>6, <2>1, <2>2 DEF Calls!CallInvalid
<1>c. CASE WriteLock(t) \/ WriteRoom(t) \/ WriteLength(t) \/ WriteUnlock(t)
  <2>1. Phase(t)' = Phase(t) /\ Result(t)' = Result(t)
    BY <1>0, <1>5, <1>c DEF WriteLock, WriteRoom, WriteLength, WriteUnlock, Goto, Phase, Result
  <2>2. arg' = arg /\ ~WriteData(t)
    BY <1>c DEF WriteLock, WriteRoom, WriteLength, WriteUnlock, WriteData, Goto
  <2> QED BY <1>2, <1>3, <1>4, <1>6, <2>1, <2>2
<1>d. CASE WriteFull(t)
  <2>1. Phase(t) = "write" /\ Phase(t)' = "done" /\ Result(t)' = "full"
    BY <1>0, <1>5, <1>d DEF WriteFull, Goto, Phase, Result
  <2>2. arg' = arg /\ ~WriteData(t) /\ used[write_index] + 1 + DataSize[arg[t]] > TotalSize
    BY <1>d DEF WriteFull, WriteData, Goto
  <2>3. Exact(write_index) = used[write_index]
    <3>1. ~HalfWritten(write_index)
      BY <1>0, <1>d DEF HalfWritten, WriteFull, Goto, IInv, LocksHeld, HoldsWrite
    <3>2. used[write_index] \in Nat
      BY DEF IInv, TypeOK
    <3> QED BY <3>1, <3>2 DEF Exact
  <2>4. ~(Exact(write_index) + 1 + DataSize[arg[t]] <= TotalSize)
    BY <1>0, <1>d, <2>2, <2>3, BufferAssumption DEF IInv, TypeOK, WriterLocals, WriteFull, Goto
  <2>5. ~Calls!HasRoom(Whole, arg[t])
    BY <2>4, Shapes, PairPut DEF WholeShape
  <2>6. Calls!Step(t, "write", Whole, "full")
    BY <1>2, <1>3, <1>6, <2>1, <2>2 DEF Calls!Step
  <2> QED BY <2>5, <2>6 DEF Calls!WriteStep, Calls!Next
<1>e. CASE WriteData(t)
  <2>1. Phase(t) = "write" /\ Phase(t)' = "done" /\ Result(t)' = "ok"
    BY <1>0, <1>5, <1>e DEF WriteData, Goto, Phase, Result
  <2>2. arg' = arg
    BY <1>e DEF WriteData
  <2>3. Calls!HasRoom(Whole, arg[t])
    BY <1>e, WriterSteps, Shapes, PairPut DEF WholeShape
  <2>4. Whole' = Calls!Put(Whole, arg[t])
    <3> DEFINE x == msgs[read_index]
               n == Exact(read_index)
               y == msgs[write_index]
               k == Exact(write_index)
               m == arg[t]
               z == n - 1 - DataSize[Head(x)]
    <3>1. Whole = IF Claimed /\ ~(n > BufferSize) THEN Pair(Tail(x), z, y, k) ELSE Pair(x, n, y, k)
      BY Shapes DEF WholeShape
    <3>2. Whole' = IF Claimed /\ ~(n > BufferSize) THEN Pair(Tail(x), z, Append(y, m), k + 1 + DataSize[m])
                   ELSE Pair(x, n, Append(y, m), k + 1 + DataSize[m])
      BY <1>0, <1>e, WriterSteps, ShapesNext DEF WholeShape
    <3> HIDE DEF x, n, y, k, m, z
    <3>3. Calls!Put(Whole, m) = Whole'
      BY <3>1, <3>2, PairPut
    <3> QED BY <3>3 DEF m
  <2>5. Calls!Step(t, "write", Calls!Put(Whole, arg[t]), "ok")
    BY <1>2, <1>3, <2>1, <2>2, <2>4 DEF Calls!Step
  <2> QED BY <2>3, <2>5 DEF Calls!WriteStep, Calls!Next
<1> QED BY <1>a, <1>b, <1>c, <1>d, <1>e DEF Write, Calls!Next

(* A read that finds messages takes the oldest, or finds its array small, in *)
(* the one step in which it finds them.                                      *)
LEMMA ReadEffect ==
  ASSUME NEW t \in Readers, NEW x, NEW n, NEW y, NEW k, x # <<>>,
         Calls!Turned(Whole) = Pair(x, n, y, k),
         CallPhases[t] = "read", CallPhases' = [CallPhases EXCEPT ![t] = "done"], arg' = arg,
         Whole' = IF n > BufferSize THEN Pair(x, n, y, k)
                  ELSE Pair(Tail(x), n - 1 - DataSize[Head(x)], y, k),
         CallResults' = [CallResults EXCEPT ![t] = IF n > BufferSize THEN "small" ELSE Head(x)]
  PROVE  Calls!ReadStep(t)
<1> DEFINE b == Pair(x, n, y, k)
<1>1. b.read = [msgs |-> x, used_size |-> n] /\ (Calls!Wedged(b) <=> n > BufferSize)
  BY PairRead
<1>2. b.read.msgs = x
  BY <1>1
<1>3. Calls!Turned(b) = b /\ Calls!Taken(b) = Pair(Tail(x), n - 1 - DataSize[Head(x)], y, k)
  BY PairTaken
<1>4. Calls!Taken(Whole) = Calls!Taken(b)
  BY <1>3 DEF Calls!Taken
<1> HIDE DEF b
<1>5. Calls!Turned(Whole) = b /\ Calls!Oldest(Whole) = Head(x) /\ (Calls!Readable(Whole) <=> ~(n > BufferSize))
  BY <1>1, <1>2 DEF Calls!Oldest, Calls!Readable, b
<1>6. CASE n > BufferSize
  <2>1. Calls!Step(t, "read", b, "small")
    BY <1>6 DEF Calls!Step, b
  <2> QED BY <1>1, <1>2, <1>5, <1>6, <2>1 DEF Calls!ReadStep
<1>7. CASE ~(n > BufferSize)
  <2>1. Calls!Step(t, "read", Calls!Taken(Whole), Calls!Oldest(Whole))
    BY <1>3, <1>4, <1>5, <1>7 DEF Calls!Step, b
  <2> QED BY <1>5, <1>7, <2>1 DEF Calls!ReadStep
<1> QED BY <1>6, <1>7

(* A reader changes no other call, leaves the sub-buffers alone until it     *)
(* moves the rest left, and is the one that takes while it holds read_mutex. *)
LEMMA ReaderSteps ==
  ASSUME IInv, NEW t \in Readers, Read(t)
  PROVE  /\ \A u \in Threads : u # t => pc'[u] = pc[u] /\ ret'[u] = ret[u]
         /\ arg' = arg
         /\ pc[t] \in HoldsRead => (Claimed <=> Taking(t)) /\ (Claimed' <=> Taking(t)')
         /\ pc[t] \notin HoldsRead => ~Taking(t) /\ ~Taking(t)' /\ (Claimed' <=> Claimed)
         /\ ~ReadShift(t) => UNCHANGED msgs /\ \A i \in 0..1 : Exact(i)' = Exact(i)
         /\ ~ReadSwap(t) => UNCHANGED <<read_index, write_index>>
         /\ ReadShift(t) =>
              /\ msgs'[read_index] = Tail(msgs[read_index])
              /\ Exact(read_index)' = Exact(read_index) - 1 - DataSize[Head(msgs[read_index])]
              /\ msgs'[write_index] = msgs[write_index]
              /\ Exact(write_index)' = Exact(write_index)
<1>0. t \in Threads
  BY DEF Threads
<1> USE DEF Read, ReadCall, ReadLock, ReadPeek, ReadLockWrite, ReadSwap, ReadUnlockWrite,
            ReadFits, ReadSmall, ReadCopy, ReadShift, ReadUnlock, Goto
<1>1. /\ \A u \in Threads : u # t => pc'[u] = pc[u] /\ ret'[u] = ret[u] /\ sub'[u] = sub[u]
      /\ arg' = arg
  BY <1>0 DEF IInv, TypeOK
<1>2. \A u \in Threads : u # t => (Taking(u)' <=> Taking(u))
  BY <1>1 DEF Taking
<1>3. ASSUME pc[t] \in HoldsRead
      PROVE  (Claimed <=> Taking(t)) /\ (Claimed' <=> Taking(t)')
  <2>1. \A u \in Threads : u # t => ~Taking(u)
    BY <1>0, <1>3, TakingFacts
  <2> QED BY <1>2, <2>1 DEF Claimed, Threads
<1>4. ASSUME pc[t] \notin HoldsRead
      PROVE  ~Taking(t) /\ ~Taking(t)' /\ (Claimed' <=> Claimed)
  <2>1. ~Taking(t) /\ ~Taking(t)'
    BY <1>0, <1>4 DEF IInv, TypeOK, Taking, HoldsRead
  <2> QED BY <1>2, <2>1 DEF Claimed, Threads
<1>5. \A i \in 0..1 : HalfWritten(i)' <=> HalfWritten(i)
  BY <1>0, <1>1 DEF HalfWritten, IInv, TypeOK
<1>6. ASSUME ~ReadShift(t)
      PROVE  UNCHANGED msgs /\ \A i \in 0..1 : Exact(i)' = Exact(i)
  <2>1. UNCHANGED <<msgs, used>>
    BY <1>6
  <2> QED BY <1>5, <2>1 DEF Exact
<1>7. ASSUME ~ReadSwap(t)
      PROVE  UNCHANGED <<read_index, write_index>>
  BY <1>7
<1>8. ASSUME ReadShift(t)
      PROVE  /\ msgs'[read_index] = Tail(msgs[read_index])
             /\ Exact(read_index)' = Exact(read_index) - 1 - DataSize[Head(msgs[read_index])]
             /\ msgs'[write_index] = msgs[write_index]
             /\ Exact(write_index)' = Exact(write_index)
  <2> DEFINE d == DataSize[Head(msgs[read_index])]
  <2>1. /\ sub[t] = read_index /\ ret[t] = Head(msgs[read_index]) /\ ret[t] \in Msgs
        /\ msgs[read_index] # <<>> /\ ~HalfWritten(read_index)
    BY <1>0, <1>8, ReaderHasMessage DEF IInv, ReaderLocals
  <2>2. /\ read_index \in 0..1 /\ write_index \in 0..1 /\ read_index # write_index
        /\ used \in [0..1 -> Nat] /\ msgs \in [0..1 -> Seq(Msgs)] /\ UNCHANGED <<read_index, write_index>>
    BY <1>8 DEF IInv, TypeOK, OppositeRoles
  <2>3. Bytes(ret[t]) = d /\ Rest(msgs[read_index]) = Tail(msgs[read_index]) /\ d \in Nat
    BY <2>1, BufferAssumption DEF Bytes, Rest
  <2> HIDE DEF d
  <2>4. /\ msgs' = [msgs EXCEPT ![read_index] = Tail(msgs[read_index])]
        /\ used' = [used EXCEPT ![read_index] = used[read_index] - d - 1]
    BY <1>8, <2>1, <2>3
  <2>5. /\ used'[read_index] = used[read_index] - d - 1 /\ used'[write_index] = used[write_index]
        /\ msgs'[read_index] = Tail(msgs[read_index]) /\ msgs'[write_index] = msgs[write_index]
    BY <2>2, <2>4
  <2>6. Exact(read_index)' = Exact(read_index) - 1 - d
    BY <1>5, <2>1, <2>2, <2>3, <2>5 DEF Exact
  <2>7. Exact(write_index)' = Exact(write_index)
    BY <1>5, <2>2, <2>5 DEF Exact
  <2> QED BY <2>5, <2>6, <2>7 DEF d
<1> QED BY <1>1, <1>3, <1>4, <1>6, <1>7, <1>8

(* Seen by its caller, the message a reader has found is the oldest one, or  *)
(* longer than its array.                                                    *)
LEMMA TakingResult ==
  ASSUME NEW t \in Threads, Taking(t)
  PROVE  /\ CallPhase(t) = "done"
         /\ CallResult(t) = IF Exact(read_index) > BufferSize THEN "small" ELSE Head(msgs[read_index])
<1>1. InMemory.read.msgs = msgs[read_index]
  BY InMemoryIs
<1> QED BY <1>1, InMemoryIs DEF CallPhase, CallResult

TakenShape(t) ==
  Taking(t) =>
    /\ CallPhase(t) = "done"
    /\ CallResult(t) = IF Exact(read_index) > BufferSize THEN "small" ELSE Head(msgs[read_index])
    /\ IInv => msgs[read_index] # <<>>

LEMMA TakenNext ==
  ASSUME NEW t \in Threads
  PROVE  TakenShape(t)'
<1>1. TakenShape(t)
  BY TakingResult, TakingFacts DEF TakenShape
<1> QED BY <1>1, PTL

(* The exchange of the sub-buffers: here a read that found its own empty     *)
(* finds the other's oldest message, or that there is none.                  *)
LEMMA SwapCalls ==
  ASSUME IInv, IInv', NEW t \in Readers, t \in Threads, Read(t), ReadSwap(t),
         CallPhases'  = [CallPhases EXCEPT ![t] = CallPhase(t)'],
         CallResults' = [CallResults EXCEPT ![t] = CallResult(t)'],
         CallPhases[t] = CallPhase(t)
  PROVE  Calls!ReadStep(t)
<1> DEFINE x == msgs[read_index]
           n == Exact(read_index)
           y == msgs[write_index]
           k == Exact(write_index)
<1>1. /\ pc[t] = "r_swap" /\ pc'[t] = "r_unlock_w" /\ ret[t] = "none"
      /\ pc[t] \in HoldsRead /\ ~Taking(t) /\ Phase(t) = "read" /\ ~ReadShift(t)
      /\ (Taking(t)' <=> ret'[t] # "empty")
  BY DEF IInv, TypeOK, ReaderLocals, ReadSwap, ReadShift, Goto, HoldsRead, Taking, Phase
<1>2. /\ read_index \in 0..1 /\ write_index \in 0..1 /\ write_index = 1 - read_index
      /\ used \in [0..1 -> Nat] /\ msgs \in [0..1 -> Seq(Msgs)] /\ ret \in [Threads -> Msgs \cup Failures \cup {"none", "ok"}]
  BY DEF IInv, TypeOK, OppositeRoles
<1>3. ASSUME NEW i \in 0..1
      PROVE  Exact(i) = used[i] /\ (used[i] = 0 <=> msgs[i] = <<>>)
  <2>1. ~HalfWritten(i)
    BY <1>1 DEF IInv, LocksHeld, HoldsWrite, HalfWritten
  <2>2. Exact(i) = used[i]
    BY <1>2, <2>1 DEF Exact
  <2>3. Encodes(msgs[i], used[i])
    BY <2>2 DEF IInv, UsedIsExact, Exact
  <2> QED BY <1>2, <2>2, <2>3, EncodesEmpty
<1>4. /\ msgs' = msgs /\ (\A i \in 0..1 : Exact(i)' = Exact(i)) /\ arg' = arg
      /\ ~Claimed /\ (Claimed' <=> Taking(t)')
  BY <1>1, ReaderSteps
<1>5. Whole = Pair(x, n, y, k)
  BY <1>4, Shapes DEF WholeShape
<1>6. CallPhases[t] = "read" /\ CallPhase(t)' = "done"
  <2>1. CallPhase(t) = "read"
    BY <1>1 DEF CallPhase
  <2>2. CallPhase(t)' = "done"
    BY <1>1 DEF CallPhase, Phase
  <2> QED BY <2>1, <2>2
<1>7. CASE used[read_index] # 0
  <2>1. read_index' = read_index /\ write_index' = write_index /\ ret'[t] = "none"
    BY <1>1, <1>2, <1>7 DEF ReadSwap
  <2>2. Taking(t)' /\ x # <<>>
    BY <1>1, <1>2, <1>3, <1>7, <2>1
  <2>3. Whole' = IF n > BufferSize THEN Pair(x, n, y, k)
                 ELSE Pair(Tail(x), n - 1 - DataSize[Head(x)], y, k)
    BY <1>2, <1>4, <2>1, <2>2, ShapesNext DEF WholeShape
  <2>4. CallResult(t)' = IF n > BufferSize THEN "small" ELSE Head(x)
    BY <1>2, <1>4, <2>1, <2>2, TakenNext DEF TakenShape
  <2> HIDE DEF x, n, y, k
  <2>5. Calls!Turned(Whole) = Pair(x, n, y, k)
    BY <1>5, <2>2, PairTaken
  <2> QED BY <1>4, <1>6, <2>2, <2>3, <2>4, <2>5, ReadEffect
<1>8. CASE used[read_index] = 0
  <2>1. read_index' = write_index /\ write_index' = read_index /\ x = <<>>
    <3>1. read_index' = write_index /\ write_index' = (write_index + 1) % 2
      BY <1>8 DEF ReadSwap
    <3>2. write_index' = read_index
      BY <1>2, <3>1
    <3>3. msgs[read_index] = <<>>
      BY <1>2, <1>3, <1>8
    <3> QED BY <3>1, <3>2, <3>3
  <2>2. Calls!Turned(Whole) = Pair(y, k, x, n)
    <3> HIDE DEF x, n, y, k
    <3> QED BY <1>5, <2>1, PairTurned
  <2>3. /\ msgs'[read_index'] = y /\ msgs'[write_index'] = x
        /\ Exact(read_index)' = k /\ Exact(write_index)' = n
    <3>1. Exact(read_index)' = used'[read_index'] - (IF HalfWritten(read_index)' THEN 1 ELSE 0)
      BY DEF Exact
    <3>2. ASSUME NEW i \in 0..1
          PROVE  HalfWritten(i)' <=> HalfWritten(i)
      BY <1>1, <1>2 DEF IInv, TypeOK, HalfWritten, ReadSwap, Goto
    <3> QED BY <1>2, <1>3, <1>4, <2>1 DEF Exact
  <2>4. CASE used[write_index] = 0
    <3>1. ret'[t] = "empty" /\ y = <<>>
      BY <1>1, <1>2, <1>3, <1>8, <2>4 DEF ReadSwap
    <3>2. ~Taking(t)' /\ CallResult(t)' = "empty"
      BY <1>1, <3>1 DEF CallResult, Result, Phase
    <3>3. Whole' = Pair(y, k, x, n)
      BY <1>4, <2>3, <3>2, ShapesNext DEF WholeShape
    <3> HIDE DEF x, n, y, k
    <3>4. Pair(y, k, x, n).read = [msgs |-> y, used_size |-> k]
      BY PairRead
    <3>5. Calls!Turned(Whole).read.msgs = <<>>
      BY <2>2, <3>1, <3>4
    <3>6. Calls!Step(t, "read", Calls!Turned(Whole), "empty")
      BY <1>4, <1>6, <2>2, <3>2, <3>3 DEF Calls!Step
    <3> QED BY <3>5, <3>6 DEF Calls!ReadStep
  <2>5. CASE used[write_index] # 0
    <3>1. ret'[t] = "none" /\ y # <<>>
      BY <1>1, <1>2, <1>3, <1>8, <2>5 DEF ReadSwap
    <3>2. Taking(t)'
      BY <1>1, <3>1
    <3>3. Whole' = IF k > BufferSize THEN Pair(y, k, x, n)
                   ELSE Pair(Tail(y), k - 1 - DataSize[Head(y)], x, n)
      BY <1>4, <2>3, <3>2, ShapesNext DEF WholeShape
    <3>4. CallResult(t)' = IF k > BufferSize THEN "small" ELSE Head(y)
      BY <2>3, <3>2, TakenNext DEF TakenShape
    <3> HIDE DEF x, n, y, k
    <3> QED BY <1>4, <1>6, <2>2, <3>1, <3>3, <3>4, ReadEffect
  <2> QED BY <2>4, <2>5
<1> QED BY <1>7, <1>8

(* Every step of app_buffer_read is a step of the call, or none. *)
LEMMA ReadCalls ==
  ASSUME IInv, NEW t \in Readers, Read(t)
  PROVE  Calls!Next \/ UNCHANGED <<Whole, CallPhases, arg, CallResults>>
<1>0. t \in Threads /\ IInv' /\ arg' = arg
  BY ReadInvariant, ReaderSteps DEF Threads
<1>1. ASSUME NEW u \in Threads, u # t, Taking(u)
      PROVE  InMemory'.read = InMemory.read
  <2>1. pc[t] \notin HoldsRead
    BY <1>0, <1>1, TakingFacts
  <2>2. ~ReadShift(t) /\ ~ReadSwap(t)
    BY <2>1 DEF ReadShift, ReadSwap, Goto, HoldsRead
  <2>3. /\ msgs' = msgs /\ read_index' = read_index /\ read_index \in 0..1
        /\ Exact(read_index)' = Exact(read_index)
    BY <2>2, ReaderSteps DEF IInv, TypeOK
  <2> QED BY <2>3, Shapes, ShapesNext DEF ReadShape
<1>2. /\ CallPhases'  = [CallPhases EXCEPT ![t] = CallPhase(t)']
      /\ CallResults' = [CallResults EXCEPT ![t] = CallResult(t)']
      /\ CallPhases[t] = CallPhase(t) /\ CallResults[t] = CallResult(t)
  BY <1>0, <1>1, ReaderSteps, CallFrame
<1>3. /\ CallPhases = [CallPhases EXCEPT ![t] = CallPhases[t]]
      /\ CallResults = [CallResults EXCEPT ![t] = CallResults[t]]
  BY DEF CallPhases, CallResults
<1>4. ASSUME CallPhase(t)' = CallPhase(t), CallResult(t)' = CallResult(t), Whole' = Whole
      PROVE  UNCHANGED <<Whole, CallPhases, arg, CallResults>>
  BY <1>0, <1>2, <1>3, <1>4
<1>5. /\ pc \in [Threads -> Locations] /\ ret \in [Threads -> Msgs \cup Failures \cup {"none", "ok"}]
      /\ pc[t] \in {"idle", "r_lock", "r_peek", "r_lock_w", "r_swap", "r_size", "r_copy"} => ret[t] = "none"
      /\ read_index \in 0..1 /\ write_index \in 0..1 /\ write_index = 1 - read_index
  BY <1>0 DEF IInv, TypeOK, ReaderLocals, OppositeRoles
<1>6. ASSUME ~Taking(t), ~Taking(t)'
      PROVE  /\ CallPhase(t) = Phase(t) /\ CallPhase(t)' = Phase(t)'
             /\ CallResult(t) = Result(t) /\ CallResult(t)' = Result(t)'
  BY <1>6 DEF CallPhase, CallResult
<1>7. ASSUME ~ReadShift(t), ~ReadSwap(t)
      PROVE  /\ msgs' = msgs /\ UNCHANGED <<read_index, write_index>>
             /\ Exact(read_index)' = Exact(read_index) /\ Exact(write_index)' = Exact(write_index)
  BY <1>5, <1>7, ReaderSteps
<1>8. ASSUME ~ReadShift(t), ~ReadSwap(t), Claimed' <=> Claimed
      PROVE  Whole' = Whole
  BY <1>0, <1>7, <1>8, Shapes, ShapesNext DEF WholeShape
<1>a. CASE ReadCall(t)
  <2>1. /\ Phase(t) = "idle" /\ Phase(t)' = "read" /\ Result(t) = "none" /\ Result(t)' = "none"
        /\ pc[t] \notin HoldsRead
    BY <1>0, <1>5, <1>a DEF ReadCall, Goto, Phase, Result, HoldsRead
  <2>2. ~ReadShift(t) /\ ~ReadSwap(t)
    BY <1>a DEF ReadCall, ReadShift, ReadSwap, Goto
  <2>3. ~Taking(t) /\ ~Taking(t)' /\ Whole' = Whole
    BY <1>8, <2>1, <2>2, ReaderSteps
  <2>4. Calls!CallRead(t)
    BY <1>0, <1>2, <1>3, <1>6, <2>1, <2>3 DEF Calls!CallRead
  <2> QED BY <2>4 DEF Calls!Next
<1>b. CASE ReadLock(t) \/ ReadLockWrite(t) \/ ReadUnlock(t) \/ (ReadPeek(t) /\ used[read_index] = 0)
  <2>1. Phase(t)' = Phase(t) /\ Result(t)' = Result(t) /\ ~Taking(t) /\ ~Taking(t)'
    BY <1>0, <1>5, <1>b DEF ReadLock, ReadLockWrite, ReadUnlock, ReadPeek, Goto, Phase, Result, Taking
  <2>2. ~ReadShift(t) /\ ~ReadSwap(t)
    BY <1>b DEF ReadLock, ReadLockWrite, ReadUnlock, ReadPeek, ReadShift, ReadSwap, Goto
  <2>3. Claimed' <=> Claimed
    BY <2>1, ReaderSteps
  <2> QED BY <1>4, <1>6, <1>8, <2>1, <2>2, <2>3
<1>c. CASE ReadUnlockWrite(t) \/ ReadFits(t) \/ ReadCopy(t)
  <2>1. ~ReadShift(t) /\ ~ReadSwap(t) /\ pc[t] \in HoldsRead
    BY <1>c DEF ReadUnlockWrite, ReadFits, ReadCopy, ReadShift, ReadSwap, Goto, HoldsRead
  <2>2. Taking(t)' <=> Taking(t)
    BY <1>0, <1>5, <1>c DEF ReadUnlockWrite, ReadFits, ReadCopy, Goto, Taking
  <2>3. Whole' = Whole
    BY <1>8, <2>1, <2>2, ReaderSteps
  <2>4. CASE ~Taking(t)
    <3>1. Phase(t)' = Phase(t) /\ Result(t)' = Result(t)
      BY <1>0, <1>5, <1>c, <2>4 DEF ReadUnlockWrite, ReadFits, ReadCopy, Goto, Phase, Result, Taking
    <3> QED BY <1>4, <1>6, <2>2, <2>3, <2>4, <3>1
  <2>5. CASE Taking(t)
    <3>1. CallPhase(t)' = CallPhase(t) /\ CallResult(t)' = CallResult(t)
      BY <1>0, <1>7, <2>1, <2>2, <2>5, TakingResult, TakenNext DEF TakenShape
    <3> QED BY <1>4, <2>3, <3>1
  <2> QED BY <2>4, <2>5
<1>d. CASE ReadSmall(t)
  <2>1. /\ Taking(t) /\ ~Taking(t)' /\ pc[t] \in HoldsRead
        /\ Phase(t)' = "done" /\ Result(t)' = "small"
    BY <1>0, <1>5, <1>d DEF ReadSmall, Goto, Phase, Result, Taking, HoldsRead
  <2>2. ~ReadShift(t) /\ ~ReadSwap(t)
    BY <1>d DEF ReadSmall, ReadShift, ReadSwap, Goto
  <2>3. Exact(read_index) > BufferSize
    BY <1>0, <1>d, <2>1, TakingFacts DEF ReadSmall
  <2>4. Whole' = Whole
    BY <1>0, <1>7, <2>1, <2>2, <2>3, ReaderSteps, Shapes, ShapesNext DEF WholeShape
  <2>5. CallPhase(t)' = CallPhase(t) /\ CallResult(t)' = CallResult(t)
    BY <1>0, <2>1, <2>3, TakingResult DEF CallPhase, CallResult
  <2> QED BY <1>4, <2>4, <2>5
<1>e. CASE ReadShift(t)
  <2>1. /\ Taking(t) /\ ~Taking(t)' /\ pc[t] \in HoldsRead
        /\ Phase(t)' = "done" /\ Result(t)' = ret[t]
    BY <1>0, <1>5, <1>e DEF ReadShift, Goto, Phase, Result, Taking, HoldsRead
  <2>2. ~ReadSwap(t) /\ UNCHANGED <<read_index, write_index>>
    BY <1>e, ReaderSteps DEF ReadShift, ReadSwap, Goto
  <2>3. ~(Exact(read_index) > BufferSize) /\ ret[t] = Head(msgs[read_index])
    <3>1. used[sub[t]] <= BufferSize /\ ret[t] = First(msgs[sub[t]]) /\ used[sub[t]] \in Nat
      BY <1>0, <1>e DEF ReadShift, Goto, IInv, ReaderLocals, TypeOK
    <3>2. sub[t] = read_index /\ msgs[read_index] # <<>> /\ Exact(read_index) = used[read_index]
      BY <1>0, <2>1, TakingFacts
    <3> QED BY <3>1, <3>2, BufferAssumption DEF First
  <2>4. Whole' = Whole
    BY <1>0, <1>e, <2>1, <2>2, <2>3, ReaderSteps, Shapes, ShapesNext DEF WholeShape
  <2>5. CallPhase(t)' = CallPhase(t) /\ CallResult(t)' = CallResult(t)
    BY <1>0, <2>1, <2>3, TakingResult DEF CallPhase, CallResult
  <2> QED BY <1>4, <2>4, <2>5
<1>f. CASE ReadPeek(t) /\ ~(used[read_index] = 0)
  <2>1. /\ Taking(t)' /\ ~Taking(t) /\ pc[t] \in HoldsRead
        /\ Phase(t) = "read"
    BY <1>0, <1>5, <1>f DEF ReadPeek, Goto, Phase, Taking, HoldsRead
  <2>2. ~ReadShift(t) /\ ~ReadSwap(t)
    BY <1>f DEF ReadPeek, ReadShift, ReadSwap, Goto
  <2>3. msgs[read_index] # <<>>
    <3>1. msgs'[read_index'] # <<>>
      BY <1>0, <2>1, TakenNext DEF TakenShape
    <3> QED BY <1>7, <2>2, <3>1
  <2> DEFINE x == msgs[read_index]
             n == Exact(read_index)
             y == msgs[write_index]
             k == Exact(write_index)
  <2>4. Whole = Pair(x, n, y, k)
    BY <2>1, ReaderSteps, Shapes DEF WholeShape
  <2>5. Whole' = IF n > BufferSize THEN Pair(x, n, y, k)
                 ELSE Pair(Tail(x), n - 1 - DataSize[Head(x)], y, k)
    BY <1>0, <1>7, <2>1, <2>2, ReaderSteps, ShapesNext DEF WholeShape
  <2>6. CallPhase(t)' = "done" /\ CallResult(t)' = IF n > BufferSize THEN "small" ELSE Head(x)
    BY <1>0, <1>7, <2>1, <2>2, TakenNext DEF TakenShape
  <2>7. CallPhases[t] = "read"
    BY <1>2, <2>1 DEF CallPhase
  <2>8. x # <<>>
    BY <2>3
  <2> HIDE DEF x, n, y, k
  <2>9. Calls!Turned(Whole) = Pair(x, n, y, k)
    BY <2>4, <2>8, PairTaken
  <2>10. Calls!ReadStep(t)
    BY <1>0, <1>2, <2>5, <2>6, <2>7, <2>8, <2>9, ReadEffect
  <2> QED BY <2>10 DEF Calls!Next
<1>g. CASE ReadSwap(t)
  BY <1>g, <1>0, <1>2, <1>5, SwapCalls DEF Calls!Next
<1>h. CASE ReadPeek(t)
  BY <1>b, <1>f, <1>h
<1>i. CASE ReadLock(t) \/ ReadLockWrite(t) \/ ReadUnlock(t)
  BY <1>b, <1>i
<1> QED BY <1>a, <1>c, <1>d, <1>e, <1>g, <1>h, <1>i DEF Read

(* Seen from the moments at which they take effect, the calls are single     *)
(* steps of DoubleBuffer, whatever the number of threads that call.          *)
THEOREM CallsAreSteps == Spec => ImplementsCalls
<1>1. Init => Calls!Init
  <2> SUFFICES ASSUME Init
               PROVE  Calls!Init
    OBVIOUS
  <2>1. /\ CallPhases = [t \in Threads |-> "idle"] /\ CallResults = [t \in Threads |-> "none"]
        /\ ~Claimed
    BY DEF Init, CallPhases, CallResults, CallPhase, CallResult, Taking, Phase, Result, Claimed, Threads
  <2>2. Whole = Pair(<<>>, 0, <<>>, 0)
    <3>1. \A i \in 0..1 : Exact(i) = 0 /\ msgs[i] = <<>>
      BY DEF Init, Exact, HalfWritten
    <3>2. read_index \in 0..1 /\ write_index \in 0..1
      BY DEF Init
    <3> QED BY <2>1, <3>1, <3>2, InitInvariant, Shapes DEF WholeShape
  <2>3. Calls!EmptyBuffer = Pair(<<>>, 0, <<>>, 0)
    BY DEF Calls!EmptyBuffer, Calls!EmptySub, Pair
  <2> QED BY <2>1, <2>2, <2>3 DEF Init, Calls!Init, Calls!Threads, Threads
<1>2. IInv /\ [Next]_vars => [Calls!Next]_(Calls!vars)
  <2> SUFFICES ASSUME IInv, [Next]_vars
               PROVE  Calls!Next \/ UNCHANGED <<Whole, CallPhases, arg, CallResults>>
    BY DEF Calls!vars
  <2>1. ASSUME NEW t \in Threads, Return(t)
        PROVE  Calls!Return(t)
    <3>1. /\ \A u \in Threads : u # t => pc'[u] = pc[u] /\ ret'[u] = ret[u] /\ sub'[u] = sub[u]
          /\ UNCHANGED <<msgs, used, read_index, write_index>> /\ arg' = [arg EXCEPT ![t] = "none"]
          /\ pc[t] = "done" /\ pc'[t] = "idle" /\ ret'[t] = "none"
      BY <2>1 DEF Return, Goto, IInv, TypeOK
    <3>2. ~Taking(t) /\ ~Taking(t)'
      BY <3>1 DEF Taking
    <3>3. \A u \in Threads : Taking(u)' <=> Taking(u)
      BY <3>1, <3>2 DEF Taking
    <3>4. \A i \in 0..1 : HalfWritten(i)' <=> HalfWritten(i)
      BY <3>1 DEF HalfWritten
    <3>5. (Claimed' <=> Claimed) /\ \A i \in 0..1 : Exact(i)' = Exact(i)
      BY <3>1, <3>3, <3>4 DEF Claimed, Threads, Exact
    <3>6. IInv' /\ read_index \in 0..1 /\ write_index \in 0..1
      BY <2>1, StepInvariant DEF Next, IInv, TypeOK
    <3>7. Whole' = Whole /\ InMemory'.read = InMemory.read
      BY <3>1, <3>5, <3>6, Shapes, ShapesNext DEF WholeShape, ReadShape
    <3>8. /\ CallPhases'  = [CallPhases EXCEPT ![t] = CallPhase(t)']
          /\ CallResults' = [CallResults EXCEPT ![t] = CallResult(t)']
          /\ CallPhases[t] = CallPhase(t)
      BY <3>1, <3>7, CallFrame
    <3>9. CallPhase(t) = "done" /\ CallPhase(t)' = "idle" /\ CallResult(t)' = "none"
      BY <3>1, <3>2 DEF CallPhase, CallResult, Phase, Result
    <3> QED BY <3>1, <3>7, <3>8, <3>9 DEF Calls!Return
  <2>2. CASE UNCHANGED vars
    <3>1. \A u \in Threads : Taking(u)' <=> Taking(u)
      BY <2>2 DEF vars, Taking
    <3>2. InMemory' = InMemory
      BY <2>2 DEF vars, InMemory, Stored, HalfWritten
    <3>3. Whole' = Whole
      BY <3>1, <3>2 DEF Whole, Threads, DB!Wedged, DB!Taken, DB!Turned
    <3>4. CallPhases' = CallPhases /\ CallResults' = CallResults
      BY <2>2, <3>2 DEF vars, CallPhases, CallResults, CallPhase, CallResult, Phase, Result, Taking, DB!Wedged
    <3> QED BY <2>2, <3>3, <3>4 DEF vars
  <2> QED BY <2>1, <2>2, WriteCalls, ReadCalls DEF Next, Calls!Next, Calls!Threads, Threads
<1> QED BY <1>1, <1>2, Invariance, PTL DEF Spec, ImplementsCalls, Calls!Spec
==============================================================================
