--------------------------- MODULE BtFraming_proofs ---------------------------
(***************************************************************************)
(* The theorems about BtFraming, for any frames, any noise without a       *)
(* header, and pieces of any size: what comes out does not depend on the   *)
(* cuts, and short reads keep up.                                          *)
(*                                                                         *)
(* Positions are those of wire, every byte ever sent.  What is in the      *)
(* buffer is a stretch of it, which begins behind the last frame that was  *)
(* returned and not behind the header of the next one.                     *)
(*                                                                         *)
(* The last part is about what MessageBytes makes of such a message: its   *)
(* digits for the broker and the frame it is when it is sent back.         *)
(***************************************************************************)
EXTENDS BtFraming, SequenceTheorems, TLAPS

(* The number of bytes up to the end of frame k, when frames begin at at. *)
EndOf(k, frames, at) == IF k = 0 THEN 0 ELSE at[k] + Len(OnWire(frames[k]))

(* How many bytes were returned in a message or thrown away. *)
Gone == taken - Len(read_buffer)

(* b is what stands behind the first g bytes of w. *)
Stretch(b, g, w) == \A i \in 1..Len(b) : b[i] = w[g + i]

TypeOK ==
  /\ pace \in Nat
  /\ sent \in Seq(Frames)
  /\ starts \in Seq(Nat) /\ Len(starts) = Len(sent)
  /\ wire \in Seq(Byte)
  /\ taken \in 0..Len(wire)
  /\ read_buffer \in Seq(Byte) /\ Len(read_buffer) <= taken
  /\ stored \in Seq(Seq(Byte)) /\ Len(stored) <= Len(sent)

(* Frame k follows the one before it and its own noise, which holds no       *)
(* header.                                                                   *)
FrameOn(k, frames, at, w) ==
  /\ at[k] = EndOf(k - 1, frames, at) + Len(frames[k].noise)
  /\ EndOf(k, frames, at) <= Len(w)
  /\ \A j \in 1..Len(OnWire(frames[k])) : w[at[k] + j] = OnWire(frames[k])[j]
  /\ \A i \in (EndOf(k - 1, frames, at) + 1)..at[k] : ~HasHead(w, i)

WireInv ==
  /\ Len(wire) = EndOf(Len(sent), sent, starts)
  /\ \A k \in 1..Len(sent) : FrameOn(k, sent, starts, wire)

(* The buffer begins between the last frame returned and the next header.    *)
BufferInv ==
  /\ Stretch(read_buffer, Gone, wire)
  /\ EndOf(Len(stored), sent, starts) <= Gone
  /\ Len(stored) < Len(sent) => Gone <= starts[NextFrame]

StoredInv == \A i \in 1..Len(stored) : stored[i] = Message(sent[i])

(* Reads of at most eight bytes stop before the end of the next frame.       *)
NotBehind == pace <= 8 /\ Len(stored) < Len(sent) => taken < EndOf(NextFrame, sent, starts)

(* The inductive invariant. *)
IInv == TypeOK /\ WireInv /\ BufferInv /\ StoredInv /\ NotBehind

------------------------------------------------------------------------------
(* Frames *)

LEMMA ByteNumbers ==
  /\ Head1 \in Byte /\ Head2 \in Byte /\ 1 \in Byte /\ 2 \in Byte
  /\ \A n \in 1..12 : n \in Byte /\ n + 4 \in Byte
BY DEF Byte, Head1, Head2

LEMMA Triple ==
  ASSUME NEW x \in Byte, NEW y \in Byte, NEW z \in Byte
  PROVE  <<x, y, z>> \in Seq(Byte) /\ Len(<<x, y, z>>) = 3
OBVIOUS

LEMMA FrameFields ==
  ASSUME NEW f \in Frames
  PROVE  /\ f.noise \in Seq(Byte) /\ f.id \in Seq(Byte) /\ f.own \in Seq(Byte) /\ f.message \in Seq(Byte)
         /\ Len(f.id) = 2 /\ Len(f.own) = 2 /\ Len(f.message) \in 1..12
         /\ \A i \in 1..(Len(f.noise) - 1) : ~HasHead(f.noise, i)
BY FramingAssumption

(* The bytes of a frame. *)
LEMMA WireOfFrame ==
  ASSUME NEW f \in Frames
  PROVE  /\ OnWire(f) \in Seq(Byte) /\ Len(OnWire(f)) = Len(f.message) + 7
         /\ OnWire(f)[1] = Head1 /\ OnWire(f)[2] = Head2 /\ OnWire(f)[3] = Len(f.message) + 4
         /\ OnWire(f)[4] = f.id[1] /\ OnWire(f)[5] = f.id[2]
         /\ \A j \in 1..Len(f.message) : OnWire(f)[7 + j] = f.message[j]
<1> DEFINE a == <<Head1, Head2, Len(f.message) + 4>>
           b == f.id
           c == f.own
           d == f.message
<1>1. /\ b \in Seq(Byte) /\ c \in Seq(Byte) /\ d \in Seq(Byte)
      /\ Len(b) = 2 /\ Len(c) = 2 /\ Len(d) \in 1..12
  BY FrameFields
<1>2. a \in Seq(Byte) /\ Len(a) = 3 /\ a[1] = Head1 /\ a[2] = Head2 /\ a[3] = Len(d) + 4
  <2>1. Len(f.message) \in 1..12 /\ Head1 \in Byte /\ Head2 \in Byte /\ Len(f.message) + 4 \in Byte
    BY <1>1, ByteNumbers
  <2>2. /\ <<Head1, Head2, Len(f.message) + 4>> \in Seq(Byte)
        /\ Len(<<Head1, Head2, Len(f.message) + 4>>) = 3
    BY <2>1, Triple
  <2> QED BY <2>2
<1>3. OnWire(f) = ((a \o b) \o c) \o d
  BY DEF OnWire
<1> HIDE DEF a, b, c, d
<1>4. /\ a \o b \in Seq(Byte) /\ Len(a \o b) = 5
      /\ \A i \in 1..5 : (a \o b)[i] = IF i <= 3 THEN a[i] ELSE b[i - 3]
  <2>1. /\ a \o b \in Seq(Byte) /\ Len(a \o b) = Len(a) + Len(b)
        /\ \A i \in 1..(Len(a) + Len(b)) : (a \o b)[i] = IF i <= Len(a) THEN a[i] ELSE b[i - Len(a)]
    BY <1>1, <1>2, ConcatProperties
  <2> QED BY <1>1, <1>2, <2>1
<1> DEFINE ab == a \o b
<1> HIDE DEF ab
<1>5. /\ ab \o c \in Seq(Byte) /\ Len(ab \o c) = 7
      /\ \A i \in 1..7 : (ab \o c)[i] = IF i <= 5 THEN ab[i] ELSE c[i - 5]
  <2>1. /\ ab \o c \in Seq(Byte) /\ Len(ab \o c) = Len(ab) + Len(c)
        /\ \A i \in 1..(Len(ab) + Len(c)) : (ab \o c)[i] = IF i <= Len(ab) THEN ab[i] ELSE c[i - Len(ab)]
    <3>1. ab \in Seq(Byte)
      BY <1>4 DEF ab
    <3> QED BY <1>1, <3>1, ConcatProperties
  <2>2. Len(ab) = 5
    BY <1>4 DEF ab
  <2> QED BY <1>1, <2>1, <2>2
<1> DEFINE abc == ab \o c
<1> HIDE DEF abc
<1>6. /\ abc \o d \in Seq(Byte) /\ Len(abc \o d) = 7 + Len(d)
      /\ \A i \in 1..(7 + Len(d)) : (abc \o d)[i] = IF i <= 7 THEN abc[i] ELSE d[i - 7]
  BY <1>1, <1>5, ConcatProperties, SMTT(60) DEF abc
<1>7. OnWire(f) = abc \o d
  BY <1>3 DEF ab, abc
<1>8. /\ abc[1] = Head1 /\ abc[2] = Head2 /\ abc[3] = Len(d) + 4
      /\ abc[4] = b[1] /\ abc[5] = b[2]
  <2>1. ab[1] = a[1] /\ ab[2] = a[2] /\ ab[3] = a[3] /\ ab[4] = b[1] /\ ab[5] = b[2]
    BY <1>4 DEF ab
  <2> QED BY <1>2, <1>5, <2>1, SMTT(60) DEF abc
<1>9. \A j \in 1..Len(d) : (abc \o d)[7 + j] = d[j]
  BY <1>1, <1>6
<1>10. \A i \in 1..5 : (abc \o d)[i] = abc[i]
  BY <1>1, <1>6
<1> QED BY <1>1, <1>6, <1>7, <1>8, <1>9, <1>10, SMTT(60) DEF b, d

LEMMA MessageType ==
  ASSUME NEW f \in Frames
  PROVE  Message(f) \in Seq(Byte) /\ Message(f) # <<>>
<1> DEFINE a == <<1, 2, Len(f.message)>>
           b == f.id
           d == f.message
<1>1. b \in Seq(Byte) /\ d \in Seq(Byte) /\ Len(b) = 2 /\ Len(d) \in 1..12
  BY FrameFields
<1>2. a \in Seq(Byte) /\ Len(a) = 3
  <2>1. Len(f.message) \in Byte /\ 1 \in Byte /\ 2 \in Byte
    BY <1>1, ByteNumbers
  <2>2. <<1, 2, Len(f.message)>> \in Seq(Byte) /\ Len(<<1, 2, Len(f.message)>>) = 3
    BY <2>1, Triple
  <2> QED BY <2>2
<1>3. Message(f) = (a \o b) \o d
  BY DEF Message
<1> HIDE DEF a, b, d
<1>4. a \o b \in Seq(Byte) /\ Len(a \o b) = 5
  <2>1. a \o b \in Seq(Byte) /\ Len(a \o b) = Len(a) + Len(b)
    BY <1>1, <1>2, ConcatProperties
  <2> QED BY <1>1, <1>2, <2>1
<1> DEFINE ab == a \o b
<1> HIDE DEF ab
<1>5. ab \o d \in Seq(Byte) /\ Len(ab \o d) = 5 + Len(d)
  BY <1>1, <1>4, ConcatProperties DEF ab
<1>6. ab \o d # <<>>
  BY <1>1, <1>5, EmptySeq
<1> QED BY <1>3, <1>5, <1>6 DEF ab

------------------------------------------------------------------------------
(* The search for a header and what is removed *)

LEMMA Removed ==
  ASSUME NEW s \in Seq(Byte), NEW d \in 0..Len(s)
  PROVE  /\ RemoveData(s, d) \in Seq(Byte) /\ Len(RemoveData(s, d)) = Len(s) - d
         /\ \A i \in 1..(Len(s) - d) : RemoveData(s, d)[i] = s[d + i]
<1>1. Len(s) \in Nat
  BY LenProperties
<1>2. \A i \in (d + 1)..Len(s) : s[i] \in Byte
  BY <1>1, ElementOfSeq
<1>3. /\ SubSeq(s, d + 1, Len(s)) \in Seq(Byte)
      /\ Len(SubSeq(s, d + 1, Len(s))) = IF d + 1 <= Len(s) THEN Len(s) - (d + 1) + 1 ELSE 0
      /\ \A i \in 1..(Len(s) - (d + 1) + 1) : SubSeq(s, d + 1, Len(s))[i] = s[(d + 1) + i - 1]
  BY <1>1, <1>2, SubSeqProperties
<1> QED BY <1>1, <1>3 DEF RemoveData

(* A stretch of the line, without its first d bytes, is one further on.      *)
LEMMA StretchRemoved ==
  ASSUME NEW s \in Seq(Byte), NEW d \in 0..Len(s), NEW g \in Nat, NEW w, Stretch(s, g, w)
  PROVE  Stretch(RemoveData(s, d), g + d, w)
<1>1. Len(s) \in Nat
  BY LenProperties
<1>2. /\ Len(RemoveData(s, d)) = Len(s) - d
      /\ \A i \in 1..(Len(s) - d) : RemoveData(s, d)[i] = s[d + i]
  BY Removed
<1>3. \A i \in 1..(Len(s) - d) : s[d + i] = w[g + (d + i)]
  BY <1>1 DEF Stretch
<1>4. \A i \in 1..(Len(s) - d) : g + (d + i) = (g + d) + i
  BY <1>1
<1> QED BY <1>2, <1>3, <1>4 DEF Stretch

(* The first header is that of the next frame, which is found if eight bytes *)
(* of it are there.                                                          *)
LEMMA FirstHead ==
  ASSUME NEW s \in Seq(Byte), NEW w, NEW g \in Nat, NEW start \in Nat, Stretch(s, g, w), g <= start,
         \A i \in (g + 1)..start : ~HasHead(w, i), HasHead(w, start + 1)
  PROVE  /\ Heads(s) # {} => start - g + 8 <= Len(s)
         /\ start - g + 8 <= Len(s) => Heads(s) # {} /\ First(s) = start - g + 1
<1> DEFINE p == start - g + 1
<1>1. Len(s) \in Nat /\ p \in Nat /\ p >= 1
  BY LenProperties
<1>2. \A i \in 1..(Len(s) - 7) : i \in Nat /\ s[i] = w[g + i] /\ s[i + 1] = w[(g + i) + 1]
  <2> TAKE i \in 1..(Len(s) - 7)
  <2>1. i \in 1..Len(s) /\ i + 1 \in 1..Len(s) /\ g + (i + 1) = (g + i) + 1
    BY <1>1
  <2> QED BY <2>1 DEF Stretch
<1>3. \A i \in 1..(Len(s) - 7) : HasHead(s, i) <=> HasHead(w, g + i)
  BY <1>2 DEF HasHead
<1>4. \A i \in Heads(s) : p <= i
  <2> SUFFICES ASSUME NEW i \in 1..(Len(s) - 7), HasHead(w, g + i), i < p PROVE FALSE
    BY <1>1, <1>3 DEF Heads
  <2>1. g + i \in (g + 1)..start
    BY <1>1
  <2> QED BY <2>1
<1>5. Heads(s) # {} => p <= Len(s) - 7
  <2> SUFFICES ASSUME NEW i \in Heads(s) PROVE p <= Len(s) - 7
    OBVIOUS
  <2> QED BY <1>1, <1>4 DEF Heads
<1>6. ASSUME p <= Len(s) - 7
      PROVE  Heads(s) # {} /\ First(s) = p
  <2>1. p \in Heads(s)
    <3>1. p \in 1..(Len(s) - 7) /\ g + p = start + 1
      BY <1>1, <1>6
    <3> QED BY <1>3, <3>1 DEF Heads
  <2>2. First(s) \in Heads(s) /\ \A j \in Heads(s) : First(s) <= j
    BY <1>4, <2>1 DEF First
  <2>3. First(s) \in Nat
    BY <1>1, <2>2 DEF Heads
  <2>4. First(s) <= p /\ p <= First(s)
    BY <1>4, <2>1, <2>2
  <2> QED BY <1>1, <2>1, <2>3, <2>4
<1> QED BY <1>1, <1>5, <1>6

LEMMA RemovedTwice ==
  ASSUME NEW s \in Seq(Byte), NEW d \in 0..Len(s), NEW e \in 0..(Len(s) - d)
  PROVE  d + e \in 0..Len(s) /\ RemoveData(RemoveData(s, d), e) = RemoveData(s, d + e)
<1> DEFINE t == RemoveData(s, d)
           u == RemoveData(t, e)
           v == RemoveData(s, d + e)
<1>1. Len(s) \in Nat /\ d + e \in 0..Len(s)
  BY LenProperties
<1>2. t \in Seq(Byte) /\ Len(t) = Len(s) - d /\ \A i \in 1..(Len(s) - d) : t[i] = s[d + i]
  BY Removed
<1> HIDE DEF t
<1>3. u \in Seq(Byte) /\ Len(u) = Len(t) - e /\ \A i \in 1..(Len(t) - e) : u[i] = t[e + i]
  BY <1>1, <1>2, Removed
<1>4. /\ v \in Seq(Byte) /\ Len(v) = Len(s) - (d + e)
      /\ \A i \in 1..(Len(s) - (d + e)) : v[i] = s[(d + e) + i]
  BY <1>1, Removed
<1> HIDE DEF u, v
<1>5. Len(u) = Len(v)
  BY <1>1, <1>2, <1>3, <1>4
<1>6. \A i \in 1..Len(u) : u[i] = v[i]
  <2> TAKE i \in 1..Len(u)
  <2>1. i \in 1..(Len(t) - e) /\ e + i \in 1..(Len(s) - d) /\ d + (e + i) = (d + e) + i
    BY <1>1, <1>2, <1>3
  <2>2. u[i] = s[(d + e) + i]
    BY <1>2, <1>3, <2>1
  <2> QED BY <1>4, <1>5, <2>2
<1>7. u = v
  BY <1>3, <1>4, <1>5, <1>6, SeqEqual
<1> QED BY <1>1, <1>7 DEF t, u, v

LEMMA RemovedNone ==
  ASSUME NEW s \in Seq(Byte)
  PROVE  RemoveData(s, 0) = s
<1>1. 0 + 1 = 1
  OBVIOUS
<1> QED BY <1>1, SubSeqFull DEF RemoveData

(* What post_read makes of a buffer that begins with the frame f, or with    *)
(* eight bytes of it.                                                        *)
LEMMA ExtractsFrame ==
  ASSUME NEW s \in Seq(Byte), NEW f \in Frames, Len(s) >= 8,
         \A j \in 1..Len(OnWire(f)) : j <= Len(s) => s[j] = OnWire(f)[j]
  PROVE  /\ Len(s) < Len(OnWire(f)) => Extract(s) = [data |-> <<>>, rest |-> s]
         /\ Len(s) >= Len(OnWire(f)) =>
              Extract(s) = [data |-> Message(f), rest |-> RemoveData(s, Len(OnWire(f)))]
<1> DEFINE m == f.message
           L == Len(OnWire(f))
<1>1. /\ m \in Seq(Byte) /\ Len(m) \in 1..12 /\ f.id \in Seq(Byte) /\ Len(f.id) = 2
      /\ L = Len(m) + 7
      /\ OnWire(f)[3] = Len(m) + 4 /\ OnWire(f)[4] = f.id[1] /\ OnWire(f)[5] = f.id[2]
      /\ \A j \in 1..Len(m) : OnWire(f)[7 + j] = m[j]
  BY FrameFields, WireOfFrame
<1> HIDE DEF m
<1>2. Len(s) \in Nat
  BY LenProperties
<1>3. s[3] = Len(m) + 4 /\ s[4] = f.id[1] /\ s[5] = f.id[2] /\ BlueLen(s) = L
  <2>1. 3 \in 1..L /\ 4 \in 1..L /\ 5 \in 1..L
    BY <1>1
  <2>2. s[3] = OnWire(f)[3] /\ s[4] = OnWire(f)[4] /\ s[5] = OnWire(f)[5]
    BY <1>2, <2>1
  <2>3. (Len(m) + 4) + 3 = Len(m) + 7
    BY <1>1
  <2> QED BY <1>1, <2>2, <2>3 DEF BlueLen
<1>4. SubSeq(s, 4, 5) = f.id
  <2> DEFINE t == SubSeq(s, 4, 5)
  <2>1. \A i \in 4..5 : s[i] \in Byte
    BY <1>2, ElementOfSeq
  <2>2. /\ t \in Seq(Byte) /\ Len(t) = IF 4 <= 5 THEN 5 - 4 + 1 ELSE 0
        /\ \A i \in 1..(5 - 4 + 1) : t[i] = s[4 + i - 1]
    BY <2>1, SubSeqProperties
  <2> HIDE DEF t
  <2>3. Len(t) = 2 /\ t[1] = s[4] /\ t[2] = s[5]
    BY <2>2
  <2>4. \A i \in 1..Len(t) : t[i] = f.id[i]
    BY <1>3, <2>3
  <2>5. t = f.id
    BY <1>1, <2>2, <2>3, <2>4, SeqEqual, ZenonT(60)
  <2> QED BY <2>5 DEF t
<1>5. Len(s) >= L => SubSeq(s, 8, L) = m
  <2> SUFFICES ASSUME Len(s) >= L PROVE SubSeq(s, 8, L) = m
    OBVIOUS
  <2> DEFINE t == SubSeq(s, 8, L)
  <2>1. L \in Int /\ \A i \in 8..L : s[i] \in Byte
    BY <1>1, <1>2, ElementOfSeq
  <2>2. /\ t \in Seq(Byte) /\ Len(t) = IF 8 <= L THEN L - 8 + 1 ELSE 0
        /\ \A i \in 1..(L - 8 + 1) : t[i] = s[8 + i - 1]
    BY <2>1, SubSeqProperties
  <2> HIDE DEF t
  <2>3. Len(t) = Len(m)
    BY <1>1, <2>2
  <2>4. \A i \in 1..Len(t) : t[i] = m[i]
    <3> TAKE i \in 1..Len(t)
    <3>1. i \in 1..(L - 8 + 1) /\ 8 + i - 1 = 7 + i /\ 7 + i \in 1..L /\ 7 + i <= Len(s) /\ i \in 1..Len(m)
      BY <1>1, <1>2, <2>3
    <3>2. t[i] = s[7 + i] /\ s[7 + i] = OnWire(f)[7 + i]
      BY <2>2, <3>1
    <3> QED BY <1>1, <3>1, <3>2
  <2>5. t = m
    BY <1>1, <2>2, <2>3, <2>4, SeqEqual
  <2> QED BY <2>5 DEF t
<1>6. Len(s) < L => Extract(s) = [data |-> <<>>, rest |-> s]
  BY <1>3 DEF Extract
<1>7. Len(s) >= L => Extract(s) = [data |-> Message(f), rest |-> RemoveData(s, L)]
  <2> SUFFICES ASSUME Len(s) >= L PROVE Extract(s) = [data |-> Message(f), rest |-> RemoveData(s, L)]
    OBVIOUS
  <2>1. ~(Len(s) < BlueLen(s)) /\ s[3] - 4 = Len(m)
    BY <1>1, <1>2, <1>3
  <2>2. Extract(s) = [data |-> (<<1, 2, Len(m)>> \o f.id) \o m, rest |-> RemoveData(s, L)]
    BY <1>3, <1>4, <1>5, <2>1 DEF Extract
  <2> QED BY <2>2 DEF Message, m
<1> QED BY <1>6, <1>7

------------------------------------------------------------------------------
(* post_read, with a buffer that begins in front of the header of f *)

(* The call returns nothing, drops no byte of f, and f is not complete; or   *)
(* it returns the message of f and removes all bytes up to its end.          *)
LEMMA PostReads ==
  ASSUME NEW s \in Seq(Byte), NEW w, NEW g \in Nat, NEW start \in Nat, NEW f \in Frames,
         Stretch(s, g, w), g <= start,
         \A i \in (g + 1)..start : ~HasHead(w, i),
         \A j \in 1..Len(OnWire(f)) : w[start + j] = OnWire(f)[j]
  PROVE  \E d \in 0..Len(s) :
           /\ PostRead(s).rest = RemoveData(s, d)
           /\ \/ /\ PostRead(s).data = <<>>
                 /\ g + d <= start
                 /\ g + Len(s) < start + Len(OnWire(f))
              \/ /\ PostRead(s).data = Message(f)
                 /\ g + d = start + Len(OnWire(f))
<1> DEFINE L == Len(OnWire(f))
           Quiet(d) == /\ d \in 0..Len(s) /\ PostRead(s).rest = RemoveData(s, d)
                       /\ PostRead(s).data = <<>> /\ g + d <= start /\ g + Len(s) < start + L
           Returns(d) == /\ d \in 0..Len(s) /\ PostRead(s).rest = RemoveData(s, d)
                         /\ PostRead(s).data = Message(f) /\ g + d = start + L
<1>1. Len(s) \in Nat /\ L \in Nat /\ L >= 8 /\ OnWire(f)[1] = Head1 /\ OnWire(f)[2] = Head2
  <2>1. /\ Len(f.message) \in 1..12 /\ L = Len(f.message) + 7
        /\ OnWire(f)[1] = Head1 /\ OnWire(f)[2] = Head2
    BY FrameFields, WireOfFrame
  <2> HIDE DEF L
  <2>2. \A n \in 1..12 : n + 7 \in Nat /\ n + 7 >= 8
    OBVIOUS
  <2> QED BY <2>1, <2>2, LenProperties
<1>2. HasHead(w, start + 1)
  <2>1. 1 \in 1..L /\ 2 \in 1..L /\ start + 2 = (start + 1) + 1
    BY <1>1
  <2> QED BY <1>1, <2>1 DEF HasHead
<1>3. /\ Heads(s) # {} => start - g + 8 <= Len(s)
      /\ start - g + 8 <= Len(s) => Heads(s) # {} /\ First(s) = start - g + 1
  BY <1>2, FirstHead
<1>4. CASE Len(s) < 8
  <2>1. PostRead(s) = [data |-> <<>>, rest |-> RemoveData(s, 0)]
    BY <1>4, RemovedNone DEF PostRead
  <2>2. Quiet(0)
    BY <1>1, <1>4, <2>1
  <2> QED BY <2>2
<1>5. CASE Len(s) >= 8 /\ Heads(s) = {}
  <2>1. PostRead(s) = [data |-> <<>>, rest |-> RemoveData(s, Len(s) - 7)]
    BY <1>1, <1>5 DEF PostRead
  <2>2. Len(s) < start - g + 8
    BY <1>1, <1>3, <1>5
  <2>3. Quiet(Len(s) - 7)
    BY <1>1, <1>5, <2>1, <2>2
  <2> QED BY <2>3
<1>6. CASE Len(s) >= 8 /\ Heads(s) # {}
  <2> DEFINE e == start - g
             t == RemoveData(s, e)
  <2>1. e \in 0..Len(s) /\ Len(s) - e >= 8 /\ First(s) - 1 = e
    BY <1>1, <1>3, <1>6
  <2>2. PostRead(s) = Extract(t)
    BY <1>1, <1>6, <2>1 DEF PostRead
  <2>3. t \in Seq(Byte) /\ Len(t) = Len(s) - e /\ Len(t) >= 8 /\ \A i \in 1..(Len(s) - e) : t[i] = s[e + i]
    BY <2>1, Removed
  <2>4. \A j \in 1..L : j <= Len(t) => t[j] = OnWire(f)[j]
    <3> SUFFICES ASSUME NEW j \in 1..L, j <= Len(t) PROVE t[j] = OnWire(f)[j]
      OBVIOUS
    <3>1. j \in 1..(Len(s) - e) /\ e + j \in 1..Len(s) /\ g + (e + j) = start + j
      BY <1>1, <2>1, <2>3
    <3>2. t[j] = s[e + j] /\ s[e + j] = w[start + j]
      BY <2>3, <3>1 DEF Stretch
    <3> QED BY <3>2
  <2>5. /\ Len(t) < L => Extract(t) = [data |-> <<>>, rest |-> t]
        /\ Len(t) >= L => Extract(t) = [data |-> Message(f), rest |-> RemoveData(t, L)]
    BY <2>3, <2>4, ExtractsFrame
  <2>6. CASE Len(t) < L
    <3>1. PostRead(s).rest = RemoveData(s, e) /\ PostRead(s).data = <<>>
      BY <2>2, <2>5, <2>6
    <3>2. g + e <= start /\ g + Len(s) < start + L
      BY <1>1, <2>1, <2>3, <2>6
    <3>3. Quiet(e)
      BY <2>1, <3>1, <3>2
    <3> QED BY <3>3
  <2>7. CASE Len(t) >= L
    <3>1. L \in 0..(Len(s) - e)
      BY <1>1, <2>1, <2>3, <2>7
    <3>2. e + L \in 0..Len(s) /\ RemoveData(t, L) = RemoveData(s, e + L)
      BY <2>1, <3>1, RemovedTwice
    <3>3. PostRead(s).rest = RemoveData(s, e + L) /\ PostRead(s).data = Message(f)
      BY <2>2, <2>5, <2>7, <3>2
    <3>4. g + (e + L) = start + L
      BY <1>1
    <3>5. Returns(e + L)
      BY <3>2, <3>3, <3>4
    <3> QED BY <3>5
  <2>8. Len(t) < L \/ Len(t) >= L
    BY <1>1, <2>1, <2>3
  <2> QED BY <2>6, <2>7, <2>8
<1> QED BY <1>1, <1>4, <1>5, <1>6

------------------------------------------------------------------------------
(* The steps *)

(* What sending a frame makes of the line. *)
LEMMA WireGrows ==
  ASSUME NEW w \in Seq(Byte), NEW f \in Frames
  PROVE  LET v == w \o f.noise \o OnWire(f)
             N == Len(w) + Len(f.noise)
         IN  /\ v \in Seq(Byte) /\ Len(v) = N + Len(OnWire(f))
             /\ \A i \in 1..Len(w) : v[i] = w[i]
             /\ \A j \in 1..Len(OnWire(f)) : v[N + j] = OnWire(f)[j]
             /\ \A i \in (Len(w) + 1)..N : ~HasHead(v, i)
<1> DEFINE a == f.noise
           c == OnWire(f)
           u == w \o a
           v == u \o c
           N == Len(w) + Len(a)
<1>1. /\ a \in Seq(Byte) /\ c \in Seq(Byte) /\ Len(w) \in Nat /\ Len(a) \in Nat /\ Len(c) \in Nat
      /\ Len(c) >= 8 /\ c[1] = Head1 /\ \A i \in 1..(Len(a) - 1) : ~HasHead(a, i)
  <2>1. /\ a \in Seq(Byte) /\ c \in Seq(Byte) /\ c[1] = Head1 /\ \A i \in 1..(Len(a) - 1) : ~HasHead(a, i)
        /\ Len(f.message) \in 1..12 /\ Len(c) = Len(f.message) + 7
    BY FrameFields, WireOfFrame
  <2> HIDE DEF a, c
  <2>2. \A n \in 1..12 : n + 7 \in Nat /\ n + 7 >= 8
    OBVIOUS
  <2> QED BY <2>1, <2>2, LenProperties
<1> HIDE DEF a, c
<1>2. /\ u \in Seq(Byte) /\ Len(u) = N
      /\ \A i \in 1..N : u[i] = IF i <= Len(w) THEN w[i] ELSE a[i - Len(w)]
  BY <1>1, ConcatProperties
<1> HIDE DEF u
<1>3. /\ v \in Seq(Byte) /\ Len(v) = N + Len(c)
      /\ \A i \in 1..(N + Len(c)) : v[i] = IF i <= N THEN u[i] ELSE c[i - N]
  <2>1. /\ v \in Seq(Byte) /\ Len(v) = Len(u) + Len(c)
        /\ \A i \in 1..(Len(u) + Len(c)) : v[i] = IF i <= Len(u) THEN u[i] ELSE c[i - Len(u)]
    BY <1>1, <1>2, ConcatProperties, ZenonT(60)
  <2> QED BY <1>2, <2>1
<1> HIDE DEF v
<1>4. \A i \in 1..Len(w) : v[i] = w[i]
  BY <1>1, <1>2, <1>3
<1>5. \A j \in 1..Len(c) : v[N + j] = c[j]
  <2> TAKE j \in 1..Len(c)
  <2>1. N + j \in 1..(N + Len(c)) /\ ~(N + j <= N) /\ (N + j) - N = j
    BY <1>1
  <2> QED BY <1>3, <2>1
<1>6. \A q \in 1..Len(a) : v[Len(w) + q] = a[q]
  BY <1>1, <1>2, <1>3
<1>7. \A i \in (Len(w) + 1)..N : ~HasHead(v, i)
  <2> SUFFICES ASSUME NEW i \in (Len(w) + 1)..N, HasHead(v, i) PROVE FALSE
    OBVIOUS
  <2> DEFINE q == i - Len(w)
  <2>1. q \in 1..Len(a) /\ i = Len(w) + q
    BY <1>1
  <2>2. CASE q < Len(a)
    <3>1. q + 1 \in 1..Len(a) /\ i + 1 = Len(w) + (q + 1) /\ q \in 1..(Len(a) - 1)
      BY <1>1, <2>1, <2>2
    <3>2. v[i] = a[q] /\ v[i + 1] = a[q + 1]
      BY <1>6, <2>1, <3>1
    <3>3. HasHead(a, q)
      BY <3>2 DEF HasHead
    <3> QED BY <1>1, <3>1, <3>3
  <2>3. CASE q = Len(a)
    <3>1. i + 1 = N + 1 /\ 1 \in 1..Len(c)
      BY <1>1, <2>1, <2>3
    <3>2. v[i + 1] = Head1
      BY <1>1, <1>5, <3>1
    <3> QED BY <3>2 DEF HasHead, Head1, Head2
  <2>4. q < Len(a) \/ q = Len(a)
    <3>1. Len(a) \in Nat
      BY <1>1
    <3> HIDE DEF q
    <3> QED BY <2>1, <3>1
  <2> QED BY <2>2, <2>3, <2>4
<1> QED BY <1>3, <1>4, <1>5, <1>7 DEF a, c, u, v

(* The ends of the frames are in their order on the line. *)
LEMMA Ends ==
  ASSUME TypeOK, WireInv
  PROVE  /\ \A k \in 1..Len(sent) :
              /\ sent[k] \in Frames /\ starts[k] \in Nat
              /\ Len(OnWire(sent[k])) \in Nat /\ Len(OnWire(sent[k])) >= 8
              /\ EndOf(k, sent, starts) = starts[k] + Len(OnWire(sent[k]))
              /\ EndOf(k, sent, starts) \in Nat /\ EndOf(k - 1, sent, starts) \in Nat
              /\ EndOf(k - 1, sent, starts) <= starts[k]
              /\ EndOf(k, sent, starts) <= Len(wire)
         /\ EndOf(0, sent, starts) = 0
         /\ Len(sent) \in Nat /\ Len(wire) \in Nat
<1>1. Len(sent) \in Nat /\ Len(wire) \in Nat /\ Len(starts) = Len(sent)
  BY LenProperties DEF TypeOK
<1>2. EndOf(0, sent, starts) = 0
  BY DEF EndOf
<1>3. \A k \in 1..Len(sent) : sent[k] \in Frames /\ starts[k] \in Nat
  BY <1>1, ElementOfSeq DEF TypeOK
<1>4. ASSUME NEW f \in Frames PROVE Len(OnWire(f)) \in Nat /\ Len(OnWire(f)) >= 8 /\ Len(f.noise) \in Nat
  <2>1. Len(f.message) \in 1..12 /\ Len(OnWire(f)) = Len(f.message) + 7 /\ f.noise \in Seq(Byte)
    BY FrameFields, WireOfFrame
  <2>2. \A n \in 1..12 : n + 7 \in Nat /\ n + 7 >= 8
    OBVIOUS
  <2> QED BY <2>1, <2>2, LenProperties
<1>5. \A k \in 1..Len(sent) : EndOf(k, sent, starts) = starts[k] + Len(OnWire(sent[k])) /\ EndOf(k, sent, starts) \in Nat
  BY <1>1, <1>3, <1>4 DEF EndOf
<1>6. \A k \in 1..Len(sent) : EndOf(k - 1, sent, starts) \in Nat
  <2> TAKE k \in 1..Len(sent)
  <2>1. k - 1 = 0 \/ k - 1 \in 1..Len(sent)
    BY <1>1
  <2> QED BY <1>2, <1>5, <2>1
<1>7. \A k \in 1..Len(sent) : EndOf(k - 1, sent, starts) <= starts[k] /\ EndOf(k, sent, starts) <= Len(wire)
  <2> TAKE k \in 1..Len(sent)
  <2>1. starts[k] = EndOf(k - 1, sent, starts) + Len(sent[k].noise) /\ EndOf(k, sent, starts) <= Len(wire)
    BY DEF WireInv, FrameOn
  <2>2. EndOf(k - 1, sent, starts) \in Nat /\ Len(sent[k].noise) \in Nat
    BY <1>3, <1>4, <1>6
  <2> QED BY <2>1, <2>2
<1> QED BY <1>1, <1>2, <1>3, <1>4, <1>5, <1>6, <1>7

LEMMA SendKeeps ==
  ASSUME IInv, NEW f \in Frames, Send(f)
  PROVE  IInv'
<1> DEFINE m == Len(sent)
           N == Len(wire) + Len(f.noise)
           L == Len(OnWire(f))
<1>1. /\ TypeOK /\ WireInv /\ BufferInv /\ StoredInv /\ NotBehind
      /\ UNCHANGED <<pace, taken, read_buffer, stored>>
      /\ sent \in Seq(Frames) /\ starts \in Seq(Nat) /\ Len(starts) = m /\ wire \in Seq(Byte)
      /\ taken \in 0..Len(wire) /\ Len(wire) = EndOf(m, sent, starts)
  BY DEF IInv, Send, TypeOK, WireInv
<1>2. /\ \A k \in 1..m :
           /\ sent[k] \in Frames /\ starts[k] \in Nat
           /\ Len(OnWire(sent[k])) \in Nat /\ Len(OnWire(sent[k])) >= 8
           /\ EndOf(k, sent, starts) = starts[k] + Len(OnWire(sent[k]))
           /\ EndOf(k, sent, starts) \in Nat /\ EndOf(k - 1, sent, starts) \in Nat
           /\ EndOf(k - 1, sent, starts) <= starts[k]
           /\ EndOf(k, sent, starts) <= Len(wire)
      /\ m \in Nat /\ Len(wire) \in Nat
  BY <1>1, Ends
<1>3. N \in Nat /\ L \in Nat /\ L >= 8 /\ Len(wire) <= N /\ Len(f.noise) \in Nat
  <2>1. Len(f.message) \in 1..12 /\ L = Len(f.message) + 7 /\ f.noise \in Seq(Byte)
    BY FrameFields, WireOfFrame
  <2> HIDE DEF L
  <2>2. \A n \in 1..12 : n + 7 \in Nat /\ n + 7 >= 8
    OBVIOUS
  <2>3. Len(f.noise) \in Nat
    BY <2>1, LenProperties
  <2>4. L \in Nat /\ L >= 8
    BY <2>1, <2>2
  <2>5. N \in Nat /\ Len(wire) <= N
    BY <1>2, <2>3
  <2> QED BY <2>3, <2>4, <2>5
<1>4. /\ wire' \in Seq(Byte) /\ Len(wire') = N + L
      /\ \A i \in 1..Len(wire) : wire'[i] = wire[i]
      /\ \A j \in 1..L : wire'[N + j] = OnWire(f)[j]
      /\ \A i \in (Len(wire) + 1)..N : ~HasHead(wire', i)
  BY <1>1, WireGrows DEF Send
<1>5. /\ sent' \in Seq(Frames) /\ Len(sent') = m + 1
      /\ \A k \in 1..m : sent'[k] = sent[k]
      /\ sent'[m + 1] = f
  <2>1. /\ Append(sent, f) \in Seq(Frames) /\ Len(Append(sent, f)) = m + 1
        /\ \A k \in 1..m : Append(sent, f)[k] = sent[k]
        /\ Append(sent, f)[m + 1] = f
    BY <1>1, AppendProperties
  <2> QED BY <2>1 DEF Send
<1>6. /\ starts' \in Seq(Nat) /\ Len(starts') = m + 1
      /\ \A k \in 1..m : starts'[k] = starts[k]
      /\ starts'[m + 1] = N
  <2>1. /\ Append(starts, N) \in Seq(Nat) /\ Len(Append(starts, N)) = m + 1
        /\ \A k \in 1..m : Append(starts, N)[k] = starts[k]
        /\ Append(starts, N)[m + 1] = N
    <3> HIDE DEF N
    <3> QED BY <1>1, <1>3, AppendProperties
  <2> QED BY <2>1 DEF Send
<1> HIDE DEF N, L, m
<1>7. TypeOK'
  <2>1. taken' \in 0..Len(wire')
    BY <1>1, <1>2, <1>3, <1>4
  <2>2. pace' \in Nat /\ read_buffer' \in Seq(Byte) /\ Len(read_buffer') <= taken' /\ stored' \in Seq(Seq(Byte))
    BY <1>1 DEF TypeOK
  <2>3. Len(stored') \in Nat /\ Len(stored') <= m
    BY <1>1, LenProperties DEF TypeOK, m
  <2> QED BY <1>2, <1>4, <1>5, <1>6, <2>1, <2>2, <2>3 DEF TypeOK
<1>8. /\ \A k \in 0..m : EndOf(k, sent', starts') = EndOf(k, sent, starts)
      /\ EndOf(m + 1, sent', starts') = N + L
  <2>1. \A k \in 1..m : starts'[k] + Len(OnWire(sent'[k])) = starts[k] + Len(OnWire(sent[k]))
    BY <1>5, <1>6
  <2>2. \A k \in 0..m : k = 0 \/ k \in 1..m
    BY <1>2
  <2>3. m + 1 # 0
    BY <1>2
  <2> QED BY <1>5, <1>6, <2>1, <2>2, <2>3 DEF EndOf, L
<1>9. WireInv'
  <2>1. Len(wire') = EndOf(Len(sent'), sent', starts')
    BY <1>4, <1>5, <1>8
  <2>2. ASSUME NEW k \in 1..m PROVE FrameOn(k, sent', starts', wire')
    <3>1. FrameOn(k, sent, starts, wire) /\ k \in 0..m /\ k - 1 \in 0..m
      BY <1>1, <1>2 DEF WireInv, m
    <3>2. EndOf(k, sent', starts') = EndOf(k, sent, starts) /\ EndOf(k - 1, sent', starts') = EndOf(k - 1, sent, starts)
      BY <1>8, <3>1
    <3>3. sent'[k] = sent[k] /\ starts'[k] = starts[k]
      BY <1>5, <1>6
    <3>4. \A j \in 1..Len(OnWire(sent[k])) : starts[k] + j \in 1..Len(wire)
      BY <1>2
    <3>5. \A j \in 1..Len(OnWire(sent[k])) : wire'[starts[k] + j] = OnWire(sent[k])[j]
      BY <1>4, <3>1, <3>4 DEF FrameOn
    <3>6. \A i \in (EndOf(k - 1, sent, starts) + 1)..starts[k] : i \in 1..Len(wire) /\ i + 1 \in 1..Len(wire)
      BY <1>2
    <3>7. \A i \in (EndOf(k - 1, sent, starts) + 1)..starts[k] : ~HasHead(wire', i)
      BY <1>4, <3>1, <3>6 DEF FrameOn, HasHead
    <3>8. EndOf(k, sent, starts) <= Len(wire')
      BY <1>2, <1>3, <1>4
    <3> QED BY <3>1, <3>2, <3>3, <3>5, <3>7, <3>8 DEF FrameOn
  <2>3. FrameOn(m + 1, sent', starts', wire')
    <3>1. EndOf((m + 1) - 1, sent', starts') = Len(wire)
      BY <1>1, <1>2, <1>8 DEF m
    <3>2. EndOf(m + 1, sent', starts') = N + L /\ Len(wire') = N + L /\ N + L <= Len(wire')
      BY <1>3, <1>4, <1>8
    <3>3. starts'[m + 1] = Len(wire) + Len(sent'[m + 1].noise)
      BY <1>5, <1>6 DEF N
    <3>4. \A j \in 1..Len(OnWire(sent'[m + 1])) : wire'[starts'[m + 1] + j] = OnWire(sent'[m + 1])[j]
      BY <1>4, <1>5, <1>6 DEF L
    <3> QED BY <1>4, <1>6, <3>1, <3>2, <3>3, <3>4 DEF FrameOn
  <2>4. \A k \in 1..(m + 1) : k \in 1..m \/ k = m + 1
    BY <1>2
  <2>5. ASSUME NEW k \in 1..(m + 1) PROVE FrameOn(k, sent', starts', wire')
    BY <2>2, <2>3, <2>4
  <2> QED BY <1>5, <2>1, <2>5 DEF WireInv
<1>10. Len(stored) \in Nat /\ Len(stored) <= m /\ Len(read_buffer) \in Nat /\ Len(read_buffer) <= taken
  BY <1>1, LenProperties DEF TypeOK, m
<1>11. BufferInv' /\ NotBehind'
  <2>1. Gone' = Gone /\ Gone \in Nat /\ Gone <= taken /\ taken <= Len(wire) /\ Gone + Len(read_buffer) = taken
    BY <1>1, <1>2, <1>10 DEF Gone
  <2>2. Stretch(read_buffer, Gone, wire)'
    <3>1. \A i \in 1..Len(read_buffer) : Gone + i \in 1..Len(wire)
      BY <1>2, <1>10, <2>1
    <3> QED BY <1>1, <1>4, <2>1, <3>1 DEF BufferInv, Stretch
  <2>3. EndOf(Len(stored'), sent', starts') <= Gone'
    <3>1. Len(stored) \in 0..m /\ Len(stored') = Len(stored)
      BY <1>1, <1>2, <1>10
    <3> QED BY <1>1, <1>8, <2>1, <3>1 DEF BufferInv
  <2>4. CASE Len(stored) < m
    <3>1. NextFrame \in 1..m /\ NextFrame \in 0..m /\ NextFrame' = NextFrame
      BY <1>1, <1>2, <1>10, <2>4, SMTT(60) DEF NextFrame
    <3>2. starts'[NextFrame] = starts[NextFrame] /\ EndOf(NextFrame', sent', starts') = EndOf(NextFrame, sent, starts)
      BY <1>1, <1>6, <1>8, <3>1
    <3>3. Gone <= starts[NextFrame] /\ (pace <= 8 => taken < EndOf(NextFrame, sent, starts))
      BY <1>1, <2>4 DEF BufferInv, NotBehind, m
    <3> QED BY <1>1, <2>1, <2>2, <2>3, <3>1, <3>2, <3>3 DEF BufferInv, NotBehind
  <2>5. CASE Len(stored) = m
    <3>1. NextFrame' = m + 1
      BY <1>1, <2>5 DEF NextFrame
    <3>2. Gone <= starts'[m + 1] /\ taken < N + L /\ EndOf(m + 1, sent', starts') = N + L
      BY <1>1, <1>2, <1>3, <1>6, <1>8, <2>1
    <3>3. EndOf(NextFrame', sent', starts') = N + L
      BY <3>1, <3>2 DEF EndOf
    <3> QED BY <1>1, <2>1, <2>2, <2>3, <3>1, <3>2, <3>3 DEF BufferInv, NotBehind
  <2> QED BY <1>2, <1>10, <2>4, <2>5
<1>12. StoredInv'
  <2>1. \A i \in 1..Len(stored) : i \in 1..m
    BY <1>2, <1>10
  <2> QED BY <1>1, <1>5, <2>1 DEF StoredInv
<1> QED BY <1>7, <1>9, <1>11, <1>12 DEF IInv

(* The n bytes behind the first t. *)
LEMMA Piece ==
  \A w \in Seq(Byte), t, n \in Nat :
    t + n <= Len(w) =>
      /\ SubSeq(w, t + 1, t + n) \in Seq(Byte) /\ Len(SubSeq(w, t + 1, t + n)) = n
      /\ Stretch(SubSeq(w, t + 1, t + n), t, w)
<1> TAKE w \in Seq(Byte), t, n \in Nat
<1>0. HAVE t + n <= Len(w)
<1> DEFINE x == t + 1
           y == t + n
           p == SubSeq(w, x, y)
<1>1. Len(w) \in Nat
  BY LenProperties
<1>2. x \in Int /\ y \in Int /\ x <= y + 1 /\ y - x + 1 = n /\ x >= 1 /\ y <= Len(w)
  BY <1>0, <1>1
<1>3. \A i \in 1..n : x + i - 1 = t + i
  OBVIOUS
<1> HIDE DEF x, y
<1>4. \A i \in x..y : w[i] \in Byte
  BY <1>1, <1>2, ElementOfSeq
<1>5. /\ SubSeq(w, x, y) \in Seq(Byte)
      /\ Len(SubSeq(w, x, y)) = IF x <= y THEN y - x + 1 ELSE 0
      /\ \A i \in 1..(y - x + 1) : SubSeq(w, x, y)[i] = w[x + i - 1]
  BY <1>2, <1>4, SubSeqProperties
<1>6. (IF x <= y THEN y - x + 1 ELSE 0) = n
  BY <1>2
<1>7. /\ p \in Seq(Byte) /\ Len(p) = n
      /\ \A i \in 1..(y - x + 1) : p[i] = w[x + i - 1]
  BY <1>5, <1>6
<1> HIDE DEF p
<1>8. p \in Seq(Byte) /\ Len(p) = n /\ \A i \in 1..n : p[i] = w[t + i]
  BY <1>2, <1>3, <1>7
<1>9. p \in Seq(Byte) /\ Len(p) = n /\ Stretch(p, t, w)
  BY <1>8 DEF Stretch
<1> QED BY <1>9 DEF p, x, y

LEMMA Shift ==
  \A g, m, n \in Nat : \A i \in 1..(m + n) :
    ~(i <= m) => i - m \in 1..n /\ (g + m) + (i - m) = g + i
OBVIOUS

(* Two stretches, one behind the other, are a stretch.                       *)
LEMMA StretchExtends ==
  \A b, p, w \in Seq(Byte), g \in Nat :
    Stretch(b, g, w) /\ Stretch(p, g + Len(b), w) => Stretch(b \o p, g, w)
<1> TAKE b, p, w \in Seq(Byte), g \in Nat
<1>0. HAVE Stretch(b, g, w) /\ Stretch(p, g + Len(b), w)
<1> DEFINE m == Len(b)
           n == Len(p)
           t == g + m
           s == b \o p
<1>1. m \in Nat /\ n \in Nat /\ t \in Nat /\ t = g + m
  BY LenProperties
<1>2. /\ s \in Seq(Byte) /\ Len(s) = m + n
      /\ \A i \in 1..(m + n) : s[i] = IF i <= m THEN b[i] ELSE p[i - m]
  BY ConcatProperties
<1>3. /\ \A i \in 1..m : b[i] = w[g + i]
      /\ \A i \in 1..n : p[i] = w[t + i]
  BY <1>0 DEF Stretch
<1> HIDE DEF m, n, t, s
<1>4. ASSUME NEW i \in 1..(m + n) PROVE s[i] = w[g + i]
  <2>1. CASE i <= m
    <3>1. i \in 1..m /\ s[i] = b[i]
      BY <1>1, <1>2, <2>1
    <3> QED BY <1>3, <3>1
  <2>2. CASE ~(i <= m)
    <3> DEFINE q == i - m
    <3>1. q \in 1..n /\ (g + m) + q = g + i
      BY <1>1, <2>2, Shift
    <3>2. s[i] = p[q]
      BY <1>2, <2>2
    <3> HIDE DEF q
    <3>3. t + q = g + i /\ p[q] = w[t + q]
      BY <1>1, <1>3, <3>1
    <3> QED BY <3>2, <3>3
  <2> QED BY <2>1, <2>2
<1>5. Stretch(s, g, w)
  BY <1>2, <1>4 DEF Stretch
<1> QED BY <1>5 DEF s

LEMMA ReadKeeps ==
  ASSUME IInv, NEW n \in 1..pace, Read(n)
  PROVE  IInv'
<1> DEFINE k == NextFrame
           f == sent[k]
           s == read_buffer \o SubSeq(wire, taken + 1, taken + n)
           result == PostRead(s)
<1>1. /\ TypeOK /\ WireInv /\ BufferInv /\ StoredInv /\ NotBehind
      /\ UNCHANGED <<pace, sent, wire, starts>>
      /\ taken + n <= Len(wire) /\ taken' = taken + n
      /\ read_buffer' = result.rest
      /\ stored' = IF result.data # <<>> THEN Append(stored, result.data) ELSE stored
  BY DEF IInv, Read
<1>2. /\ \A j \in 1..Len(sent) :
           /\ sent[j] \in Frames /\ starts[j] \in Nat
           /\ Len(OnWire(sent[j])) \in Nat /\ Len(OnWire(sent[j])) >= 8
           /\ EndOf(j, sent, starts) = starts[j] + Len(OnWire(sent[j]))
           /\ EndOf(j, sent, starts) \in Nat /\ EndOf(j - 1, sent, starts) \in Nat
           /\ EndOf(j - 1, sent, starts) <= starts[j]
           /\ EndOf(j, sent, starts) <= Len(wire)
      /\ Len(sent) \in Nat /\ Len(wire) \in Nat
  BY <1>1, Ends
<1>3. /\ wire \in Seq(Byte) /\ read_buffer \in Seq(Byte) /\ stored \in Seq(Seq(Byte))
      /\ taken \in Nat /\ pace \in Nat /\ n \in Nat /\ n >= 1 /\ n <= pace
      /\ Len(read_buffer) \in Nat /\ Len(read_buffer) <= taken
      /\ Len(stored) \in Nat /\ Len(stored) <= Len(sent)
      /\ Gone \in Nat /\ Gone + Len(read_buffer) = taken
  <2>1. wire \in Seq(Byte) /\ read_buffer \in Seq(Byte) /\ stored \in Seq(Seq(Byte)) /\ taken \in Nat /\ pace \in Nat
    BY <1>1, <1>2 DEF TypeOK
  <2>2. Len(read_buffer) \in Nat /\ Len(stored) \in Nat
    BY <2>1, LenProperties
  <2> QED BY <1>1, <2>1, <2>2 DEF TypeOK, Gone
<1>4. k \in 1..Len(sent) /\ k = Len(stored) + 1 /\ k - 1 = Len(stored)
  <2>1. ASSUME Len(stored) = Len(sent) PROVE FALSE
    <3>1. Len(wire) <= Gone
      BY <1>1, <2>1 DEF WireInv, BufferInv
    <3> QED BY <1>1, <1>2, <1>3, <3>1
  <2> QED BY <1>2, <1>3, <2>1 DEF NextFrame
<1>5. /\ f \in Frames /\ starts[k] \in Nat /\ Len(OnWire(f)) \in Nat
      /\ Gone <= starts[k] /\ EndOf(Len(stored), sent, starts) <= Gone
      /\ EndOf(k, sent, starts) = starts[k] + Len(OnWire(f))
  BY <1>1, <1>2, <1>3, <1>4 DEF BufferInv
<1> HIDE DEF f, k
<1>6. s \in Seq(Byte) /\ Len(s) = Len(read_buffer) + n /\ Gone + Len(s) = taken + n /\ Stretch(s, Gone, wire)
  <2>1. Stretch(read_buffer, Gone, wire)
    BY <1>1 DEF BufferInv
  <2>2. s \in Seq(Byte) /\ Len(s) = Len(read_buffer) + n /\ Stretch(s, Gone, wire)
    <3> DEFINE g == Gone
               p == SubSeq(wire, taken + 1, taken + n)
    <3>1. /\ read_buffer \in Seq(Byte) /\ wire \in Seq(Byte) /\ g \in Nat /\ taken \in Nat /\ n \in Nat
          /\ g + Len(read_buffer) = taken /\ taken + n <= Len(wire) /\ Stretch(read_buffer, g, wire)
      BY <1>1, <1>3, <2>1
    <3>2. s = read_buffer \o p
      OBVIOUS
    <3> HIDE DEF g, s
    <3>4. p \in Seq(Byte) /\ Len(p) = n /\ Stretch(p, taken, wire)
      BY <3>1, Piece, Zenon
    <3> HIDE DEF p
    <3>5. Stretch(read_buffer \o p, g, wire)
      <4>1. Stretch(p, g + Len(read_buffer), wire)
        BY <3>1, <3>4
      <4> QED BY <3>1, <3>4, <4>1, StretchExtends, Zenon
    <3>6. s \in Seq(Byte) /\ Len(s) = Len(read_buffer) + n
      BY <3>1, <3>2, <3>4, ConcatProperties
    <3> QED BY <3>2, <3>5, <3>6 DEF g
  <2>3. Gone + (Len(read_buffer) + n) = taken + n
    <3> DEFINE g == Gone
               b == Len(read_buffer)
    <3>1. g \in Nat /\ b \in Nat /\ n \in Nat /\ g + b = taken
      BY <1>3
    <3> HIDE DEF g, b
    <3>2. g + (b + n) = taken + n
      BY <3>1
    <3> QED BY <3>2 DEF g, b
  <2> HIDE DEF s
  <2> QED BY <2>2, <2>3
<1> HIDE DEF s
<1>7. /\ \A i \in (Gone + 1)..starts[k] : ~HasHead(wire, i)
      /\ \A j \in 1..Len(OnWire(f)) : wire[starts[k] + j] = OnWire(f)[j]
  <2>1. FrameOn(k, sent, starts, wire)
    BY <1>1, <1>4 DEF WireInv
  <2>2. EndOf(k - 1, sent, starts) <= Gone /\ EndOf(k - 1, sent, starts) \in Nat
    BY <1>2, <1>4, <1>5
  <2>3. \A i \in (Gone + 1)..starts[k] : i \in (EndOf(k - 1, sent, starts) + 1)..starts[k]
    BY <1>3, <1>5, <2>2
  <2> QED BY <2>1, <2>3 DEF FrameOn, f
<1>8. PICK d \in 0..Len(s) :
        /\ result.rest = RemoveData(s, d)
        /\ \/ /\ result.data = <<>>
              /\ Gone + d <= starts[k]
              /\ Gone + Len(s) < starts[k] + Len(OnWire(f))
           \/ /\ result.data = Message(f)
              /\ Gone + d = starts[k] + Len(OnWire(f))
  <2> DEFINE start == starts[k]
  <2>1. start \in Nat /\ Gone \in Nat /\ Gone <= start
    BY <1>3, <1>5
  <2>2. /\ \A i \in (Gone + 1)..start : ~HasHead(wire, i)
        /\ \A j \in 1..Len(OnWire(f)) : wire[start + j] = OnWire(f)[j]
    BY <1>7
  <2> HIDE DEF start
  <2>3. \E d \in 0..Len(s) :
          /\ PostRead(s).rest = RemoveData(s, d)
          /\ \/ /\ PostRead(s).data = <<>>
                /\ Gone + d <= start
                /\ Gone + Len(s) < start + Len(OnWire(f))
             \/ /\ PostRead(s).data = Message(f)
                /\ Gone + d = start + Len(OnWire(f))
    BY <1>5, <1>6, <2>1, <2>2, PostReads
  <2> QED BY <2>3 DEF start
<1> HIDE DEF result
<1>9. /\ read_buffer' \in Seq(Byte) /\ Len(read_buffer') = Len(s) - d /\ Len(s) \in Nat
       /\ Len(read_buffer') \in Nat /\ Len(read_buffer') <= taken'
       /\ Gone' = Gone + d
       /\ Stretch(read_buffer, Gone, wire)'
  <2>1. read_buffer' \in Seq(Byte) /\ Len(read_buffer') = Len(s) - d
    BY <1>1, <1>6, <1>8, Removed
  <2>2. Stretch(read_buffer', Gone + d, wire)
    BY <1>1, <1>3, <1>6, <1>8, StretchRemoved
  <2>3. Len(s) \in Nat /\ d \in Nat /\ d <= Len(s)
    BY <1>3, <1>6, <1>8
  <2>4. Gone' = Gone + d
    BY <1>1, <1>3, <1>6, <2>1, <2>3 DEF Gone
  <2> QED BY <1>1, <1>3, <1>6, <2>1, <2>2, <2>3, <2>4
<1>10. WireInv' /\ taken' \in 0..Len(wire')
  BY <1>1, <1>2, <1>3 DEF WireInv
<1>11. CASE result.data = <<>> /\ Gone + d <= starts[k] /\ Gone + Len(s) < starts[k] + Len(OnWire(f))
  <2>1. stored' = stored /\ NextFrame' = k /\ k = NextFrame
    BY <1>1, <1>11 DEF NextFrame, k
  <2>2. TypeOK' /\ StoredInv'
    BY <1>1, <1>9, <1>10, <2>1 DEF TypeOK, StoredInv
  <2>3. BufferInv'
    <3>1. EndOf(Len(stored'), sent', starts') <= Gone'
      <4>1. EndOf(Len(stored), sent, starts) \in Nat /\ d \in Nat
        BY <1>2, <1>4, <1>8
      <4> QED BY <1>1, <1>3, <1>5, <1>9, <2>1, <4>1, SMTT(60)
    <3>2. Gone' <= starts'[NextFrame']
      BY <1>1, <1>9, <1>11, <2>1
    <3> QED BY <1>9, <3>1, <3>2 DEF BufferInv
  <2>4. NotBehind'
    <3>1. taken' < EndOf(k, sent, starts)
      BY <1>1, <1>5, <1>6, <1>11
    <3> QED BY <1>1, <2>1, <3>1 DEF NotBehind
  <2> QED BY <1>10, <2>2, <2>3, <2>4 DEF IInv
<1>12. CASE result.data = Message(f) /\ Gone + d = starts[k] + Len(OnWire(f))
  <2>1. Message(f) \in Seq(Byte) /\ Message(f) # <<>>
    BY <1>5, MessageType
  <2>2. /\ stored' \in Seq(Seq(Byte)) /\ Len(stored') = k
        /\ \A i \in 1..Len(stored) : stored'[i] = stored[i]
        /\ stored'[k] = Message(f)
    <3> DEFINE e == Message(f)
    <3> HIDE DEF e
    <3>1. e \in Seq(Byte) /\ stored' = Append(stored, e)
      BY <1>1, <1>12, <2>1 DEF e
    <3>2. /\ Append(stored, e) \in Seq(Seq(Byte)) /\ Len(Append(stored, e)) = Len(stored) + 1
          /\ \A i \in 1..Len(stored) : Append(stored, e)[i] = stored[i]
          /\ Append(stored, e)[Len(stored) + 1] = e
      BY <1>3, <3>1, AppendProperties
    <3> QED BY <1>4, <3>1, <3>2 DEF e
  <2>3. TypeOK'
    BY <1>1, <1>4, <1>9, <1>10, <2>2 DEF TypeOK
  <2>4. StoredInv'
    <3>1. \A i \in 1..k : i \in 1..Len(stored) \/ i = k
      BY <1>3, <1>4
    <3> QED BY <1>1, <2>2, <3>1 DEF StoredInv, f
  <2>5. NextFrame' = k + 1 /\ Gone' = EndOf(k, sent, starts) /\ EndOf(k, sent, starts) \in Nat
    BY <1>2, <1>4, <1>5, <1>9, <1>12, <2>2 DEF NextFrame
  <2>6. ASSUME k < Len(sent)
        PROVE  /\ EndOf(k, sent, starts) <= starts[k + 1]
               /\ EndOf(k + 1, sent, starts) >= EndOf(k, sent, starts) + 8
    <3>1. k + 1 \in 1..Len(sent) /\ (k + 1) - 1 = k
      BY <1>2, <1>4, <2>6
    <3>2. /\ starts[k + 1] \in Nat /\ Len(OnWire(sent[k + 1])) \in Nat /\ Len(OnWire(sent[k + 1])) >= 8
          /\ EndOf(k + 1, sent, starts) = starts[k + 1] + Len(OnWire(sent[k + 1]))
          /\ EndOf(k, sent, starts) <= starts[k + 1]
      BY <1>2, <3>1
    <3> QED BY <2>5, <3>2
  <2>7. BufferInv'
    <3>1. EndOf(Len(stored'), sent', starts') <= Gone'
      BY <1>1, <2>2, <2>5
    <3>2. Len(stored') < Len(sent') => Gone' <= starts'[NextFrame']
      BY <1>1, <2>2, <2>5, <2>6
    <3> QED BY <1>9, <3>1, <3>2 DEF BufferInv
  <2>8. NotBehind'
    <3> SUFFICES ASSUME pace <= 8, k < Len(sent) PROVE taken' < EndOf(k + 1, sent, starts)
      BY <1>1, <2>2, <2>5 DEF NotBehind
    <3>1. taken < EndOf(k, sent, starts)
      BY <1>2, <1>3, <1>4, <1>1 DEF NotBehind, k
    <3>2. taken' < EndOf(k, sent, starts) + 8
      BY <1>1, <1>3, <2>5, <3>1
    <3>3. EndOf(k + 1, sent, starts) \in Nat
      BY <1>2, <1>4
    <3> QED BY <1>1, <1>3, <2>5, <2>6, <3>2, <3>3
  <2> QED BY <1>10, <2>3, <2>4, <2>7, <2>8 DEF IInv
<1> QED BY <1>8, <1>11, <1>12

------------------------------------------------------------------------------
(* The theorems *)

LEMMA InitInvariant ==
  ASSUME Init
  PROVE  IInv
<1>1. /\ pace \in Nat /\ sent = <<>> /\ wire = <<>> /\ starts = <<>> /\ taken = 0
      /\ read_buffer = <<>> /\ stored = <<>>
  BY FramingAssumption DEF Init
<1>2. Len(<<>>) = 0
  OBVIOUS
<1>3. TypeOK
  BY <1>1, <1>2 DEF TypeOK
<1>4. WireInv /\ BufferInv /\ StoredInv /\ NotBehind
  BY <1>1, <1>2 DEF WireInv, BufferInv, StoredInv, NotBehind, EndOf, Stretch, Gone
<1> QED BY <1>3, <1>4 DEF IInv

LEMMA NextInvariant == IInv /\ [Next]_vars => IInv'
<1> SUFFICES ASSUME IInv, [Next]_vars PROVE IInv'
  OBVIOUS
<1>1. CASE \E f \in Frames : Send(f)
  BY <1>1, SendKeeps
<1>2. CASE ReadSome
  BY <1>2, ReadKeeps DEF ReadSome
<1>3. CASE UNCHANGED vars
  BY <1>3 DEF vars, IInv, TypeOK, WireInv, BufferInv, StoredInv, NotBehind, NextFrame, Gone, Stretch
<1> QED BY <1>1, <1>2, <1>3 DEF Next, Silent

(* In every reachable state: the buffer is the stretch of the line between   *)
(* the last frame returned and what was read, and begins in front of the     *)
(* header of the next frame (app_bt_postRead, app_bt.c:131-181).             *)
THEOREM Invariance == Spec => []IInv
<1>1. Init => IInv
  BY InitInvariant
<1> QED BY <1>1, NextInvariant, PTL DEF Spec

(* The line, the buffer and the messages are bytes, and no more is read,     *)
(* kept or returned than was sent (app_bt.c:119-181).                        *)
THEOREM TypeCorrect == Spec => []TypeOK
<1>1. IInv => TypeOK
  BY DEF IInv
<1> QED BY <1>1, Invariance, PTL

(* A stretch of the line up to its end, without what comes before position   *)
(* p, is what stands behind p on the line.                                   *)
LEMMA Rest ==
  ASSUME NEW w \in Seq(Byte), NEW r \in Seq(Byte), NEW g \in Nat, NEW p \in Nat,
         g <= p, p <= Len(w), Stretch(r, g, w), g + Len(r) = Len(w)
  PROVE  p - g \in 0..Len(r) /\ SubSeq(r, (p - g) + 1, Len(r)) = SubSeq(w, p + 1, Len(w))
<1> DEFINE d == p - g
           x == RemoveData(r, d)
           y == RemoveData(w, p)
<1>1. Len(r) \in Nat /\ Len(w) \in Nat /\ d \in 0..Len(r) /\ p \in 0..Len(w) /\ g + d = p /\ Len(r) - d = Len(w) - p
  <2>1. Len(r) \in Nat /\ Len(w) \in Nat
    BY LenProperties
  <2> QED BY <2>1
<1> HIDE DEF d
<1>2. x \in Seq(Byte) /\ Len(x) = Len(r) - d /\ \A i \in 1..(Len(r) - d) : x[i] = r[d + i]
  BY <1>1, Removed
<1>3. y \in Seq(Byte) /\ Len(y) = Len(w) - p /\ \A i \in 1..(Len(w) - p) : y[i] = w[p + i]
  BY <1>1, Removed
<1>4. \A i \in 1..Len(x) : x[i] = w[p + i]
  <2>1. Stretch(x, g + d, w)
    BY <1>1, StretchRemoved
  <2> HIDE DEF x
  <2> QED BY <1>1, <2>1 DEF Stretch
<1> HIDE DEF x, y
<1>5. x = y
  BY <1>1, <1>2, <1>3, <1>4, SeqEqual
<1> QED BY <1>1, <1>5 DEF x, y, d, RemoveData

LEMMA KeepsAll ==
  ASSUME IInv
  PROVE  NothingLost
<1>1. /\ TypeOK /\ WireInv /\ BufferInv /\ StoredInv
      /\ wire \in Seq(Byte) /\ read_buffer \in Seq(Byte) /\ stored \in Seq(Seq(Byte))
      /\ taken \in 0..Len(wire) /\ Len(read_buffer) <= taken /\ Len(stored) <= Len(sent)
  BY DEF IInv, TypeOK
<1>2. Len(wire) \in Nat /\ Len(read_buffer) \in Nat /\ Len(stored) \in Nat /\ Len(sent) \in Nat
  BY <1>1, Ends, LenProperties
<1>3. stored = [i \in 1..Len(stored) |-> Message(sent[i])]
  <2>1. stored \in [1..Len(stored) -> Seq(Byte)]
    BY <1>1, LenProperties
  <2>2. \A i \in 1..Len(stored) : stored[i] = Message(sent[i])
    BY <1>1 DEF StoredInv
  <2> QED BY <2>1, <2>2
<1>4. ASSUME Len(stored) < Len(sent)
      PROVE  \E gone \in 0..Len(Remaining) :
               SubSeq(Remaining, gone + 1, Len(Remaining)) = SubSeq(wire, starts[NextFrame] + 1, Len(wire))
  <2> DEFINE g == Gone
             n == Len(wire) - taken
             p == starts[NextFrame]
             r == Remaining
  <2>1. /\ g \in Nat /\ n \in Nat /\ taken \in Nat /\ g + Len(read_buffer) = taken
        /\ taken + n = Len(wire) /\ taken + n <= Len(wire)
    BY <1>1, <1>2 DEF Gone
  <2>2. NextFrame \in 1..Len(sent)
    BY <1>2, <1>4 DEF NextFrame
  <2>3. p \in Nat /\ p <= Len(wire)
    <3>1. /\ starts[NextFrame] \in Nat /\ Len(OnWire(sent[NextFrame])) \in Nat
          /\ EndOf(NextFrame, sent, starts) = starts[NextFrame] + Len(OnWire(sent[NextFrame]))
          /\ EndOf(NextFrame, sent, starts) <= Len(wire)
      BY <1>1, <2>2, Ends
    <3> QED BY <1>2, <3>1
  <2>4. g <= p /\ Stretch(read_buffer, g, wire)
    BY <1>1, <1>4 DEF BufferInv
  <2>5. r = read_buffer \o SubSeq(wire, taken + 1, taken + n)
    BY <2>1 DEF Remaining
  <2> HIDE DEF g, n, p, r
  <2>6. r \in Seq(Byte) /\ Len(r) = Len(read_buffer) + n /\ Stretch(r, g, wire)
    <3> DEFINE q == SubSeq(wire, taken + 1, taken + n)
    <3>1. r = read_buffer \o q
      BY <2>5
    <3>2. q \in Seq(Byte) /\ Len(q) = n /\ Stretch(q, taken, wire)
      BY <1>1, <1>2, <2>1, Piece, Zenon
    <3> HIDE DEF q
    <3>3. Stretch(read_buffer \o q, g, wire)
      <4>1. Stretch(q, g + Len(read_buffer), wire)
        BY <2>1, <3>2
      <4> QED BY <1>1, <2>1, <2>4, <3>2, <4>1, StretchExtends, Zenon
    <3>4. r \in Seq(Byte) /\ Len(r) = Len(read_buffer) + n
      BY <1>1, <3>1, <3>2, ConcatProperties
    <3> QED BY <3>1, <3>3, <3>4
  <2>7. g + Len(r) = Len(wire)
    BY <1>2, <2>1, <2>6
  <2>8. p - g \in 0..Len(r) /\ SubSeq(r, (p - g) + 1, Len(r)) = SubSeq(wire, p + 1, Len(wire))
    BY <1>1, <2>1, <2>3, <2>4, <2>6, <2>7, Rest, ZenonT(60)
  <2>9. \E gone \in 0..Len(r) : SubSeq(r, gone + 1, Len(r)) = SubSeq(wire, p + 1, Len(wire))
    BY <2>8
  <2> QED BY <2>9 DEF r, p
<1> QED BY <1>3, <1>4 DEF NothingLost

(* However the reads cut the stream, and whatever the noise between frames,  *)
(* the messages are those of the frames, in order, and no byte of the next   *)
(* frames is dropped (app_bt.c:131-181).                                     *)
THEOREM FramesSurvive == Spec => []NothingLost
BY KeepsAll, Invariance, PTL

LEMMA LeavesNothing ==
  ASSUME IInv
  PROVE  KeepsUp
<1> SUFFICES ASSUME pace <= 8, Len(stored) < Len(sent)
             PROVE  /\ taken < starts[NextFrame] + Len(OnWire(sent[NextFrame]))
                    /\ Len(read_buffer) < Len(sent[NextFrame].noise \o OnWire(sent[NextFrame]))
  BY DEF KeepsUp
<1> DEFINE k == NextFrame
           a == sent[k].noise
           c == OnWire(sent[k])
<1>1. /\ TypeOK /\ WireInv /\ BufferInv /\ NotBehind
      /\ read_buffer \in Seq(Byte) /\ taken \in 0..Len(wire) /\ Len(read_buffer) <= taken
      /\ stored \in Seq(Seq(Byte))
  BY DEF IInv, TypeOK
<1>2. Len(wire) \in Nat /\ Len(read_buffer) \in Nat /\ Len(stored) \in Nat /\ Len(sent) \in Nat
  BY <1>1, Ends, LenProperties
<1>3. k \in 1..Len(sent) /\ k - 1 = Len(stored)
  BY <1>2 DEF NextFrame
<1>4. /\ sent[k] \in Frames /\ starts[k] \in Nat
      /\ EndOf(k, sent, starts) = starts[k] + Len(c) /\ EndOf(k - 1, sent, starts) \in Nat
  BY <1>1, <1>3, Ends
<1>5. starts[k] = EndOf(k - 1, sent, starts) + Len(a)
  BY <1>1, <1>3 DEF WireInv, FrameOn
<1>6. a \in Seq(Byte) /\ c \in Seq(Byte)
  BY <1>4, FrameFields, WireOfFrame
<1>7. taken < EndOf(k, sent, starts) /\ EndOf(k - 1, sent, starts) <= Gone
  BY <1>1, <1>3 DEF NotBehind, BufferInv
<1> HIDE DEF k, a, c
<1>8. Len(a \o c) = Len(a) + Len(c) /\ Len(a) \in Nat /\ Len(c) \in Nat
  BY <1>6, ConcatProperties, LenProperties
<1>9. Len(read_buffer) < Len(a \o c)
  <2>1. Gone = taken - Len(read_buffer) /\ taken \in Nat
    BY <1>1, <1>2 DEF Gone
  <2> QED BY <1>2, <1>4, <1>5, <1>7, <1>8, <2>1
<1>10. taken < starts[k] + Len(c)
  BY <1>4, <1>7
<1> QED BY <1>9, <1>10 DEF a, c, k

(* Reads of at most eight bytes, the shortest frame, leave no complete frame *)
(* in read_buffer, however long the traffic lasts: every frame that was read *)
(* to its last byte has been returned, and what is kept is shorter than the  *)
(* next frame and its noise (app_bt.c:133-174).                              *)
THEOREM ShortReadsKeepUp == Spec => []KeepsUp
BY LeavesNothing, Invariance, PTL

(* Reads like those leave nothing behind when the line falls silent: once    *)
(* every byte was read every frame was returned, so a frame that is not      *)
(* stored has bytes that are still to come (app_bt.c:131-181); AllStored     *)
(* says in addition that they are read.                                      *)
THEOREM SilenceMeansStored ==
  Spec => [](pace <= 8 /\ taken = Len(wire) => Len(stored) = Len(sent))
<1>1. IInv => (pace <= 8 /\ taken = Len(wire) => Len(stored) = Len(sent))
  <2> SUFFICES ASSUME IInv, pace <= 8, taken = Len(wire), Len(stored) # Len(sent) PROVE FALSE
    OBVIOUS
  <2>1. TypeOK /\ WireInv /\ NotBehind
    BY DEF IInv
  <2>2. Len(stored) \in Nat /\ Len(sent) \in Nat /\ Len(stored) < Len(sent)
    BY <2>1, LenProperties DEF TypeOK
  <2>3. taken < EndOf(NextFrame, sent, starts)
    BY <2>1, <2>2 DEF NotBehind
  <2>4. NextFrame \in 1..Len(sent)
    BY <2>2 DEF NextFrame
  <2>5. EndOf(NextFrame, sent, starts) \in Nat /\ EndOf(NextFrame, sent, starts) <= Len(wire)
    BY <2>1, <2>4, Ends
  <2>6. Len(wire) \in Nat
    BY <2>1, LenProperties DEF TypeOK
  <2> QED BY <2>3, <2>5, <2>6
<1> QED BY <1>1, Invariance, PTL

------------------------------------------------------------------------------
(* The way of a message to the broker and back, for an array of any size     *)

CONSTANT DataSize

Bytes == INSTANCE MessageBytes

(* The digits of a byte are digits, and they give the byte back.             *)
LEMMA DigitsOfByte ==
  ASSUME NEW b \in Byte
  PROVE  /\ Bytes!HexDigit(Bytes!HexChar(b \div 16)) = b \div 16
         /\ Bytes!HexDigit(Bytes!HexChar(b % 16)) = b % 16
         /\ b \div 16 \in 0..15 /\ b % 16 \in 0..15
         /\ 16 * (b \div 16) + (b % 16) = b
<1>1. b \div 16 \in 0..15 /\ b % 16 \in 0..15 /\ 16 * (b \div 16) + (b % 16) = b
  BY DEF Byte
<1>2. ASSUME NEW n \in 0..15 PROVE Bytes!HexDigit(Bytes!HexChar(n)) = n
  BY DEF Bytes!HexDigit, Bytes!HexChar, Bytes!Digits
<1> QED BY <1>1, <1>2

(* What is left of bytes on their way through the digits.                    *)
Heard(chars, signed) ==
  [i \in 1..Len(chars) |-> IF signed /\ chars[i] > 127 THEN 255 ELSE chars[i]]

(* Every byte comes back from the two digits that were written for it, with  *)
(* a signed char 255 for those from 128 on (app_common.c:18-59).             *)
THEOREM HexRoundTrip ==
  ASSUME NEW chars \in Seq(Byte), NEW signed \in BOOLEAN
  PROVE  Bytes!app_common_hex2chars(Bytes!app_common_chars2hex(chars, signed)) =
           Heard(chars, signed)
<1> DEFINE hex == Bytes!app_common_chars2hex(chars, signed)
           Same(i) == IF signed /\ chars[i] > 127 THEN 255 ELSE chars[i]
           High(i) == Bytes!HexDigit(hex[2 * i - 1])
           Low(i) == Bytes!HexDigit(hex[2 * i])
           Paired(i) == IF High(i) >= 0 /\ Low(i) >= 0 THEN 16 * High(i) + Low(i)
                        ELSE Bytes!Unknown
<1>0. Len(chars) \in Nat
  OBVIOUS
<1>1. Len(hex) = 2 * Len(chars)
  BY <1>0 DEF Bytes!app_common_chars2hex
<1>2. Len(hex) \div 2 = Len(chars)
  BY <1>0, <1>1
<1>3. ASSUME NEW i \in 1..Len(chars) PROVE Paired(i) = Same(i)
  <2>0. chars[i] \in Byte /\ i \in Nat
    BY <1>0
  <2>1. /\ 2 * i - 1 \in 1..(2 * Len(chars)) /\ 2 * i \in 1..(2 * Len(chars))
        /\ ((2 * i - 1) + 1) \div 2 = i /\ (2 * i + 1) \div 2 = i
        /\ (2 * i - 1) % 2 = 1 /\ (2 * i) % 2 = 0
    BY <1>0, <2>0
  <2>2. CASE signed /\ chars[i] > 127
    <3>1. hex[2 * i - 1] = Bytes!HexChar(15) /\ hex[2 * i] = Bytes!HexChar(15)
      BY <2>1, <2>2 DEF Bytes!app_common_chars2hex
    <3>2. Bytes!HexDigit(Bytes!HexChar(15)) = 15
      BY DEF Bytes!HexDigit, Bytes!HexChar, Bytes!Digits
    <3>3. High(i) = 15 /\ Low(i) = 15
      BY <3>1, <3>2
    <3>4. Paired(i) = 255
      <4> HIDE DEF High, Low
      <4> QED BY <3>3
    <3>5. Same(i) = 255
      BY <2>2
    <3> QED BY <3>4, <3>5
  <2>3. CASE ~(signed /\ chars[i] > 127)
    <3>1. hex[2 * i - 1] = Bytes!HexChar(chars[i] \div 16)
      BY <2>1, <2>3 DEF Bytes!app_common_chars2hex
    <3>2. hex[2 * i] = Bytes!HexChar(chars[i] % 16)
      BY <2>1, <2>3 DEF Bytes!app_common_chars2hex
    <3>3. High(i) = chars[i] \div 16 /\ Low(i) = chars[i] % 16
      BY <2>0, <3>1, <3>2, DigitsOfByte
    <3>4. /\ chars[i] \div 16 \in 0..15 /\ chars[i] % 16 \in 0..15
          /\ 16 * (chars[i] \div 16) + (chars[i] % 16) = chars[i]
      BY <2>0, DigitsOfByte
    <3> QED BY <2>3, <3>3, <3>4
  <2> QED BY <2>2, <2>3
<1>4. Bytes!app_common_hex2chars(hex) = [i \in 1..Len(chars) |-> Paired(i)]
  BY <1>2 DEF Bytes!app_common_hex2chars
<1> QED BY <1>3, <1>4 DEF Heard

(* The digits cJSON and sprintf write: no capitals.                          *)
SmallDigits == 48..57 \cup 97..102

(* The other way round, digits come back from the bytes that were read from  *)
(* them, if there is an even number and no capital among them: what the      *)
(* broker sends and what it would be told is the same text                   *)
(* (app_common.c:18-59).                                                     *)
THEOREM DigitsRoundTrip ==
  ASSUME NEW hex \in Seq(SmallDigits), Len(hex) % 2 = 0
  PROVE  /\ Bytes!app_common_hex2chars(hex) \in Seq(Byte)
         /\ Bytes!app_common_chars2hex(Bytes!app_common_hex2chars(hex), FALSE) = hex
<1> DEFINE n == Len(hex) \div 2
           chars == Bytes!app_common_hex2chars(hex)
<1>0. Len(hex) \in Nat /\ n \in Nat /\ Len(hex) = 2 * n
  OBVIOUS
<1>1. ASSUME NEW b \in SmallDigits
      PROVE  Bytes!HexDigit(b) \in 0..15 /\ Bytes!HexChar(Bytes!HexDigit(b)) = b
  BY DEF SmallDigits, Bytes!HexDigit, Bytes!HexChar, Bytes!Digits
<1>2. ASSUME NEW i \in 1..n
      PROVE  /\ hex[2 * i - 1] \in SmallDigits /\ hex[2 * i] \in SmallDigits
             /\ chars[i] = 16 * Bytes!HexDigit(hex[2 * i - 1]) + Bytes!HexDigit(hex[2 * i])
  <2>1. 2 * i - 1 \in 1..Len(hex) /\ 2 * i \in 1..Len(hex)
    BY <1>0
  <2>2. hex[2 * i - 1] \in SmallDigits /\ hex[2 * i] \in SmallDigits
    BY <2>1
  <2>3. Bytes!HexDigit(hex[2 * i - 1]) >= 0 /\ Bytes!HexDigit(hex[2 * i]) >= 0
    BY <1>1, <2>2
  <2> QED BY <2>2, <2>3 DEF Bytes!app_common_hex2chars
<1>3. chars \in Seq(Byte) /\ Len(chars) = n
  <2>1. ASSUME NEW i \in 1..n PROVE chars[i] \in Byte
    <3>1. Bytes!HexDigit(hex[2 * i - 1]) \in 0..15 /\ Bytes!HexDigit(hex[2 * i]) \in 0..15
      BY <1>1, <1>2
    <3>2. chars[i] = 16 * Bytes!HexDigit(hex[2 * i - 1]) + Bytes!HexDigit(hex[2 * i])
      BY <1>2
    <3>3. ASSUME NEW high \in 0..15, NEW low \in 0..15 PROVE 16 * high + low \in Byte
      BY DEF Byte
    <3> QED BY <3>1, <3>2, <3>3
  <2>2. DOMAIN chars = 1..n
    BY DEF Bytes!app_common_hex2chars
  <2>3. chars = [i \in 1..n |-> chars[i]]
    BY DEF Bytes!app_common_hex2chars
  <2> QED BY <1>0, <2>1, <2>2, <2>3
<1>4. ASSUME NEW k \in 1..Len(hex)
      PROVE  Bytes!app_common_chars2hex(chars, FALSE)[k] = hex[k]
  <2> DEFINE i == (k + 1) \div 2
  <2>1. i \in 1..n /\ k \in 1..(2 * n)
    BY <1>0
  <2>2. Bytes!app_common_chars2hex(chars, FALSE)[k] =
          Bytes!HexChar(IF k % 2 = 1 THEN chars[i] \div 16 ELSE chars[i] % 16)
    BY <1>3, <2>1 DEF Bytes!app_common_chars2hex
  <2> DEFINE high == Bytes!HexDigit(hex[2 * i - 1])
             low == Bytes!HexDigit(hex[2 * i])
  <2>3. high \in 0..15 /\ low \in 0..15 /\ chars[i] = 16 * high + low
    BY <1>1, <1>2, <2>1
  <2>4. chars[i] \div 16 = high /\ chars[i] % 16 = low
    <3> HIDE DEF high, low, chars, i
    <3> QED BY <2>3
  <2>5. CASE k % 2 = 1
    <3>1. k = 2 * i - 1
      BY <2>5, <1>0
    <3> QED BY <1>1, <1>2, <2>1, <2>2, <2>4, <2>5, <3>1
  <2>6. CASE k % 2 # 1
    <3>1. k = 2 * i
      BY <2>6, <1>0
    <3> QED BY <1>1, <1>2, <2>1, <2>2, <2>4, <2>6, <3>1
  <2> QED BY <2>5, <2>6
<1>5. Bytes!app_common_chars2hex(chars, FALSE) =
        [k \in 1..Len(hex) |-> Bytes!app_common_chars2hex(chars, FALSE)[k]]
  BY <1>0, <1>3 DEF Bytes!app_common_chars2hex
<1>6. hex = [k \in 1..Len(hex) |-> hex[k]]
  OBVIOUS
<1> QED BY <1>3, <1>4, <1>5, <1>6

LEMMA BytesAreInts ==
  \A b \in Seq(Byte) : b \in Seq(Int) /\ Len(b) \in Nat
<1> TAKE b \in Seq(Byte)
<1>1. Len(b) \in Nat
  BY LenProperties
<1>2. ASSUME NEW i \in 1..Len(b) PROVE b[i] \in Int
  <2>1. b[i] \in Byte
    BY ElementOfSeq
  <2>2. Byte \subseteq Int
    BY DEF Byte
  <2> QED BY <2>1, <2>2
<1> QED BY <1>1, <1>2

LEMMA Joined ==
  ASSUME NEW a \in Seq(Int), NEW b \in Seq(Int)
  PROVE  /\ a \o b \in Seq(Int) /\ Len(a \o b) = Len(a) + Len(b)
         /\ \A i \in 1..Len(a) : (a \o b)[i] = a[i]
         /\ \A i \in 1..Len(b) : (a \o b)[Len(a) + i] = b[i]
<1>1. Len(a) \in Nat /\ Len(b) \in Nat
  BY LenProperties
<1>2. /\ a \o b \in Seq(Int) /\ Len(a \o b) = Len(a) + Len(b)
      /\ \A i \in 1..(Len(a) + Len(b)) :
           (a \o b)[i] = IF i <= Len(a) THEN a[i] ELSE b[i - Len(a)]
  BY ConcatProperties
<1>3. ASSUME NEW i \in 1..Len(b)
      PROVE  /\ Len(a) + i \in 1..(Len(a) + Len(b)) /\ ~(Len(a) + i <= Len(a))
             /\ (Len(a) + i) - Len(a) = i
  BY <1>1
<1>4. ASSUME NEW i \in 1..Len(a) PROVE i \in 1..(Len(a) + Len(b)) /\ i <= Len(a)
  BY <1>1
<1> HIDE <1>1
<1> QED BY <1>2, <1>3, <1>4

LEMMA Part ==
  ASSUME NEW s \in Seq(Int), NEW m \in Nat, NEW n \in Nat, m + n <= Len(s)
  PROVE  /\ SubSeq(s, m + 1, m + n) \in Seq(Int) /\ Len(SubSeq(s, m + 1, m + n)) = n
         /\ \A i \in 1..n : SubSeq(s, m + 1, m + n)[i] = s[m + i]
<1>1. Len(s) \in Nat
  BY LenProperties
<1> DEFINE p == m + 1
           q == m + n
<1>2. /\ p \in Int /\ q \in Int /\ (IF p <= q THEN q - p + 1 ELSE 0) = n /\ q - p + 1 = n
      /\ \A i \in p..q : i \in 1..Len(s)
      /\ \A i \in 1..n : p + i - 1 = m + i
  BY <1>1
<1> HIDE DEF p, q
<1>3. ASSUME NEW i \in p..q PROVE s[i] \in Int
  BY <1>2, ElementOfSeq
<1>4. /\ SubSeq(s, p, q) \in Seq(Int)
      /\ Len(SubSeq(s, p, q)) = IF p <= q THEN q - p + 1 ELSE 0
      /\ \A i \in 1..(q - p + 1) : SubSeq(s, p, q)[i] = s[p + i - 1]
  BY <1>2, <1>3, SubSeqProperties
<1>5. \A i \in 1..n : SubSeq(s, p, q)[i] = s[m + i]
  BY <1>2, <1>4
<1> QED BY <1>2, <1>4, <1>5 DEF p, q

(* Where the fields of a message stand.                                      *)
InPlace(chars, conn_type, id, msg) ==
  /\ chars \in Seq(Int) /\ Len(chars) = 3 + Len(id) + Len(msg)
  /\ chars[1] = conn_type /\ chars[2] = Len(id) /\ chars[3] = Len(msg)
  /\ \A i \in 1..Len(id) : chars[3 + i] = id[i]
  /\ \A i \in 1..Len(msg) : chars[3 + Len(id) + i] = msg[i]

LEMMA FieldsInPlace ==
  ASSUME NEW conn_type \in Byte, NEW id \in Seq(Byte), NEW msg \in Seq(Byte)
  PROVE  InPlace(Bytes!Message(conn_type, id, msg), conn_type, id, msg)
<1> DEFINE head == <<conn_type, Len(id), Len(msg)>>
           three == head \o id
           chars == three \o msg
<1>1. id \in Seq(Int) /\ msg \in Seq(Int) /\ Len(id) \in Nat /\ Len(msg) \in Nat /\ conn_type \in Int
  BY BytesAreInts DEF Byte
<1>2. /\ head \in Seq(Int) /\ Len(head) = 3
      /\ head[1] = conn_type /\ head[2] = Len(id) /\ head[3] = Len(msg)
  BY <1>1
<1>3. Bytes!Message(conn_type, id, msg) = chars
  BY DEF Bytes!Message
<1> HIDE DEF head
<1>4. /\ three \in Seq(Int) /\ Len(three) = Len(head) + Len(id)
      /\ \A i \in 1..Len(head) : three[i] = head[i]
      /\ \A i \in 1..Len(id) : three[Len(head) + i] = id[i]
  BY <1>1, <1>2, Joined
<1> HIDE DEF three
<1>5. /\ chars \in Seq(Int) /\ Len(chars) = Len(three) + Len(msg)
      /\ \A i \in 1..Len(three) : chars[i] = three[i]
      /\ \A i \in 1..Len(msg) : chars[Len(three) + i] = msg[i]
  BY <1>1, <1>4, Joined
<1> HIDE DEF chars
<1>6. Len(three) = 3 + Len(id)
  BY <1>2, <1>4
<1>7. chars[1] = conn_type /\ chars[2] = Len(id) /\ chars[3] = Len(msg)
  <2>1. 1 \in 1..Len(three) /\ 2 \in 1..Len(three) /\ 3 \in 1..Len(three)
    BY <1>1, <1>6
  <2>2. 1 \in 1..Len(head) /\ 2 \in 1..Len(head) /\ 3 \in 1..Len(head)
    BY <1>2
  <2> QED BY <1>2, <1>4, <1>5, <2>1, <2>2
<1>8. ASSUME NEW i \in 1..Len(id) PROVE chars[3 + i] = id[i]
  <2>1. 3 + i \in 1..Len(three)
    BY <1>1, <1>6
  <2> QED BY <1>2, <1>4, <1>5, <2>1
<1> QED BY <1>3, <1>5, <1>6, <1>7, <1>8 DEF InPlace

(* What chars begin with is complete and is taken apart into these fields.   *)
TakenApart(chars, conn_type, id, msg) ==
  /\ Bytes!Complete(chars)
  /\ chars[1] = conn_type /\ Bytes!IdOf(chars) = id /\ Bytes!MsgOf(chars) = msg

(* A message at the start of any bytes is complete, and the fields that are  *)
(* taken out of it are those it was made of (app_message.c:7-33, 69-74).     *)
THEOREM FieldsOfMessage ==
  ASSUME NEW conn_type \in Byte, NEW id \in Seq(Byte), NEW msg \in Seq(Byte),
         NEW rest \in Seq(Byte)
  PROVE  TakenApart(Bytes!Message(conn_type, id, msg) \o rest, conn_type, id, msg)
<1> DEFINE message == Bytes!Message(conn_type, id, msg)
           chars == message \o rest
           m == 3 + Len(id)
<1>1. /\ id \in Seq(Int) /\ msg \in Seq(Int) /\ rest \in Seq(Int)
      /\ Len(id) \in Nat /\ Len(msg) \in Nat /\ Len(rest) \in Nat
  BY BytesAreInts
<1>2. /\ message \in Seq(Int) /\ Len(message) = m + Len(msg)
      /\ message[1] = conn_type /\ message[2] = Len(id) /\ message[3] = Len(msg)
      /\ \A i \in 1..Len(id) : message[3 + i] = id[i]
      /\ \A i \in 1..Len(msg) : message[m + i] = msg[i]
  <2>1. InPlace(message, conn_type, id, msg)
    BY FieldsInPlace
  <2> HIDE DEF message
  <2> QED BY <2>1 DEF InPlace
<1> HIDE DEF message
<1>3. /\ chars \in Seq(Int) /\ Len(chars) = Len(message) + Len(rest)
      /\ \A i \in 1..Len(message) : chars[i] = message[i]
  BY <1>1, <1>2, Joined
<1> HIDE DEF chars
<1>4. chars[1] = conn_type /\ chars[2] = Len(id) /\ chars[3] = Len(msg)
  <2>1. 1 \in 1..Len(message) /\ 2 \in 1..Len(message) /\ 3 \in 1..Len(message)
    BY <1>1, <1>2
  <2> QED BY <1>2, <1>3, <2>1
<1>5. ASSUME NEW i \in 1..Len(id) PROVE chars[3 + i] = id[i]
  <2>1. 3 + i \in 1..Len(message)
    BY <1>1, <1>2
  <2> QED BY <1>2, <1>3, <2>1
<1>6. ASSUME NEW i \in 1..Len(msg) PROVE chars[m + i] = msg[i]
  <2>1. m + i \in 1..Len(message)
    BY <1>1, <1>2
  <2> QED BY <1>2, <1>3, <2>1
<1>7. Bytes!Complete(chars)
  BY <1>1, <1>2, <1>3, <1>4 DEF Bytes!Complete
<1>8. Bytes!IdOf(chars) = id
  <2>1. 3 + Len(id) <= Len(chars)
    BY <1>1, <1>2, <1>3
  <2>2. /\ SubSeq(chars, 3 + 1, 3 + Len(id)) \in Seq(Int)
        /\ Len(SubSeq(chars, 3 + 1, 3 + Len(id))) = Len(id)
        /\ \A i \in 1..Len(id) : SubSeq(chars, 3 + 1, 3 + Len(id))[i] = chars[3 + i]
    BY <1>1, <1>3, <2>1, 3 \in Nat, Part
  <2>3. SubSeq(chars, 3 + 1, 3 + Len(id)) = id
    BY <1>1, <1>5, <2>2, SeqEqual
  <2> QED BY <1>4, <2>3, 3 + 1 = 4 DEF Bytes!IdOf
<1>9. Bytes!MsgOf(chars) = msg
  <2>1. m + Len(msg) <= Len(chars) /\ m \in Nat
    BY <1>1, <1>2, <1>3
  <2>2. m + 1 = 4 + Len(id) /\ m + Len(msg) = 3 + Len(id) + Len(msg)
    BY <1>1
  <2> HIDE DEF m
  <2>3. /\ SubSeq(chars, m + 1, m + Len(msg)) \in Seq(Int)
        /\ Len(SubSeq(chars, m + 1, m + Len(msg))) = Len(msg)
        /\ \A i \in 1..Len(msg) : SubSeq(chars, m + 1, m + Len(msg))[i] = chars[m + i]
    BY <1>1, <1>3, <2>1, Part
  <2>4. SubSeq(chars, m + 1, m + Len(msg)) = msg
    BY <1>1, <1>6, <2>3, SeqEqual
  <2> QED BY <1>4, <2>2, <2>4 DEF Bytes!MsgOf
<1> QED BY <1>4, <1>7, <1>8, <1>9 DEF TakenApart, chars, message

(* A command with an id of two bytes and at least one byte of message        *)
(* becomes the frame of that id and that message, whole and nothing else,    *)
(* twelve bytes longer than the message (app_bt.c:77-105).                   *)
THEOREM FrameOfCommand ==
  ASSUME NEW conn_type \in Byte, NEW id \in Seq(Byte), NEW msg \in Seq(Byte),
         Len(id) = 2, Len(msg) >= 1
  PROVE  LET frame == Bytes!app_bt_preWrite(Bytes!Message(conn_type, id, msg))
         IN /\ frame = Bytes!ATMesh \o id \o msg \o <<13, 10>>
            /\ Len(frame) = 12 + Len(msg)
<1> DEFINE chars == Bytes!Message(conn_type, id, msg)
           carried == [i \in 1..chars[3] |-> Bytes!DataByte(chars, 5 + i)]
<1>0. id \in Seq(Int) /\ msg \in Seq(Int) /\ Len(msg) \in Nat
  BY BytesAreInts
<1>1. /\ Len(chars) = 5 + Len(msg)
      /\ chars[3] = Len(msg) /\ chars[4] = id[1] /\ chars[5] = id[2]
      /\ \A i \in 1..Len(msg) : chars[5 + i] = msg[i]
  <2>1. /\ Len(chars) = 3 + Len(id) + Len(msg) /\ chars[3] = Len(msg)
        /\ \A i \in 1..Len(id) : chars[3 + i] = id[i]
        /\ \A i \in 1..Len(msg) : chars[3 + Len(id) + i] = msg[i]
    <3>1. InPlace(chars, conn_type, id, msg)
      BY FieldsInPlace
    <3> HIDE DEF chars
    <3> QED BY <3>1 DEF InPlace
  <2> HIDE DEF chars
  <2>2. 1 \in 1..Len(id) /\ 2 \in 1..Len(id) /\ 3 + 1 = 4 /\ 3 + 2 = 5 /\ 3 + Len(id) = 5
    OBVIOUS
  <2>3. chars[3 + 1] = id[1] /\ chars[3 + 2] = id[2]
    BY <2>1, <2>2
  <2> QED BY <2>1, <2>2, <2>3
<1> HIDE DEF chars
<1>2. <<chars[4], chars[5]>> = id
  <2>1. id = <<id[1], id[2]>>
    BY <1>0
  <2> QED BY <1>1, <2>1
<1>3. carried = msg
  <2>1. ASSUME NEW i \in 1..Len(msg) PROVE Bytes!DataByte(chars, 5 + i) = msg[i]
    <3>1. 5 + i <= Len(chars)
      BY <1>0, <1>1
    <3> QED BY <1>1, <3>1 DEF Bytes!DataByte
  <2>2. carried = [i \in 1..Len(msg) |-> msg[i]]
    BY <1>1, <2>1
  <2>3. msg = [i \in 1..Len(msg) |-> msg[i]]
    OBVIOUS
  <2> QED BY <2>2, <2>3
<1>4. Bytes!app_bt_preWrite(chars) = Bytes!ATMesh \o id \o msg \o <<13, 10>>
  <2>1. ~(Len(chars) < 6)
    BY <1>0, <1>1
  <2> QED BY <1>2, <1>3, <2>1 DEF Bytes!app_bt_preWrite
<1>5. Len(Bytes!ATMesh \o id \o msg \o <<13, 10>>) = 12 + Len(msg)
  <2> DEFINE a == Bytes!ATMesh
             b == a \o id
             c == b \o msg
  <2>1. a \in Seq(Int) /\ Len(a) = 8 /\ <<13, 10>> \in Seq(Int) /\ Len(<<13, 10>>) = 2
    BY DEF Bytes!ATMesh
  <2> HIDE DEF a
  <2>2. b \in Seq(Int) /\ Len(b) = Len(a) + Len(id)
    BY <1>0, <2>1, Joined, ZenonT(60)
  <2> HIDE DEF b
  <2>3. c \in Seq(Int) /\ Len(c) = Len(b) + Len(msg)
    BY <1>0, <2>2, Joined, ZenonT(60)
  <2> HIDE DEF c
  <2>4. Len(c \o <<13, 10>>) = Len(c) + 2
    BY <2>1, <2>3, Joined
  <2>5. Len(c \o <<13, 10>>) = 12 + Len(msg)
    BY <1>0, <2>1, <2>2, <2>3, <2>4
  <2> QED BY <2>5 DEF a, b, c
<1> QED BY <1>4, <1>5 DEF chars

LEMMA NoDifference ==
  ASSUME NEW f \in Frames
  PROVE  /\ Message(f) = Bytes!Message(1, f.id, f.message)
         /\ Message(f) = Bytes!Message(1, f.id, f.message) \o <<>>
<1>1. Message(f) = Bytes!Message(1, f.id, f.message)
  BY FrameFields DEF Message, Bytes!Message
<1>2. Message(f) \in Seq(Byte)
  BY MessageType
<1>3. Message(f) \o <<>> = Message(f)
  BY <1>2, ConcatEmptySeq
<1> QED BY <1>1, <1>3

LEMMA Carried ==
  ASSUME NEW id \in Seq(Byte), NEW msg \in Seq(Byte), Len(id) = 2, Len(msg) \in 1..12
  PROVE  /\ Bytes!Complete(Bytes!Message(1, id, msg) \o <<>>)
         /\ Bytes!IdOf(Bytes!Message(1, id, msg) \o <<>>) = id
         /\ Bytes!MsgOf(Bytes!Message(1, id, msg) \o <<>>) = msg
         /\ Bytes!app_bt_preWrite(Bytes!Message(1, id, msg)) =
              Bytes!ATMesh \o id \o msg \o <<13, 10>>
<1>1. 1 \in Byte /\ <<>> \in Seq(Byte)
  BY ByteNumbers
<1>2. \A n \in 1..12 : n >= 1
  OBVIOUS
<1>3. Len(msg) >= 1
  BY <1>2, Zenon
<1>4. TakenApart(Bytes!Message(1, id, msg) \o <<>>, 1, id, msg)
  BY <1>1, FieldsOfMessage
<1>5. Bytes!app_bt_preWrite(Bytes!Message(1, id, msg)) = Bytes!ATMesh \o id \o msg \o <<13, 10>>
  BY <1>1, <1>3, FrameOfCommand, ZenonT(60)
<1> QED BY <1>4, <1>5 DEF TakenApart

(* What the digits of message i tell the broker, and the frame that the same *)
(* id and message become if they are sent back.                              *)
Delivered(i) ==
  /\ Bytes!Complete(stored[i])
  /\ \A signed \in BOOLEAN :
       /\ Bytes!app_common_hex2chars(Bytes!app_common_chars2hex(Bytes!IdOf(stored[i]), signed))
            = Heard(sent[i].id, signed)
       /\ Bytes!app_common_hex2chars(Bytes!app_common_chars2hex(Bytes!MsgOf(stored[i]), signed))
            = Heard(sent[i].message, signed)
  /\ Bytes!app_bt_preWrite(stored[i]) =
       Bytes!ATMesh \o sent[i].id \o sent[i].message \o <<13, 10>>

(* Message i of those that post_read returned is a complete message with the *)
(* id and the message of the i-th frame that the bluetooth module sent, in   *)
(* the digits the broker reads; sent back it is the frame to the one it came *)
(* from.  No cut of the line, no noise and no earlier message changes that   *)
(* (app_bt.c:77-181, app_message.c:7-33, app_common.c:18-59).                *)
THEOREM FramesReachTheBroker == Spec => [](\A i \in 1..Len(stored) : Delivered(i))
<1>1. ASSUME IInv, NEW i \in 1..Len(stored) PROVE Delivered(i)
  <2> DEFINE f == sent[i]
  <2>1. f \in Frames /\ stored[i] = Message(f)
    <3>1. i \in 1..Len(sent)
      BY <1>1 DEF IInv, TypeOK
    <3> QED BY <1>1, <3>1, ElementOfSeq DEF IInv, TypeOK, StoredInv
  <2> HIDE DEF f
  <2>2. f.id \in Seq(Byte) /\ f.message \in Seq(Byte) /\ Len(f.id) = 2 /\ Len(f.message) \in 1..12
    BY <2>1, FrameFields
  <2>3. /\ Bytes!Complete(Message(f)) /\ Bytes!IdOf(Message(f)) = f.id
        /\ Bytes!MsgOf(Message(f)) = f.message
        /\ Bytes!app_bt_preWrite(Message(f)) = Bytes!ATMesh \o f.id \o f.message \o <<13, 10>>
    <3> DEFINE message == Bytes!Message(1, f.id, f.message)
    <3>1. /\ Bytes!Complete(message \o <<>>) /\ Bytes!IdOf(message \o <<>>) = f.id
          /\ Bytes!MsgOf(message \o <<>>) = f.message
          /\ Bytes!app_bt_preWrite(message) = Bytes!ATMesh \o f.id \o f.message \o <<13, 10>>
      BY <2>2, Carried
    <3>2. Message(f) = message /\ Message(f) = message \o <<>>
      BY <2>1, NoDifference
    <3> HIDE DEF message
    <3> QED BY <3>1, <3>2
  <2>4. ASSUME NEW signed \in BOOLEAN
        PROVE  /\ Bytes!app_common_hex2chars(Bytes!app_common_chars2hex(f.id, signed)) = Heard(f.id, signed)
               /\ Bytes!app_common_hex2chars(Bytes!app_common_chars2hex(f.message, signed))
                    = Heard(f.message, signed)
    BY <2>2, HexRoundTrip
  <2> QED BY <2>1, <2>3, <2>4 DEF Delivered, f
<1>2. IInv => \A i \in 1..Len(stored) : Delivered(i)
  BY <1>1
<1> QED BY <1>2, Invariance, PTL
==============================================================================
