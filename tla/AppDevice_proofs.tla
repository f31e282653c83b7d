--------------------------- MODULE AppDevice_proofs ---------------------------
(***************************************************************************)
(* Theorems about AppDevice, for any number of workers, any length of the  *)
(* task queue, any frames and commands and any sizes of the buffers.  Most *)
(* of the lemmas are about counting: in a sequence that grows at its end   *)
(* and shrinks at its front, and among workers of whom one takes a step.   *)
(***************************************************************************)
EXTENDS AppDevice, SequenceTheorems, FiniteSetTheorems, TLAPS

Steps == {"receive", "send", "publish", "write", "serial"}
Jobs == [at : Steps, msg : Nat]

Subs(n) == [msgs : Seq(1..n), used_size : Int]
BuffersOf(n) == [read : Subs(n), write : Subs(n)]

TypeOK ==
  /\ up_buffer \in BuffersOf(MaxUp)
  /\ down_buffer \in BuffersOf(MaxDown)
  /\ mq_fd \in {"open", "failed"} /\ mq \in Seq({"send", "write"})
  /\ read_thread \in {"read", "put", "task"}
  /\ callback \in {"idle", "put", "task"}
  /\ arrived \in [up : 0..MaxUp, down : 0..MaxDown]
  /\ worker \in [Workers -> Jobs]
  /\ connected \in BOOLEAN
  /\ published \in Seq(Nat)
  /\ written \in Seq(Nat)
  /\ lost \in [up : SUBSET Nat, down : SUBSET Nat]

(* What is in a buffer is in its order of arrival, younger than everything   *)
(* that left it and older than the message that is about to be stored.       *)
InOrder(held, left, n, putting) ==
  /\ \A i, j \in 1..Len(held) : i < j => held[i] < held[j]
  /\ \A i \in 1..Len(held) : held[i] <= n /\ (putting => held[i] < n)
  /\ \A m \in left : m <= n /\ (putting => m < n)
  /\ \A i \in 1..Len(held), m \in left : m < held[i]

UpInOrder ==
  /\ InOrder(DB!Held(up_buffer), Elements(published) \cup InHands("publish"),
             arrived.up, read_thread = "put")
  /\ read_thread = "put" => arrived.up > 0
DownInOrder ==
  /\ InOrder(DB!Held(down_buffer), Elements(written) \cup InHands("serial"),
             arrived.down, callback = "put")
  /\ callback = "put" => arrived.down > 0

(* What has not arrived is nowhere. *)
UpOnce == \A m \in Nat \ {0} : UpPlaces(m) = Count(m <= arrived.up)
DownOnce == \A m \in Nat \ {0} : DownPlaces(m) = Count(m <= arrived.down)

(* With a queue, every message a buffer holds has its task, or the buffer    *)
(* wedged.                                                                   *)
Served(b, tasks) ==
  mq_fd = "open" => DB!Wedged(DB!Turned(b)) \/ Len(DB!Held(b)) <= tasks

UpServed == Served(up_buffer, Pending("send", read_thread = "task"))
DownServed == Served(down_buffer, Pending("write", callback = "task"))

(* The inductive invariant. *)
IInv ==
  /\ TypeOK
  /\ UpInOrder /\ UpOnce /\ UpServed
  /\ DownInOrder /\ DownOnce /\ DownServed

------------------------------------------------------------------------------
(* Counting in a sequence *)

LEMMA Counts == \A b : Count(b) \in Nat
BY DEF Count

LEMMA OccurrencesType ==
  ASSUME NEW S, NEW s \in Seq(S), NEW x
  PROVE  /\ IsFiniteSet({i \in DOMAIN s : s[i] = x})
         /\ Occurrences(x, s) \in Nat
         /\ x \notin Elements(s) => Occurrences(x, s) = 0
<1>1. DOMAIN s = 1..Len(s) /\ Len(s) \in Nat
  BY LenProperties
<1>2. IsFiniteSet(1..Len(s))
  BY <1>1, FS_Interval
<1>3. IsFiniteSet({i \in DOMAIN s : s[i] = x})
  BY <1>1, <1>2, FS_Subset
<1>4. Occurrences(x, s) \in Nat
  BY <1>3, FS_CardinalityType DEF Occurrences
<1>5. ASSUME x \notin Elements(s)
      PROVE  Occurrences(x, s) = 0
  <2>1. {i \in DOMAIN s : s[i] = x} = {}
    BY <1>5 DEF Elements
  <2> QED BY <2>1, FS_EmptySet DEF Occurrences
<1> QED BY <1>3, <1>4, <1>5

LEMMA OccurrencesAppend ==
  ASSUME NEW S, NEW s \in Seq(S), NEW e \in S, NEW x
  PROVE  Occurrences(x, Append(s, e)) = Occurrences(x, s) + Count(e = x)
<1> DEFINE A == {i \in DOMAIN s : s[i] = x}
           B == {i \in DOMAIN Append(s, e) : Append(s, e)[i] = x}
           n == Len(s)
<1>1. /\ DOMAIN s = 1..n /\ n \in Nat
      /\ DOMAIN Append(s, e) = 1..(n + 1)
      /\ \A i \in 1..n : Append(s, e)[i] = s[i]
      /\ Append(s, e)[n + 1] = e
  BY LenProperties, AppendProperties
<1>2. IsFiniteSet(A) /\ Cardinality(A) \in Nat
  BY OccurrencesType DEF Occurrences
<1>0. Occurrences(x, s) = Cardinality(A) /\ Occurrences(x, Append(s, e)) = Cardinality(B)
  BY DEF Occurrences
<1>3. CASE e = x
  <2>1. B = A \cup {n + 1} /\ n + 1 \notin A
    BY <1>1, <1>3
  <2> HIDE DEF A, B
  <2>2. Cardinality(B) = Cardinality(A) + 1
    BY <1>2, <2>1, FS_AddElement
  <2> QED BY <1>0, <1>3, <2>2 DEF Count
<1>4. CASE e # x
  <2>1. B = A
    BY <1>1, <1>4
  <2> HIDE DEF A, B
  <2> QED BY <1>0, <1>2, <1>4, <2>1 DEF Count
<1> QED BY <1>3, <1>4

LEMMA OccurrencesTail ==
  ASSUME NEW S, NEW s \in Seq(S), s # <<>>, NEW x
  PROVE  Occurrences(x, Tail(s)) = Occurrences(x, s) - Count(Head(s) = x)
<1> DEFINE A == {i \in DOMAIN s : s[i] = x}
           B == {i \in DOMAIN Tail(s) : Tail(s)[i] = x}
           C == A \ {1}
           f == [i \in B |-> i + 1]
           n == Len(s)
<1>1. /\ DOMAIN s = 1..n /\ n \in Nat \ {0}
      /\ DOMAIN Tail(s) = 1..(n - 1)
      /\ \A i \in 1..(n - 1) : Tail(s)[i] = s[i + 1]
      /\ Head(s) = s[1]
  BY LenProperties, HeadTailProperties, EmptySeq
<1>2. IsFiniteSet(A) /\ Cardinality(A) \in Nat
  BY OccurrencesType DEF Occurrences
<1>3. IsFiniteSet(B)
  <2>1. Tail(s) \in Seq(S)
    BY HeadTailProperties
  <2> QED BY <2>1, OccurrencesType
<1>4. f \in Bijection(B, C)
  <2>1. \A i \in B : i + 1 \in C
    BY <1>1
  <2>2. \A i, j \in B : f[i] = f[j] => i = j
    BY <1>1
  <2>3. \A k \in C : \E i \in B : f[i] = k
    <3> TAKE k \in C
    <3>1. k - 1 \in B /\ f[k - 1] = k
      BY <1>1
    <3> QED BY <3>1
  <2>4. f \in [B -> C]
    BY <2>1
  <2> HIDE DEF f, B, C
  <2>5. f \in Injection(B, C)
    BY <2>2, <2>4 DEF Injection, IsInjective
  <2>6. f \in Surjection(B, C)
    BY <2>3, <2>4 DEF Surjection
  <2> QED BY <2>5, <2>6 DEF Bijection
<1>5. Cardinality(C) = Cardinality(B)
  BY <1>3, <1>4, FS_Bijection DEF ExistsBijection
<1>6. Cardinality(C) = IF 1 \in A THEN Cardinality(A) - 1 ELSE Cardinality(A)
  BY <1>2, FS_RemoveElement
<1>7. 1 \in A <=> Head(s) = x
  BY <1>1
<1>8. Occurrences(x, s) = Cardinality(A) /\ Occurrences(x, Tail(s)) = Cardinality(B)
  BY DEF Occurrences
<1> HIDE DEF A, B, C
<1> QED BY <1>2, <1>5, <1>6, <1>7, <1>8 DEF Count

LEMMA IsElement ==
  ASSUME NEW s, NEW i \in DOMAIN s
  PROVE  s[i] \in Elements(s)
BY DEF Elements

LEMMA ElementsAppend ==
  ASSUME NEW S, NEW s \in Seq(S), NEW e \in S
  PROVE  Elements(Append(s, e)) = Elements(s) \cup {e}
<1>1. /\ DOMAIN s = 1..Len(s) /\ Len(s) \in Nat
      /\ DOMAIN Append(s, e) = 1..(Len(s) + 1)
      /\ \A i \in 1..Len(s) : Append(s, e)[i] = s[i]
      /\ Append(s, e)[Len(s) + 1] = e
  BY LenProperties, AppendProperties
<1>2. \A y \in Elements(Append(s, e)) : y \in Elements(s) \cup {e}
  BY <1>1 DEF Elements
<1>3. \A y \in Elements(s) : y \in Elements(Append(s, e))
  <2> SUFFICES ASSUME NEW i \in 1..Len(s) PROVE s[i] \in Elements(Append(s, e))
    BY <1>1 DEF Elements
  <2>1. i \in DOMAIN Append(s, e) /\ Append(s, e)[i] = s[i]
    BY <1>1
  <2>2. Append(s, e)[i] \in Elements(Append(s, e))
    BY <2>1, IsElement
  <2> QED BY <2>1, <2>2
<1>4. e \in Elements(Append(s, e))
  <2>1. Len(s) + 1 \in DOMAIN Append(s, e)
    BY <1>1
  <2>2. Append(s, e)[Len(s) + 1] \in Elements(Append(s, e))
    BY <2>1, IsElement
  <2> QED BY <1>1, <2>2
<1>5. \A y : y \in Elements(Append(s, e)) <=> y \in Elements(s) \cup {e}
  BY <1>2, <1>3, <1>4
<1> HIDE DEF Elements
<1> QED BY <1>5

------------------------------------------------------------------------------
(* Counting workers *)

(* Two sets of workers that differ in w at most. *)
LEMMA OneWorker ==
  ASSUME NEW A \in SUBSET Workers, NEW B \in SUBSET Workers, NEW w,
         \A v \in Workers : v # w => (v \in A <=> v \in B)
  PROVE  /\ Cardinality(A) \in Nat /\ Cardinality(B) \in Nat
         /\ Cardinality(B) = Cardinality(A) - Count(w \in A) + Count(w \in B)
<1>1. IsFiniteSet(A) /\ IsFiniteSet(B)
  BY DeviceAssumption, FS_Subset
<1>2. Cardinality(A) \in Nat /\ Cardinality(B) \in Nat
  BY <1>1, FS_CardinalityType
<1>3. CASE w \in A <=> w \in B
  <2>1. A = B
    BY <1>3
  <2> QED BY <1>2, <1>3, <2>1 DEF Count
<1>4. CASE w \in A /\ w \notin B
  <2>1. B = A \ {w}
    BY <1>4
  <2>2. Cardinality(B) = Cardinality(A) - 1
    BY <1>1, <1>4, <2>1, FS_RemoveElement
  <2> QED BY <1>2, <1>4, <2>2 DEF Count
<1>5. CASE w \notin A /\ w \in B
  <2>1. B = A \cup {w}
    BY <1>5
  <2>2. Cardinality(B) = Cardinality(A) + 1
    BY <1>1, <1>5, <2>1, FS_AddElement
  <2> QED BY <1>2, <1>5, <2>2 DEF Count
<1> QED BY <1>3, <1>4, <1>5

------------------------------------------------------------------------------
(* The calls of the double buffer *)

(* The front of a concatenation is that of its first part. *)
LEMMA ConcatHead ==
  ASSUME NEW S, NEW r \in Seq(S), NEW w \in Seq(S), r # <<>>
  PROVE  r \o w # <<>> /\ Head(r \o w) = Head(r) /\ Tail(r \o w) = Tail(r) \o w
<1> DEFINE h == r \o w
           a == Tail(h)
           c == Tail(r) \o w
<1>1. /\ h \in Seq(S) /\ Len(h) = Len(r) + Len(w)
      /\ \A i \in 1..(Len(r) + Len(w)) : h[i] = IF i <= Len(r) THEN r[i] ELSE w[i - Len(r)]
  BY ConcatProperties
<1>2. Len(r) \in Nat \ {0} /\ Len(w) \in Nat
  BY EmptySeq, LenProperties
<1>3. h # <<>>
  BY <1>1, <1>2, EmptySeq
<1>4. Head(h) = h[1] /\ Head(r) = r[1]
  OBVIOUS
<1>5. Head(h) = Head(r)
  BY <1>1, <1>2, <1>4
<1>6. /\ Tail(r) \in Seq(S) /\ Len(Tail(r)) = Len(r) - 1
      /\ \A i \in 1..(Len(r) - 1) : Tail(r)[i] = r[i + 1]
  BY HeadTailProperties
<1>7. /\ a \in Seq(S) /\ Len(a) = Len(h) - 1
      /\ \A i \in 1..(Len(h) - 1) : a[i] = h[i + 1]
  BY <1>1, <1>3, HeadTailProperties
<1>8. /\ c \in Seq(S) /\ Len(c) = Len(r) - 1 + Len(w)
      /\ \A i \in 1..(Len(r) - 1 + Len(w)) :
           c[i] = IF i <= Len(r) - 1 THEN Tail(r)[i] ELSE w[i - (Len(r) - 1)]
  BY <1>6, ConcatProperties
<1> HIDE DEF h, a, c
<1>9. Len(a) = Len(c) /\ Len(c) \in Nat
  BY <1>1, <1>2, <1>7, <1>8
<1>10. ASSUME NEW i \in 1..Len(a)
       PROVE  a[i] = c[i]
  <2>1. i \in 1..(Len(h) - 1) /\ i + 1 \in 1..(Len(r) + Len(w)) /\ i \in 1..(Len(r) - 1 + Len(w))
    BY <1>1, <1>2, <1>7
  <2>2. a[i] = h[i + 1]
    BY <1>7, <2>1
  <2>3. CASE i <= Len(r) - 1
    <3>1. h[i + 1] = r[i + 1] /\ i \in 1..(Len(r) - 1)
      BY <1>1, <1>2, <2>1, <2>3
    <3>2. c[i] = Tail(r)[i]
      BY <1>8, <2>1, <2>3
    <3> QED BY <1>6, <2>2, <3>1, <3>2
  <2>4. CASE ~(i <= Len(r) - 1)
    <3>1. h[i + 1] = w[i + 1 - Len(r)]
      BY <1>1, <1>2, <2>1, <2>4
    <3>2. c[i] = w[i - (Len(r) - 1)]
      BY <1>8, <2>1, <2>4
    <3>3. i + 1 - Len(r) = i - (Len(r) - 1)
      BY <1>2, <2>1
    <3> QED BY <2>2, <3>1, <3>2, <3>3
  <2> QED BY <2>3, <2>4
<1>11. a = c
  BY <1>7, <1>8, <1>9, <1>10, SeqEqual
<1> QED BY <1>3, <1>5, <1>11 DEF h, a, c

(* The end of a concatenation is that of its second part. *)
LEMMA ConcatAppend ==
  ASSUME NEW S, NEW x \in Seq(S), NEW y \in Seq(S), NEW e \in S
  PROVE  x \o Append(y, e) = Append(x \o y, e)
<1>1. Append(y, e) = y \o <<e>> /\ <<e>> \in Seq(S)
  BY AppendIsConcat
<1>2. x \o y \in Seq(S)
  BY ConcatProperties
<1>3. Append(x \o y, e) = (x \o y) \o <<e>>
  BY <1>2, AppendIsConcat
<1>4. (x \o y) \o <<e>> = x \o (y \o <<e>>)
  BY <1>1, ConcatAssociative
<1> QED BY <1>1, <1>3, <1>4

LEMMA HeldType ==
  ASSUME NEW n, NEW b \in BuffersOf(n)
  PROVE  /\ DB!Held(b) \in Seq(1..n)
         /\ b.read.msgs \in Seq(1..n) /\ b.write.msgs \in Seq(1..n)
         /\ Len(DB!Held(b)) \in Nat
         /\ DB!Held(b) = <<>> <=> b.read.msgs = <<>> /\ b.write.msgs = <<>>
<1>1. b.read.msgs \in Seq(1..n) /\ b.write.msgs \in Seq(1..n)
  BY DEF BuffersOf, Subs
<1>2. DB!Held(b) \in Seq(1..n)
  BY <1>1, ConcatProperties DEF DB!Held
<1>3. DB!Held(b) = <<>> <=> b.read.msgs = <<>> /\ b.write.msgs = <<>>
  BY <1>1, ConcatEmptySeq, ConcatSimplifications!concIsEmpty, EmptySeq DEF DB!Held
<1> QED BY <1>1, <1>2, <1>3, LenProperties

(* A message is stored behind all others, and does not free a wedged buffer. *)
LEMMA PutBuffer ==
  ASSUME NEW n, NEW b \in BuffersOf(n), NEW m \in 1..n, Length[m] \in Nat
  PROVE  /\ DB!Put(b, m) \in BuffersOf(n)
         /\ DB!Held(DB!Put(b, m)) = Append(DB!Held(b), m)
         /\ DB!Wedged(DB!Turned(b)) => DB!Wedged(DB!Turned(DB!Put(b, m)))
<1> DEFINE r == b.read
           w == b.write
           v == [msgs |-> Append(w.msgs, m), used_size |-> w.used_size + 1 + Length[m]]
           c == DB!Put(b, m)
<1>1. r \in Subs(n) /\ w \in Subs(n) /\ b = [read |-> r, write |-> w]
  BY DEF BuffersOf
<1>2. r.msgs \in Seq(1..n) /\ w.msgs \in Seq(1..n) /\ w.used_size \in Int /\ r.used_size \in Int
  BY <1>1 DEF Subs
<1>3. c = [b EXCEPT !.write = v]
  BY DEF DB!Put, Size
<1>4. c = [read |-> r, write |-> v] /\ c.read = r /\ c.write = v
  BY <1>1, <1>3
<1>5. v \in Subs(n)
  BY <1>2, AppendProperties DEF Subs
<1>6. c \in BuffersOf(n)
  BY <1>1, <1>4, <1>5 DEF BuffersOf
<1>7. r.msgs \o Append(w.msgs, m) = Append(r.msgs \o w.msgs, m)
  <2> DEFINE S == 1..n
             x == r.msgs
             y == w.msgs
  <2>1. x \in Seq(S) /\ y \in Seq(S) /\ m \in S
    BY <1>2
  <2> HIDE DEF S, x, y
  <2>2. x \o Append(y, m) = Append(x \o y, m)
    BY <2>1, ConcatAppend
  <2> QED BY <2>2 DEF x, y
<1>8. DB!Held(c) = Append(DB!Held(b), m)
  <2>1. c.read.msgs = r.msgs /\ c.write.msgs = Append(w.msgs, m)
    BY <1>4
  <2> HIDE DEF c
  <2> QED BY <1>7, <2>1 DEF DB!Held
<1>9. DB!Wedged(DB!Turned(b)) => DB!Wedged(DB!Turned(c))
  <2>0. BufferSize \in Nat
    BY DeviceAssumption
  <2>1. CASE r.msgs = <<>>
    <3>1. DB!Turned(b).read = w /\ DB!Turned(c).read = v
      BY <1>4, <2>1 DEF DB!Turned
    <3> QED BY <1>2, <2>0, <3>1 DEF DB!Wedged
  <2>2. CASE r.msgs # <<>>
    <3>1. DB!Turned(b).read = r /\ DB!Turned(c).read = r
      BY <1>4, <2>2 DEF DB!Turned
    <3> QED BY <3>1 DEF DB!Wedged
  <2> QED BY <2>1, <2>2
<1> QED BY <1>6, <1>8, <1>9

(* An exchange of the sub-buffers changes nothing of what the buffer holds.  *)
LEMMA TurnedBuffer ==
  ASSUME NEW n, NEW b \in BuffersOf(n)
  PROVE  /\ DB!Turned(b) \in BuffersOf(n)
         /\ DB!Held(DB!Turned(b)) = DB!Held(b)
         /\ DB!Turned(b).read.msgs = <<>> => DB!Held(b) = <<>>
<1> DEFINE r == b.read
           w == b.write
<1>1. r \in Subs(n) /\ w \in Subs(n) /\ r.msgs \in Seq(1..n) /\ w.msgs \in Seq(1..n)
  BY DEF BuffersOf, Subs
<1>2. CASE r.msgs = <<>>
  <2>1. DB!Turned(b) = [read |-> w, write |-> r]
    BY <1>2 DEF DB!Turned
  <2>2. DB!Turned(b) \in BuffersOf(n)
    BY <1>1, <2>1 DEF BuffersOf
  <2>3. w.msgs \o r.msgs = w.msgs /\ r.msgs \o w.msgs = w.msgs
    BY <1>1, <1>2, ConcatEmptySeq
  <2>4. DB!Turned(b).read.msgs = w.msgs /\ DB!Turned(b).write.msgs = r.msgs
    BY <2>1
  <2>5. DB!Held(DB!Turned(b)) = DB!Held(b)
    BY <2>3, <2>4 DEF DB!Held
  <2>6. DB!Turned(b).read.msgs = <<>> => DB!Held(b) = <<>>
    BY <2>3, <2>4 DEF DB!Held
  <2> QED BY <2>2, <2>5, <2>6
<1>3. CASE r.msgs # <<>>
  BY <1>3 DEF DB!Turned
<1> QED BY <1>2, <1>3

(* A read that fails found nothing, or the buffer wedged, and stays so.      *)
LEMMA NothingToTake ==
  ASSUME NEW n, NEW b \in BuffersOf(n), ~DB!Readable(b)
  PROVE  DB!Held(b) = <<>> \/ DB!Wedged(DB!Turned(DB!Turned(b)))
<1>1. CASE DB!Turned(b).read.msgs = <<>>
  BY <1>1, TurnedBuffer
<1>2. CASE DB!Turned(b).read.msgs # <<>>
  <2>1. DB!Wedged(DB!Turned(b))
    BY <1>2 DEF DB!Readable
  <2>2. DB!Turned(DB!Turned(b)) = DB!Turned(b)
    BY <1>2 DEF DB!Turned
  <2> QED BY <2>1, <2>2
<1> QED BY <1>1, <1>2

(* A read that succeeds takes the oldest message. *)
LEMMA TakenBuffer ==
  ASSUME NEW n, NEW b \in BuffersOf(n), DB!Readable(b),
         \A m \in 1..n : Length[m] \in Nat
  PROVE  /\ ~DB!Wedged(DB!Turned(b))
         /\ DB!Held(b) # <<>>
         /\ DB!Oldest(b) = Head(DB!Held(b)) /\ DB!Oldest(b) \in 1..n
         /\ DB!Taken(b) \in BuffersOf(n)
         /\ DB!Held(DB!Taken(b)) = Tail(DB!Held(b))
<1> DEFINE t == DB!Turned(b)
           r == t.read.msgs
           w == t.write.msgs
           v == [msgs |-> Tail(r), used_size |-> t.read.used_size - 1 - Length[Head(r)]]
           c == DB!Taken(b)
<1>1. t \in BuffersOf(n) /\ DB!Held(t) = DB!Held(b)
  BY TurnedBuffer
<1>2. /\ t = [read |-> t.read, write |-> t.write]
      /\ t.read \in Subs(n) /\ t.write \in Subs(n)
      /\ r \in Seq(1..n) /\ w \in Seq(1..n) /\ t.read.used_size \in Int
  BY <1>1 DEF BuffersOf, Subs
<1>3. r # <<>> /\ ~DB!Wedged(t)
  BY DEF DB!Readable
<1>4. Head(r) \in 1..n /\ Tail(r) \in Seq(1..n)
  BY <1>2, <1>3, HeadTailProperties
<1>5. c = [t EXCEPT !.read = v]
  BY DEF DB!Taken, Size
<1>6. c = [read |-> v, write |-> t.write]
  BY <1>2, <1>5
<1>7. v \in Subs(n)
  BY <1>2, <1>4 DEF Subs
<1>8. c \in BuffersOf(n)
  BY <1>2, <1>6, <1>7 DEF BuffersOf
<1>9. DB!Held(b) = r \o w /\ DB!Held(c) = Tail(r) \o w
  <2>1. c.read.msgs = Tail(r) /\ c.write.msgs = w
    BY <1>6
  <2> HIDE DEF c, v
  <2> QED BY <1>1, <2>1 DEF DB!Held
<1> HIDE DEF t, r, w, c
<1>10. r \o w # <<>> /\ Head(r \o w) = Head(r) /\ Tail(r \o w) = Tail(r) \o w
  BY <1>2, <1>3, ConcatHead
<1> QED BY <1>3, <1>4, <1>8, <1>9, <1>10 DEF DB!Oldest, t, r, c

------------------------------------------------------------------------------
(* The order of a buffer and of what left it *)

LEMMA OrderArrives ==
  ASSUME NEW N, NEW h \in Seq(1..N), NEW D \in SUBSET Nat, NEW n \in Nat, InOrder(h, D, n, FALSE)
  PROVE  InOrder(h, D, n + 1, TRUE)
<1>1. Len(h) \in Nat
  BY LenProperties
<1>2. ASSUME NEW i \in 1..Len(h)
      PROVE  h[i] <= n + 1 /\ h[i] < n + 1
  <2>1. h[i] \in 1..N /\ h[i] <= n
    BY ElementOfSeq DEF InOrder
  <2> QED BY <2>1
<1>3. ASSUME NEW m \in D
      PROVE  m <= n + 1 /\ m < n + 1
  <2>1. m \in Nat /\ m <= n
    BY DEF InOrder
  <2> QED BY <2>1
<1> QED BY <1>2, <1>3 DEF InOrder

LEMMA OrderPut ==
  ASSUME NEW N, NEW h \in Seq(1..N), NEW D \in SUBSET Nat, NEW n \in 1..N, InOrder(h, D, n, TRUE)
  PROVE  InOrder(Append(h, n), D, n, FALSE) /\ InOrder(h, D, n, FALSE)
<1> DEFINE a == Append(h, n)
<1>1. Len(h) \in Nat
  BY LenProperties
<1>2. Len(a) = Len(h) + 1 /\ a[Len(h) + 1] = n /\ \A i \in 1..Len(h) : a[i] = h[i]
  BY AppendProperties
<1> HIDE DEF a
<1>3. InOrder(a, D, n, FALSE)
  <2>1. ASSUME NEW i \in 1..Len(a), NEW j \in 1..Len(a), i < j
        PROVE  a[i] < a[j]
    <3>1. i \in 1..Len(h) /\ a[i] = h[i] /\ h[i] < n
      BY <1>1, <1>2, <2>1 DEF InOrder
    <3>2. CASE j = Len(h) + 1
      BY <1>2, <3>1, <3>2
    <3>3. CASE j # Len(h) + 1
      <4>1. j \in 1..Len(h) /\ a[j] = h[j]
        BY <1>1, <1>2, <3>3
      <4> QED BY <2>1, <3>1, <4>1 DEF InOrder
    <3> QED BY <3>2, <3>3
  <2>2. ASSUME NEW i \in 1..Len(a)
        PROVE  a[i] <= n /\ \A m \in D : m < a[i]
    <3>1. CASE i = Len(h) + 1
      BY <1>2, <3>1 DEF InOrder
    <3>2. CASE i # Len(h) + 1
      <4>1. i \in 1..Len(h) /\ a[i] = h[i]
        BY <1>1, <1>2, <3>2
      <4> QED BY <4>1 DEF InOrder
    <3> QED BY <3>1, <3>2
  <2> QED BY <2>1, <2>2 DEF InOrder
<1>4. InOrder(h, D, n, FALSE)
  BY DEF InOrder
<1> QED BY <1>3, <1>4 DEF a

LEMMA OrderTake ==
  ASSUME NEW N, NEW h \in Seq(1..N), h # <<>>, NEW D, NEW E, NEW n, NEW p,
         InOrder(h, D, n, p), \A m \in E : m \in D \/ m = Head(h)
  PROVE  InOrder(Tail(h), E, n, p)
<1> DEFINE t == Tail(h)
<1>1. /\ Len(h) \in Nat /\ Len(h) > 0 /\ Head(h) = h[1]
      /\ Len(t) = Len(h) - 1 /\ \A i \in 1..Len(t) : t[i] = h[i + 1]
  BY LenProperties, EmptySeq, HeadTailProperties
<1>2. \A i \in 1..Len(t) : i + 1 \in 1..Len(h) /\ t[i] = h[i + 1]
  BY <1>1
<1> HIDE DEF t
<1>3. 1 \in 1..Len(h)
  BY <1>1
<1>4. ASSUME NEW i \in 1..Len(t), NEW j \in 1..Len(t), i < j
      PROVE  t[i] < t[j]
  <2>1. i + 1 < j + 1
    BY <1>4
  <2> QED BY <1>2, <2>1 DEF InOrder
<1>5. ASSUME NEW i \in 1..Len(t)
      PROVE  t[i] <= n /\ (p => t[i] < n)
  BY <1>2 DEF InOrder
<1>6. ASSUME NEW m \in E
      PROVE  /\ m <= n /\ (p => m < n)
             /\ \A i \in 1..Len(t) : m < t[i]
  <2>1. CASE m \in D
    BY <1>2, <2>1 DEF InOrder
  <2>2. CASE m = h[1]
    <3>1. \A i \in 1..Len(t) : 1 < i + 1
      OBVIOUS
    <3> QED BY <1>2, <1>3, <2>2, <3>1 DEF InOrder
  <2> QED BY <1>1, <1>6, <2>1, <2>2
<1>7. InOrder(t, E, n, p)
  BY <1>4, <1>5, <1>6 DEF InOrder
<1> QED BY <1>7 DEF t

LEMMA OrderFewer ==
  ASSUME NEW h, NEW D, NEW E \in SUBSET D, NEW n, NEW p, InOrder(h, D, n, p)
  PROVE  InOrder(h, E, n, p)
BY DEF InOrder

------------------------------------------------------------------------------
(* Type correctness *)

(* What arrived last and what is oldest in a buffer has a length. *)
LEMMA Lengths ==
  /\ MaxUp \in Nat /\ MaxDown \in Nat
  /\ \A m \in 1..MaxUp : Length[m] \in Nat
  /\ \A m \in 1..MaxDown : Length[m] \in Nat
<1>1. ASSUME NEW m \in 1..MaxUp \cup 1..MaxDown
      PROVE  Length[m] \in Nat
  <2>1. Length[m] \in 1..255
    BY DeviceAssumption
  <2> QED BY <2>1
<1>2. MaxUp \in Nat /\ MaxDown \in Nat
  BY DeviceAssumption
<1>3. \A m \in 1..MaxUp : Length[m] \in Nat
  BY <1>1
<1>4. \A m \in 1..MaxDown : Length[m] \in Nat
  BY <1>1
<1> QED BY <1>2, <1>3, <1>4

(* The records with a field for each direction. *)
LEMMA FieldChanges ==
  ASSUME NEW S, NEW T, NEW d \in [up : S, down : T]
  PROVE  /\ d.up \in S /\ d.down \in T
         /\ \A e \in S : /\ [d EXCEPT !.up = e] \in [up : S, down : T]
                       /\ [d EXCEPT !.up = e].up = e
                       /\ [d EXCEPT !.up = e].down = d.down
         /\ \A e \in T : /\ [d EXCEPT !.down = e] \in [up : S, down : T]
                       /\ [d EXCEPT !.down = e].down = e
                       /\ [d EXCEPT !.down = e].up = d.up
OBVIOUS

(* What is lost in one direction. *)
LEMMA Losing ==
  ASSUME TypeOK, NEW m \in Nat
  PROVE  /\ lost' = [lost EXCEPT !.up = @ \cup {m}] =>
              /\ lost' \in [up : SUBSET Nat, down : SUBSET Nat]
              /\ lost'.up = lost.up \cup {m} /\ lost'.down = lost.down
         /\ lost' = [lost EXCEPT !.down = @ \cup {m}] =>
              /\ lost' \in [up : SUBSET Nat, down : SUBSET Nat]
              /\ lost'.down = lost.down \cup {m} /\ lost'.up = lost.up
<1>1. lost \in [up : SUBSET Nat, down : SUBSET Nat]
  BY DEF TypeOK
<1>2. lost.up \cup {m} \in SUBSET Nat /\ lost.down \cup {m} \in SUBSET Nat
  BY <1>1
<1> QED BY <1>1, <1>2, FieldChanges

LEMMA InitTypes == Init => TypeOK
<1> SUFFICES ASSUME Init PROVE TypeOK
  OBVIOUS
<1>1. DB!EmptySub \in Subs(MaxUp) /\ DB!EmptySub \in Subs(MaxDown)
  BY EmptySeq DEF DB!EmptySub, Subs
<1>2. up_buffer \in BuffersOf(MaxUp) /\ down_buffer \in BuffersOf(MaxDown)
  BY <1>1 DEF Init, DB!EmptyBuffer, BuffersOf
<1>3. worker \in [Workers -> Jobs]
  BY DEF Init, Idle, Jobs, Steps
<1>4. mq \in Seq({"send", "write"}) /\ published \in Seq(Nat) /\ written \in Seq(Nat)
  BY EmptySeq DEF Init
<1> QED BY <1>2, <1>3, <1>4, Lengths DEF Init, TypeOK, Jobs, Steps

LEMMA ReadThreadTypes ==
  ASSUME TypeOK, UpInOrder, ReadThread
  PROVE  TypeOK'
<1>1. CASE FrameArrives
  <2>1. arrived.up + 1 \in 0..MaxUp
    BY <1>1, Lengths DEF FrameArrives, TypeOK
  <2>2. arrived' \in [up : 0..MaxUp, down : 0..MaxDown]
    BY <1>1, <2>1, FieldChanges DEF FrameArrives, TypeOK
  <2> QED BY <1>1, <2>2 DEF FrameArrives, TypeOK
<1>2. CASE PutFrame
  <2>1. arrived.up \in 1..MaxUp
    BY <1>2, Lengths DEF PutFrame, TypeOK, UpInOrder
  <2>2. up_buffer' \in BuffersOf(MaxUp)
    <3>1. CASE DB!HasRoom(up_buffer, arrived.up)
      <4>1. DB!Put(up_buffer, arrived.up) \in BuffersOf(MaxUp)
        BY <2>1, PutBuffer, Lengths DEF TypeOK
      <4> QED BY <1>2, <3>1, <4>1 DEF PutFrame
    <3>2. CASE ~DB!HasRoom(up_buffer, arrived.up)
      BY <1>2, <3>2 DEF PutFrame, TypeOK
    <3> QED BY <3>1, <3>2
  <2>3. lost' \in [up : SUBSET Nat, down : SUBSET Nat]
    <3>1. arrived.up \in Nat
      BY <2>1, Lengths
    <3>2. CASE lost' = [lost EXCEPT !.up = @ \cup {arrived.up}]
      BY <3>1, <3>2, Losing
    <3>3. CASE lost' = lost
      BY <3>3 DEF TypeOK
    <3> QED BY <1>2, <3>2, <3>3 DEF PutFrame
  <2> QED BY <1>2, <2>2, <2>3 DEF PutFrame, TypeOK
<1>3. CASE SubmitSend
  <2>1. mq' \in Seq({"send", "write"})
    <3>1. mq \in Seq({"send", "write"}) /\ (mq' = mq \/ mq' = Append(mq, "send"))
      BY <1>3 DEF SubmitSend, AddTask, TypeOK
    <3> QED BY <3>1, AppendProperties
  <2> QED BY <1>3, <2>1 DEF SubmitSend, TypeOK
<1> QED BY <1>1, <1>2, <1>3 DEF ReadThread

LEMMA CallbackTypes ==
  ASSUME TypeOK, DownInOrder, Callback
  PROVE  TypeOK'
<1>1. CASE CommandArrives
  <2>1. arrived.down + 1 \in 0..MaxDown
    BY <1>1, Lengths DEF CommandArrives, TypeOK
  <2>2. arrived' \in [up : 0..MaxUp, down : 0..MaxDown]
    BY <1>1, <2>1, FieldChanges DEF CommandArrives, TypeOK
  <2> QED BY <1>1, <2>2 DEF CommandArrives, TypeOK
<1>2. CASE PutCommand
  <2>1. arrived.down \in 1..MaxDown
    BY <1>2, Lengths DEF PutCommand, TypeOK, DownInOrder
  <2>2. down_buffer' \in BuffersOf(MaxDown)
    <3>1. CASE DB!HasRoom(down_buffer, arrived.down)
      <4>1. DB!Put(down_buffer, arrived.down) \in BuffersOf(MaxDown)
        BY <2>1, PutBuffer, Lengths DEF TypeOK
      <4> QED BY <1>2, <3>1, <4>1 DEF PutCommand
    <3>2. CASE ~DB!HasRoom(down_buffer, arrived.down)
      BY <1>2, <3>2 DEF PutCommand, TypeOK
    <3> QED BY <3>1, <3>2
  <2>3. lost' \in [up : SUBSET Nat, down : SUBSET Nat]
    <3>1. arrived.down \in Nat
      BY <2>1, Lengths
    <3>2. CASE lost' = [lost EXCEPT !.down = @ \cup {arrived.down}]
      BY <3>1, <3>2, Losing
    <3>3. CASE lost' = lost
      BY <3>3 DEF TypeOK
    <3> QED BY <1>2, <3>2, <3>3 DEF PutCommand
  <2> QED BY <1>2, <2>2, <2>3 DEF PutCommand, TypeOK
<1>3. CASE SubmitWrite
  <2>1. mq' \in Seq({"send", "write"})
    <3>1. mq \in Seq({"send", "write"}) /\ (mq' = mq \/ mq' = Append(mq, "write"))
      BY <1>3 DEF SubmitWrite, AddTask, TypeOK
    <3> QED BY <3>1, AppendProperties
  <2> QED BY <1>3, <2>1 DEF SubmitWrite, TypeOK
<1> QED BY <1>1, <1>2, <1>3 DEF Callback

(* What a worker does next is a job, and where the message it had went.      *)
LEMMA WorkTypes ==
  ASSUME TypeOK, NEW w \in Workers, Work(w)
  PROVE  TypeOK'
<1>0. /\ worker[w] \in Jobs /\ worker[w].msg \in Nat
      /\ Idle \in Jobs
      /\ \A r \in Jobs : [worker EXCEPT ![w] = r] \in [Workers -> Jobs]
  BY DEF TypeOK, Idle, Jobs, Steps
<1>1. CASE Receive(w)
  <2>1. Head(mq) \in {"send", "write"} /\ mq' \in Seq({"send", "write"})
    BY <1>1, HeadTailProperties DEF Receive, TypeOK
  <2>2. worker' \in [Workers -> Jobs]
    BY <1>1, <2>1 DEF Receive, TypeOK, Jobs, Steps
  <2> QED BY <1>1, <2>1, <2>2 DEF Receive, TypeOK, Jobs, Steps
<1>2. CASE SendRead(w)
  <2>1. CASE DB!Readable(up_buffer)
    <3>1. DB!Oldest(up_buffer) \in Nat /\ DB!Taken(up_buffer) \in BuffersOf(MaxUp)
      <4>1. up_buffer \in BuffersOf(MaxUp)
        BY DEF TypeOK
      <4>2. DB!Oldest(up_buffer) \in 1..MaxUp /\ DB!Taken(up_buffer) \in BuffersOf(MaxUp)
        BY <2>1, <4>1, TakenBuffer, Lengths
      <4> QED BY <4>2, Lengths
    <3>2. worker' \in [Workers -> Jobs]
      BY <1>0, <1>2, <2>1, <3>1 DEF SendRead, Jobs, Steps
    <3> QED BY <1>2, <2>1, <3>1, <3>2 DEF SendRead, TypeOK, Jobs, Steps
  <2>2. CASE ~DB!Readable(up_buffer)
    <3>1. DB!Turned(up_buffer) \in BuffersOf(MaxUp)
      BY TurnedBuffer DEF TypeOK
    <3>2. worker' \in [Workers -> Jobs]
      BY <1>0, <1>2, <2>2 DEF SendRead
    <3> QED BY <1>2, <2>2, <3>1, <3>2 DEF SendRead, TypeOK, Jobs, Steps
  <2> QED BY <2>1, <2>2
<1>3. CASE Publish(w)
  <2>1. worker' \in [Workers -> Jobs]
    BY <1>0, <1>3 DEF Publish
  <2>2. published' \in Seq(Nat)
    <3>1. published \in Seq(Nat)
      BY DEF TypeOK
    <3>2. Append(published, worker[w].msg) \in Seq(Nat)
      BY <1>0, <3>1, AppendProperties
    <3> QED BY <1>3, <3>1, <3>2 DEF Publish
  <2>3. lost' \in [up : SUBSET Nat, down : SUBSET Nat]
    BY <1>0, <1>3, Losing DEF Publish, TypeOK
  <2> QED BY <1>3, <2>1, <2>2, <2>3 DEF Publish, TypeOK, Jobs, Steps
<1>4. CASE WriteRead(w)
  <2>1. CASE DB!Readable(down_buffer)
    <3>1. DB!Oldest(down_buffer) \in Nat /\ DB!Taken(down_buffer) \in BuffersOf(MaxDown)
      <4>1. down_buffer \in BuffersOf(MaxDown)
        BY DEF TypeOK
      <4>2. DB!Oldest(down_buffer) \in 1..MaxDown /\ DB!Taken(down_buffer) \in BuffersOf(MaxDown)
        BY <2>1, <4>1, TakenBuffer, Lengths
      <4> QED BY <4>2, Lengths
    <3>2. worker' \in [Workers -> Jobs]
      BY <1>0, <1>4, <2>1, <3>1 DEF WriteRead, Jobs, Steps
    <3>3. lost' \in [up : SUBSET Nat, down : SUBSET Nat]
      BY <1>4, <2>1, <3>1, Losing DEF WriteRead, TypeOK
    <3> QED BY <1>4, <2>1, <3>1, <3>2, <3>3 DEF WriteRead, TypeOK, Jobs, Steps
  <2>2. CASE ~DB!Readable(down_buffer)
    <3>1. DB!Turned(down_buffer) \in BuffersOf(MaxDown)
      BY TurnedBuffer DEF TypeOK
    <3>2. worker' \in [Workers -> Jobs]
      BY <1>0, <1>4, <2>2 DEF WriteRead
    <3> QED BY <1>4, <2>2, <3>1, <3>2 DEF WriteRead, TypeOK, Jobs, Steps
  <2> QED BY <2>1, <2>2
<1>5. CASE WriteSerial(w)
  <2>1. worker' \in [Workers -> Jobs]
    BY <1>0, <1>5 DEF WriteSerial
  <2>2. written' \in Seq(Nat)
    <3>1. written \in Seq(Nat)
      BY DEF TypeOK
    <3>2. Append(written, worker[w].msg) \in Seq(Nat)
      BY <1>0, <3>1, AppendProperties
    <3> QED BY <1>5, <3>1, <3>2 DEF WriteSerial
  <2>3. lost' \in [up : SUBSET Nat, down : SUBSET Nat]
    BY <1>0, <1>5, Losing DEF WriteSerial, TypeOK
  <2> QED BY <1>5, <2>1, <2>2, <2>3 DEF WriteSerial, TypeOK, Jobs, Steps
<1> QED BY <1>1, <1>2, <1>3, <1>4, <1>5 DEF Work

LEMMA NextTypes ==
  ASSUME TypeOK, UpInOrder, DownInOrder, [Next]_vars
  PROVE  TypeOK'
<1>1. CASE ConnectionChanges
  BY <1>1 DEF ConnectionChanges, TypeOK
<1>2. CASE UNCHANGED vars
  BY <1>2 DEF vars, TypeOK
<1> QED BY <1>1, <1>2, ReadThreadTypes, CallbackTypes, WorkTypes DEF Next

------------------------------------------------------------------------------
(* The frames on their way up *)

UpLeft == Elements(published) \cup InHands("publish")

LEMMA UpParts ==
  ASSUME TypeOK
  PROVE  /\ up_buffer \in BuffersOf(MaxUp) /\ DB!Held(up_buffer) \in Seq(1..MaxUp)
         /\ Len(DB!Held(up_buffer)) \in Nat
         /\ arrived.up \in Nat /\ published \in Seq(Nat)
         /\ UpLeft \in SUBSET Nat
         /\ \A m : Occurrences(m, DB!Held(up_buffer)) \in Nat /\ Occurrences(m, published) \in Nat
         /\ \A m : InHand("publish", m) \in Nat
         /\ Occurrences("send", mq) \in Nat /\ Cardinality(At("send")) \in Nat
<1>1. up_buffer \in BuffersOf(MaxUp) /\ arrived.up \in Nat
  BY Lengths DEF TypeOK
<1>2. published \in Seq(Nat) /\ mq \in Seq({"send", "write"})
  BY DEF TypeOK
<1>3. DB!Held(up_buffer) \in Seq(1..MaxUp) /\ Len(DB!Held(up_buffer)) \in Nat
  BY <1>1, HeldType
<1>4. Elements(published) \in SUBSET Nat
  BY <1>2, LenProperties, ElementOfSeq DEF Elements
<1>5. InHands("publish") \in SUBSET Nat
  BY DEF TypeOK, InHands, At, Jobs, Steps
<1>6. \A m : Occurrences(m, DB!Held(up_buffer)) \in Nat
  BY <1>3, OccurrencesType
<1>7. \A m : Occurrences(m, published) \in Nat
  BY <1>2, OccurrencesType
<1>8. Occurrences("send", mq) \in Nat
  BY <1>2, OccurrencesType
<1>9. /\ \A m : InHand("publish", m) \in Nat
      /\ Cardinality(At("send")) \in Nat
  BY DeviceAssumption, FS_Subset, FS_CardinalityType DEF InHand, At
<1> QED BY <1>1, <1>2, <1>3, <1>4, <1>5, <1>6, <1>7, <1>8, <1>9 DEF UpLeft

(* A step that moves no frame and takes no task from those that are due.    *)
LEMMA UpFrame ==
  ASSUME UNCHANGED <<mq_fd, up_buffer, published>>, arrived'.up = arrived.up, lost'.up = lost.up,
         (read_thread = "put")' <=> read_thread = "put",
         \A m \in InHands("publish")' : m \in InHands("publish"),
         \A m : InHand("publish", m)' = InHand("publish", m),
         mq_fd = "open" => Pending("send", read_thread = "task")' = Pending("send", read_thread = "task")
  PROVE  /\ UpInOrder => UpInOrder'
         /\ UpOnce => UpOnce'
         /\ UpServed => UpServed'
<1>1. ASSUME UpInOrder PROVE UpInOrder'
  <2>1. InOrder(DB!Held(up_buffer), Elements(published) \cup InHands("publish")', arrived.up,
                read_thread = "put")
    BY <1>1, OrderFewer DEF UpInOrder
  <2> QED BY <1>1, <2>1 DEF UpInOrder
<1>2. ASSUME UpOnce PROVE UpOnce'
  <2>1. \A m : UpPlaces(m)' = UpPlaces(m)
    BY DEF UpPlaces, Count
  <2> QED BY <1>2, <2>1 DEF UpOnce
<1>3. ASSUME UpServed PROVE UpServed'
  BY <1>3 DEF UpServed, Served
<1> QED BY <1>1, <1>2, <1>3

(* A worker goes on: what that means for the tasks and frames in hand.      *)
LEMMA UpMoves ==
  ASSUME TypeOK, NEW w \in Workers, NEW r, worker' = [worker EXCEPT ![w] = r]
  PROVE  /\ Cardinality(At("send"))' \in Nat
         /\ Cardinality(At("send"))' = Cardinality(At("send"))
              - Count(worker[w].at = "send") + Count(r.at = "send")
         /\ \A m : /\ InHand("publish", m) \in Nat /\ InHand("publish", m)' \in Nat
                   /\ InHand("publish", m)' = InHand("publish", m)
                        - Count(worker[w].at = "publish" /\ worker[w].msg = m)
                        + Count(r.at = "publish" /\ r.msg = m)
         /\ \A m \in InHands("publish")' : m \in InHands("publish") \/ (r.at = "publish" /\ m = r.msg)
         /\ worker[w].at = "publish" => worker[w].msg \in InHands("publish")
<1>1. worker'[w] = r /\ \A v \in Workers : v # w => worker'[v] = worker[v]
  BY DEF TypeOK
<1>2. /\ Cardinality(At("send"))' \in Nat
      /\ Cardinality(At("send"))' = Cardinality(At("send"))
           - Count(worker[w].at = "send") + Count(r.at = "send")
  <2> DEFINE A == {v \in Workers : worker[v].at = "send"}
             B == {v \in Workers : worker'[v].at = "send"}
  <2>1. /\ \A v \in Workers : v # w => (v \in A <=> v \in B)
        /\ w \in A <=> worker[w].at = "send"
        /\ w \in B <=> r.at = "send"
        /\ At("send") = A /\ At("send")' = B
    BY <1>1 DEF At
  <2> HIDE DEF A, B
  <2>2. A \in SUBSET Workers /\ B \in SUBSET Workers
    BY DEF A, B
  <2>3. Cardinality(B) \in Nat /\ Cardinality(B) = Cardinality(A) - Count(w \in A) + Count(w \in B)
    BY <2>1, <2>2, OneWorker
  <2> QED BY <2>1, <2>3 DEF Count
<1>3. ASSUME NEW m
      PROVE  /\ InHand("publish", m) \in Nat /\ InHand("publish", m)' \in Nat
             /\ InHand("publish", m)' = InHand("publish", m)
                  - Count(worker[w].at = "publish" /\ worker[w].msg = m)
                  + Count(r.at = "publish" /\ r.msg = m)
  <2> DEFINE A == {v \in At("publish") : worker[v].msg = m}
             B == {v \in Workers : worker'[v].at = "publish" /\ worker'[v].msg = m}
  <2>1. /\ \A v \in Workers : v # w => (v \in A <=> v \in B)
        /\ w \in A <=> worker[w].at = "publish" /\ worker[w].msg = m
        /\ w \in B <=> r.at = "publish" /\ r.msg = m
        /\ {v \in At("publish") : worker[v].msg = m}' = B
    BY <1>1 DEF At
  <2>2. InHand("publish", m) = Cardinality(A) /\ InHand("publish", m)' = Cardinality(B)
    BY <2>1 DEF InHand
  <2>3. A \in SUBSET Workers /\ B \in SUBSET Workers
    BY DEF At
  <2> HIDE DEF A, B
  <2>4. /\ Cardinality(A) \in Nat /\ Cardinality(B) \in Nat
        /\ Cardinality(B) = Cardinality(A) - Count(w \in A) + Count(w \in B)
    BY <2>1, <2>3, OneWorker
  <2>5. /\ Count(w \in A) = Count(worker[w].at = "publish" /\ worker[w].msg = m)
        /\ Count(w \in B) = Count(r.at = "publish" /\ r.msg = m)
    BY <2>1 DEF Count
  <2> QED BY <2>2, <2>4, <2>5
<1>4. \A m \in InHands("publish")' : m \in InHands("publish") \/ (r.at = "publish" /\ m = r.msg)
  BY <1>1 DEF InHands, At
<1>5. worker[w].at = "publish" => worker[w].msg \in InHands("publish")
  BY DEF InHands, At
<1> QED BY <1>2, <1>3, <1>4, <1>5

(* The parts of the invariant that are about the frames. *)
UpInv == UpInOrder /\ UpOnce /\ UpServed

(* A frame arrives. *)
LEMMA ArrivesUp ==
  ASSUME TypeOK, UpInv, FrameArrives
  PROVE  UpInv'
<1>0. UNCHANGED <<mq_fd, up_buffer, mq, worker, published, lost>>
  BY DEF FrameArrives
<1>1. /\ read_thread = "read" /\ read_thread' = "put"
      /\ arrived'.up = arrived.up + 1 /\ arrived.up \in Nat
  BY UpParts DEF FrameArrives, TypeOK
<1>2. UpInOrder'
  <2>1. InOrder(DB!Held(up_buffer), UpLeft, arrived.up, FALSE)
    BY <1>1 DEF UpInv, UpInOrder, UpLeft
  <2>2. InOrder(DB!Held(up_buffer), UpLeft, arrived.up + 1, TRUE)
    BY <1>1, <2>1, UpParts, OrderArrives
  <2>3. UpLeft' = UpLeft
    BY <1>0 DEF UpLeft, InHands, At
  <2> QED BY <1>0, <1>1, <2>2, <2>3 DEF UpInOrder, UpLeft, InOrder
<1>3. UpOnce'
  <2> SUFFICES ASSUME NEW m \in Nat \ {0}
               PROVE  UpPlaces(m)' = Count(m <= arrived.up + 1)
    BY <1>1 DEF UpOnce
  <2>1. UpPlaces(m) = Count(m <= arrived.up)
    BY DEF UpInv, UpOnce
  <2>2. InHand("publish", m)' = InHand("publish", m)
    BY <1>0 DEF InHand, At
  <2> DEFINE o == Occurrences(m, DB!Held(up_buffer)) + InHand("publish", m)
                  + Occurrences(m, published) + Count(m \in lost.up)
  <2>3. o \in Nat /\ UpPlaces(m) = o
    <3>1. Count(read_thread = "put" /\ m = arrived.up) = 0
      BY <1>1 DEF Count
    <3> QED BY <3>1, UpParts, Counts DEF UpPlaces
  <2>4. UpPlaces(m)' = Count(m = arrived.up + 1) + o
    <3>1. Count(read_thread' = "put" /\ m = arrived'.up) = Count(m = arrived.up + 1)
      BY <1>1 DEF Count
    <3> QED BY <1>0, <2>2, <3>1, UpParts, Counts DEF UpPlaces
  <2> HIDE DEF o
  <2> QED BY <1>1, <2>1, <2>3, <2>4 DEF Count
<1>4. UpServed'
  <2>1. Pending("send", read_thread = "task")' = Pending("send", read_thread = "task")
    BY <1>0, <1>1 DEF Pending, At, Count
  <2> QED BY <1>0, <2>1 DEF UpInv, UpServed, Served
<1> QED BY <1>2, <1>3, <1>4 DEF UpInv

(* It is stored behind the others, with a task to follow. *)
LEMMA StoredUp ==
  ASSUME TypeOK, UpInv, PutFrame, DB!HasRoom(up_buffer, arrived.up)
  PROVE  UpInv'
<1> DEFINE n == arrived.up
           h == DB!Held(up_buffer)
<1>0. /\ UNCHANGED <<mq_fd, mq, worker, arrived, published, lost>>
      /\ read_thread = "put" /\ read_thread' = "task"
      /\ up_buffer' = DB!Put(up_buffer, n)
  BY DEF PutFrame
<1>1. n \in 1..MaxUp /\ n \in Nat \ {0} /\ Length[n] \in Nat
  BY <1>0, Lengths DEF UpInv, UpInOrder, TypeOK
<1>2. h \in Seq(1..MaxUp) /\ Len(h) \in Nat
  BY UpParts
<1>3. /\ DB!Held(up_buffer)' = Append(h, n)
      /\ DB!Wedged(DB!Turned(up_buffer)) => DB!Wedged(DB!Turned(up_buffer))'
  BY <1>0, <1>1, PutBuffer, UpParts
<1> HIDE DEF h
<1>4. UpInOrder'
  <2>1. InOrder(h, UpLeft, n, TRUE)
    BY <1>0 DEF UpInv, UpInOrder, UpLeft, h
  <2>2. InOrder(Append(h, n), UpLeft, n, FALSE)
    BY <1>1, <1>2, <2>1, UpParts, OrderPut
  <2>3. UpLeft' = UpLeft
    BY <1>0 DEF UpLeft, InHands, At
  <2> QED BY <1>0, <1>3, <2>2, <2>3 DEF UpInOrder, UpLeft, InOrder
<1>5. UpOnce'
  <2> SUFFICES ASSUME NEW m \in Nat \ {0}
               PROVE  UpPlaces(m)' = UpPlaces(m)
    BY <1>0 DEF UpInv, UpOnce
  <2> DEFINE o == InHand("publish", m) + Occurrences(m, published) + Count(m \in lost.up)
  <2>1. o \in Nat /\ Occurrences(m, h) \in Nat
    BY UpParts, Counts DEF h
  <2>2. UpPlaces(m) = Count(n = m) + Occurrences(m, h) + o
    <3>1. Count(read_thread = "put" /\ m = arrived.up) = Count(n = m)
      BY <1>0 DEF Count
    <3> QED BY <3>1, UpParts, Counts DEF UpPlaces, h
  <2>3. UpPlaces(m)' = Occurrences(m, Append(h, n)) + o
    <3>1. Count((read_thread = "put" /\ m = arrived.up)') = 0
      BY <1>0 DEF Count
    <3>2. InHand("publish", m)' = InHand("publish", m)
      BY <1>0 DEF InHand, At
    <3>3. Occurrences(m, Append(h, n)) \in Nat
      <4>1. Append(h, n) \in Seq(1..MaxUp)
        BY <1>1, <1>2, AppendProperties
      <4> QED BY <4>1, OccurrencesType
    <3>4. UpPlaces(m)' = 0 + Occurrences(m, Append(h, n)) + InHand("publish", m)
                         + Occurrences(m, published) + Count(m \in lost.up)
      BY <1>0, <1>3, <3>1, <3>2 DEF UpPlaces
    <3> QED BY <3>3, <3>4, UpParts, Counts
  <2>4. Occurrences(m, Append(h, n)) = Occurrences(m, h) + Count(n = m)
    <3> DEFINE S == 1..MaxUp
    <3>1. h \in Seq(S) /\ n \in S
      BY <1>1, <1>2
    <3> HIDE DEF S, n
    <3> QED BY <3>1, OccurrencesAppend
  <2> HIDE DEF o
  <2> QED BY <2>1, <2>2, <2>3, <2>4, Counts
<1>6. UpServed'
  <2>1. Pending("send", read_thread = "task")' = Pending("send", read_thread = "task") + 1
    <3>1. /\ Pending("send", read_thread = "task") = Occurrences("send", mq) + Cardinality(At("send"))
          /\ Pending("send", read_thread = "task")' = Occurrences("send", mq) + Cardinality(At("send")) + 1
      BY <1>0, UpParts DEF Pending, At, Count
    <3> QED BY <3>1
  <2>2. Len(DB!Held(up_buffer)') = Len(h) + 1
    BY <1>1, <1>2, <1>3, AppendProperties
  <2>3. Pending("send", read_thread = "task") \in Nat
    BY UpParts, Counts DEF Pending
  <2> QED BY <1>0, <1>2, <1>3, <2>1, <2>2, <2>3 DEF UpInv, UpServed, Served, h
<1> QED BY <1>4, <1>5, <1>6 DEF UpInv

(* There is no room for it, and it is lost. *)
LEMMA NoRoomUp ==
  ASSUME TypeOK, UpInv, PutFrame, ~DB!HasRoom(up_buffer, arrived.up)
  PROVE  UpInv'
<1> DEFINE n == arrived.up
<1>0. /\ UNCHANGED <<mq_fd, up_buffer, mq, worker, arrived, published>>
      /\ read_thread = "put" /\ read_thread' # "put"
  BY DEF PutFrame
<1>1. n \in Nat \ {0}
  BY <1>0, UpParts DEF UpInv, UpInOrder
<1>2. lost'.up = lost.up \cup {n}
  BY <1>1, Losing DEF PutFrame
<1>3. UpInOrder'
  <2>1. InOrder(DB!Held(up_buffer), UpLeft, n, FALSE)
    BY <1>0 DEF UpInv, UpInOrder, UpLeft, InOrder
  <2>2. UpLeft' = UpLeft
    BY <1>0 DEF UpLeft, InHands, At
  <2> QED BY <1>0, <2>1, <2>2 DEF UpInOrder, UpLeft, InOrder
<1>4. UpOnce'
  <2> SUFFICES ASSUME NEW m \in Nat \ {0}
               PROVE  UpPlaces(m)' = UpPlaces(m)
    BY <1>0 DEF UpInv, UpOnce
  <2> DEFINE o == Occurrences(m, DB!Held(up_buffer)) + InHand("publish", m) + Occurrences(m, published)
  <2>1. o \in Nat
    BY UpParts
  <2>2. UpPlaces(m) = Count(n = m) + o + Count(m \in lost.up)
    <3>1. Count(read_thread = "put" /\ m = arrived.up) = Count(n = m)
      BY <1>0 DEF Count
    <3> QED BY <3>1, UpParts, Counts DEF UpPlaces
  <2>3. UpPlaces(m)' = o + Count(m \in lost'.up)
    <3>1. Count((read_thread = "put" /\ m = arrived.up)') = 0
      BY <1>0 DEF Count
    <3>2. InHand("publish", m)' = InHand("publish", m)
      BY <1>0 DEF InHand, At
    <3> QED BY <1>0, <3>1, <3>2, UpParts, Counts DEF UpPlaces
  <2>4. m = n => UpPlaces(m) = 1
    BY <1>1 DEF UpInv, UpOnce, Count
  <2> HIDE DEF o
  <2> QED BY <1>1, <1>2, <2>1, <2>2, <2>3, <2>4 DEF Count
<1>5. UpServed'
  <2>1. Pending("send", read_thread = "task")' >= Pending("send", read_thread = "task")
    <3>1. /\ Pending("send", read_thread = "task") = Occurrences("send", mq) + Cardinality(At("send"))
          /\ Pending("send", read_thread = "task")'
               = Occurrences("send", mq) + Cardinality(At("send")) + Count((read_thread = "task")')
      BY <1>0, UpParts DEF Pending, At, Count
    <3> QED BY <3>1, UpParts, Counts
  <2>2. Pending("send", read_thread = "task") \in Nat /\ Pending("send", read_thread = "task")' \in Nat
    <3>1. Pending("send", read_thread = "task")'
            = Occurrences("send", mq) + Cardinality(At("send")) + Count((read_thread = "task")')
      BY <1>0 DEF Pending, At
    <3> QED BY <3>1, UpParts, Counts DEF Pending
  <2> QED BY <1>0, <2>1, <2>2, UpParts DEF UpInv, UpServed, Served
<1> QED BY <1>3, <1>4, <1>5 DEF UpInv

(* Its task is queued, and as many tasks are due as before; or there is no   *)
(* queue.                                                                    *)
LEMMA SubmitsUp ==
  ASSUME TypeOK, UpInv, SubmitSend
  PROVE  UpInv'
<1>0. /\ UNCHANGED <<mq_fd, up_buffer, arrived, worker, published, lost>>
      /\ read_thread = "task" /\ read_thread' # "put" /\ read_thread' # "task"
      /\ mq_fd = "open" => mq' = Append(mq, "send")
      /\ mq \in Seq({"send", "write"})
  BY DEF SubmitSend, AddTask, TypeOK
<1>1. mq_fd = "open" => Occurrences("send", mq)' = Occurrences("send", mq) + 1
  <2>1. Occurrences("send", Append(mq, "send")) = Occurrences("send", mq) + Count("send" = "send")
    BY <1>0, OccurrencesAppend
  <2> QED BY <1>0, <2>1 DEF Count
<1>2. mq_fd = "open" => Pending("send", read_thread = "task")' = Pending("send", read_thread = "task")
  <2>1. /\ Pending("send", read_thread = "task") = Occurrences("send", mq) + Cardinality(At("send")) + 1
        /\ Pending("send", read_thread = "task")' = Occurrences("send", mq)' + Cardinality(At("send")) + 0
    BY <1>0 DEF Pending, At, Count
  <2> QED BY <1>1, <2>1, UpParts
<1>3. /\ \A m : InHand("publish", m)' = InHand("publish", m)
      /\ InHands("publish")' = InHands("publish")
  BY <1>0 DEF InHand, InHands, At
<1> QED BY <1>0, <1>2, <1>3, UpFrame DEF UpInv

(* A worker receives a task: one for the frames is still due. *)
LEMMA ReceivesUp ==
  ASSUME TypeOK, UpInv, NEW w \in Workers, Receive(w)
  PROVE  UpInv'
<1> DEFINE r == [worker[w] EXCEPT !.at = Head(mq)]
<1>0. /\ UNCHANGED <<mq_fd, up_buffer, read_thread, arrived, published, lost>>
      /\ worker[w].at = "receive" /\ worker' = [worker EXCEPT ![w] = r]
      /\ mq # <<>> /\ mq' = Tail(mq) /\ mq \in Seq({"send", "write"})
  BY DEF Receive, TypeOK
<1>1. Head(mq) \in {"send", "write"} /\ r.at = Head(mq)
  <2>1. Head(mq) \in {"send", "write"}
    BY <1>0, HeadTailProperties
  <2>2. worker[w] \in Jobs
    BY DEF TypeOK, Jobs, Steps
  <2> QED BY <2>1, <2>2 DEF Jobs, Steps
<1>2. Occurrences("send", mq)' = Occurrences("send", mq) - Count(Head(mq) = "send")
  BY <1>0, OccurrencesTail
<1> HIDE DEF r
<1>4. /\ Cardinality(At("send"))' = Cardinality(At("send"))
           - Count(worker[w].at = "send") + Count(r.at = "send")
      /\ \A m : /\ InHand("publish", m) \in Nat
                /\ InHand("publish", m)' = InHand("publish", m)
                     - Count(worker[w].at = "publish" /\ worker[w].msg = m)
                     + Count(r.at = "publish" /\ r.msg = m)
      /\ \A m \in InHands("publish")' : m \in InHands("publish") \/ (r.at = "publish" /\ m = r.msg)
  BY <1>0, UpMoves, ZenonT(40) DEF Count
<1>5. Pending("send", read_thread = "task")' = Pending("send", read_thread = "task")
  <2>1. Count(worker[w].at = "send") = 0 /\ Count(r.at = "send") = Count(Head(mq) = "send")
    BY <1>0, <1>1 DEF Count
  <2>2. Cardinality(At("send"))' = Cardinality(At("send")) + Count(Head(mq) = "send")
    BY <1>4, <2>1, UpParts, Counts
  <2>3. Pending("send", read_thread = "task")'
          = Occurrences("send", mq)' + Cardinality(At("send"))' + Count(read_thread = "task")
    BY <1>0 DEF Pending
  <2> QED BY <1>2, <2>2, <2>3, UpParts, Counts DEF Pending
<1>6. /\ \A m : InHand("publish", m)' = InHand("publish", m)
      /\ \A m \in InHands("publish")' : m \in InHands("publish")
  BY <1>0, <1>1, <1>4 DEF Count
<1> QED BY <1>0, <1>5, <1>6, UpFrame DEF UpInv

(* A task finds nothing it can take. *)
LEMMA FailsUp ==
  ASSUME TypeOK, UpInv, NEW w \in Workers, SendRead(w), ~DB!Readable(up_buffer)
  PROVE  UpInv'
<1>0. /\ UNCHANGED <<mq_fd, mq, read_thread, arrived, published, lost>>
      /\ worker[w].at = "send" /\ worker' = [worker EXCEPT ![w] = Idle]
      /\ up_buffer' = DB!Turned(up_buffer)
  BY DEF SendRead
<1>2. Idle.at = "receive"
  BY DEF Idle
<1>3. DB!Held(up_buffer)' = DB!Held(up_buffer)
  BY <1>0, UpParts, TurnedBuffer
<1>4. /\ Cardinality(At("send"))' \in Nat
      /\ \A m : /\ InHand("publish", m) \in Nat
                /\ InHand("publish", m)' = InHand("publish", m)
                     - Count(worker[w].at = "publish" /\ worker[w].msg = m)
                     + Count(Idle.at = "publish" /\ Idle.msg = m)
      /\ \A m \in InHands("publish")' : m \in InHands("publish") \/ (Idle.at = "publish" /\ m = Idle.msg)
  BY <1>0, UpMoves DEF Count
<1>5. /\ \A m : InHand("publish", m)' = InHand("publish", m)
      /\ UpLeft' \in SUBSET UpLeft
  BY <1>0, <1>2, <1>4 DEF Count, UpLeft
<1>6. UpInOrder'
  <2>1. InOrder(DB!Held(up_buffer), UpLeft', arrived.up, read_thread = "put")
    BY <1>5, OrderFewer DEF UpInv, UpInOrder, UpLeft
  <2> QED BY <1>0, <1>3, <2>1 DEF UpInv, UpInOrder, UpLeft
<1>7. UpOnce'
  <2>1. \A m : UpPlaces(m)' = UpPlaces(m)
    BY <1>0, <1>3, <1>5 DEF UpPlaces
  <2> QED BY <1>0, <2>1 DEF UpInv, UpOnce
<1>8. UpServed'
  <2>1. DB!Held(up_buffer) = <<>> \/ DB!Wedged(DB!Turned(up_buffer))'
    BY <1>0, UpParts, NothingToTake
  <2>2. Pending("send", read_thread = "task")' \in Nat
    <3>1. Pending("send", read_thread = "task")'
            = Occurrences("send", mq) + Cardinality(At("send"))' + Count(read_thread = "task")
      BY <1>0 DEF Pending
    <3> QED BY <1>4, <3>1, UpParts, Counts
  <2>3. DB!Held(up_buffer) = <<>> => Len(DB!Held(up_buffer)) = 0
    BY EmptySeq
  <2> QED BY <1>3, <2>1, <2>2, <2>3 DEF UpServed, Served
<1> QED BY <1>6, <1>7, <1>8 DEF UpInv

(* A worker hands its frame on, or it is lost. *)
LEMMA DeliversUp ==
  ASSUME TypeOK, UpInv, NEW w \in Workers, Publish(w)
  PROVE  UpInv'
<1> DEFINE x == worker[w].msg
<1>0. /\ UNCHANGED <<mq_fd, up_buffer, mq, read_thread, arrived>>
      /\ worker[w].at = "publish" /\ worker' = [worker EXCEPT ![w] = Idle]
      /\ x \in Nat /\ published \in Seq(Nat)
  BY DEF Publish, TypeOK, Jobs, Steps
<1>2. Idle.at = "receive"
  BY DEF Idle
<1>3. /\ Cardinality(At("send"))' = Cardinality(At("send"))
           - Count(worker[w].at = "send") + Count(Idle.at = "send")
      /\ \A m : /\ InHand("publish", m) \in Nat /\ InHand("publish", m)' \in Nat
                /\ InHand("publish", m)' = InHand("publish", m)
                     - Count(worker[w].at = "publish" /\ worker[w].msg = m)
                     + Count(Idle.at = "publish" /\ Idle.msg = m)
      /\ \A m \in InHands("publish")' : m \in InHands("publish") \/ (Idle.at = "publish" /\ m = Idle.msg)
      /\ x \in InHands("publish")
  BY <1>0, UpMoves DEF Count
<1> HIDE DEF x
<1>4. \/ published' = Append(published, x) /\ lost'.up = lost.up
      \/ published' = published /\ lost'.up = lost.up \cup {x}
  BY <1>0, Losing DEF Publish, x
<1>5. UpInOrder'
  <2>1. Elements(published') \in SUBSET (Elements(published) \cup {x})
    <3>1. Elements(Append(published, x)) = Elements(published) \cup {x}
      BY <1>0, ElementsAppend
    <3> QED BY <1>4, <3>1
  <2>2. InHands("publish")' \in SUBSET InHands("publish")
    BY <1>2, <1>3
  <2>3. UpLeft' \in SUBSET UpLeft
    BY <1>3, <2>1, <2>2 DEF UpLeft
  <2>4. InOrder(DB!Held(up_buffer), UpLeft', arrived.up, read_thread = "put")
    BY <2>3, OrderFewer DEF UpInv, UpInOrder, UpLeft
  <2> QED BY <1>0, <2>4 DEF UpInv, UpInOrder, UpLeft
<1>6. UpOnce'
  <2> SUFFICES ASSUME NEW m \in Nat \ {0}
               PROVE  UpPlaces(m)' = UpPlaces(m)
    BY <1>0 DEF UpInv, UpOnce
  <2> DEFINE o == Count(read_thread = "put" /\ m = arrived.up) + Occurrences(m, DB!Held(up_buffer))
             a == InHand("publish", m)
             b == InHand("publish", m)'
             c == Occurrences(m, published)
             d == Occurrences(m, published')
  <2>1. o \in Nat /\ a \in Nat /\ b \in Nat /\ c \in Nat
    BY <1>3, UpParts, Counts
  <2>2. b = a - Count(x = m)
    <3>1. /\ Count(worker[w].at = "publish" /\ worker[w].msg = m) = Count(x = m)
          /\ Count(Idle.at = "publish" /\ Idle.msg = m) = 0
      BY <1>0, <1>2 DEF Count, x
    <3>2. b = a - Count(x = m) + 0
      BY <1>3, <3>1
    <3> QED BY <2>1, <3>2, Counts
  <2>3. UpPlaces(m) = o + a + c + Count(m \in lost.up)
    BY DEF UpPlaces
  <2>4. UpPlaces(m)' = o + b + d + Count(m \in lost'.up)
    BY <1>0 DEF UpPlaces
  <2>5. UpPlaces(m) <= 1
    <3>1. UpPlaces(m) = Count(m <= arrived.up)
      BY DEF UpInv, UpOnce
    <3> QED BY <3>1 DEF Count
  <2>6. CASE published' = Append(published, x) /\ lost'.up = lost.up
    <3>1. d = c + Count(x = m)
      BY <1>0, <2>6, OccurrencesAppend
    <3> DEFINE k == Count(x = m)
               l == Count(m \in lost.up)
    <3>2. Count(m \in lost'.up) = l
      BY <2>6
    <3>3. k \in Nat /\ l \in Nat
      BY Counts
    <3> HIDE DEF o, a, b, c, d, k, l
    <3>4. UpPlaces(m) = o + a + c + l /\ UpPlaces(m)' = o + b + d + l
      BY <2>3, <2>4, <3>2 DEF l
    <3>5. b = a - k /\ d = c + k
      BY <2>2, <3>1 DEF k
    <3> QED BY <2>1, <3>3, <3>4, <3>5
  <2>7. CASE published' = published /\ lost'.up = lost.up \cup {x}
    <3>1. d = c
      BY <2>7
    <3> HIDE DEF o, a, b, c, d
    <3> QED BY <2>1, <2>2, <2>3, <2>4, <2>5, <2>7, <3>1 DEF Count
  <2> QED BY <1>4, <2>6, <2>7
<1>7. UpServed'
  <2>1. Cardinality(At("send"))' = Cardinality(At("send"))
    <3>1. Count(worker[w].at = "send") = 0 /\ Count(Idle.at = "send") = 0
      BY <1>0, <1>2 DEF Count
    <3> QED BY <1>3, <3>1, UpParts
  <2>2. Pending("send", read_thread = "task")' = Pending("send", read_thread = "task")
    BY <1>0, <2>1 DEF Pending
  <2> QED BY <1>0, <2>2 DEF UpInv, UpServed, Served
<1> QED BY <1>5, <1>6, <1>7 DEF UpInv

(* A worker takes the oldest frame in hand. *)
LEMMA TakesUp ==
  ASSUME TypeOK, UpInv, NEW w \in Workers, SendRead(w), DB!Readable(up_buffer)
  PROVE  UpInv'
<1> DEFINE x == DB!Oldest(up_buffer)
           h == DB!Held(up_buffer)
           r == [at |-> "publish", msg |-> x]
<1>0. /\ UNCHANGED <<mq_fd, mq, read_thread, arrived, published, lost>>
      /\ worker[w].at = "send" /\ worker' = [worker EXCEPT ![w] = r]
      /\ up_buffer' = DB!Taken(up_buffer)
  BY DEF SendRead
<1>1. r.at = "publish" /\ r.msg = x
  OBVIOUS
<1>2. /\ ~DB!Wedged(DB!Turned(up_buffer))
      /\ h # <<>> /\ x = Head(h) /\ DB!Held(up_buffer)' = Tail(h)
  BY <1>0, TakenBuffer, UpParts, Lengths
<1>3. h \in Seq(1..MaxUp) /\ Len(h) \in Nat
  BY UpParts
<1> HIDE DEF r, x, h
<1>4. /\ Cardinality(At("send"))' = Cardinality(At("send"))
           - Count(worker[w].at = "send") + Count(r.at = "send")
      /\ \A m : /\ InHand("publish", m) \in Nat
                /\ InHand("publish", m)' = InHand("publish", m)
                     - Count(worker[w].at = "publish" /\ worker[w].msg = m)
                     + Count(r.at = "publish" /\ r.msg = m)
      /\ \A m \in InHands("publish")' : m \in InHands("publish") \/ (r.at = "publish" /\ m = r.msg)
  BY <1>0, UpMoves DEF Count
<1>5. UpInOrder'
  <2>1. \A m \in UpLeft' : m \in UpLeft \/ m = Head(h)
    BY <1>0, <1>1, <1>2, <1>4 DEF UpLeft
  <2>2. InOrder(h, UpLeft, arrived.up, read_thread = "put")
    BY DEF UpInv, UpInOrder, UpLeft, h
  <2>3. InOrder(Tail(h), UpLeft', arrived.up, read_thread = "put")
    BY <1>2, <1>3, <2>1, <2>2, OrderTake DEF InOrder
  <2> QED BY <1>0, <1>2, <2>3 DEF UpInv, UpInOrder, UpLeft
<1>6. UpOnce'
  <2> SUFFICES ASSUME NEW m \in Nat \ {0}
               PROVE  UpPlaces(m)' = UpPlaces(m)
    BY <1>0 DEF UpInv, UpOnce
  <2> DEFINE o == Occurrences(m, published) + Count(m \in lost.up)
             p == Count(read_thread = "put" /\ m = arrived.up)
             a == InHand("publish", m)
             b == InHand("publish", m)'
  <2>1. o \in Nat /\ p \in Nat /\ a \in Nat /\ Occurrences(m, h) \in Nat
    BY UpParts, Counts DEF h
  <2>2. b = a + Count(x = m)
    <3>1. /\ Count(worker[w].at = "publish" /\ worker[w].msg = m) = 0
          /\ Count(r.at = "publish" /\ r.msg = m) = Count(x = m)
      BY <1>0, <1>1 DEF Count
    <3>2. b = a - 0 + Count(x = m)
      BY <1>4, <3>1
    <3> QED BY <2>1, <3>2, Counts
  <2>3. UpPlaces(m) = p + Occurrences(m, h) + a + o
    <3>1. UpPlaces(m) = p + Occurrences(m, h) + a + Occurrences(m, published) + Count(m \in lost.up)
      BY DEF UpPlaces, h
    <3> QED BY <2>1, <3>1, UpParts, Counts
  <2>4. UpPlaces(m)' = p + Occurrences(m, Tail(h)) + b + o
    <3>1. UpPlaces(m)' = p + Occurrences(m, Tail(h)) + b + Occurrences(m, published) + Count(m \in lost.up)
      BY <1>0, <1>2 DEF UpPlaces
    <3>2. Tail(h) \in Seq(1..MaxUp)
      BY <1>2, <1>3, HeadTailProperties
    <3>3. Occurrences(m, Tail(h)) \in Nat
      BY <3>2, OccurrencesType
    <3>4. b \in Nat
      BY <2>1, <2>2, Counts
    <3> HIDE DEF p, b
    <3> QED BY <2>1, <3>1, <3>3, <3>4, UpParts, Counts
  <2>5. Occurrences(m, Tail(h)) = Occurrences(m, h) - Count(x = m)
    <3>1. Occurrences(m, Tail(h)) = Occurrences(m, h) - Count(Head(h) = m)
      BY <1>2, <1>3, OccurrencesTail
    <3> QED BY <1>2, <3>1
  <2> HIDE DEF o, p, a, b
  <2> QED BY <2>1, <2>2, <2>3, <2>4, <2>5, Counts
<1>7. UpServed'
  <2>1. Cardinality(At("send"))' = Cardinality(At("send")) - 1
    <3>1. Count(worker[w].at = "send") = 1 /\ Count(r.at = "send") = 0
      BY <1>0, <1>1 DEF Count
    <3> QED BY <1>4, <3>1, UpParts
  <2>2. Pending("send", read_thread = "task")' = Pending("send", read_thread = "task") - 1
    <3>1. Pending("send", read_thread = "task")'
            = Occurrences("send", mq) + (Cardinality(At("send")) - 1) + Count(read_thread = "task")
      BY <1>0, <2>1 DEF Pending
    <3> QED BY <3>1, UpParts, Counts DEF Pending
  <2>3. Len(DB!Held(up_buffer)') = Len(h) - 1
    BY <1>2, <1>3, HeadTailProperties
  <2>4. mq_fd = "open" => Len(h) <= Pending("send", read_thread = "task")
    BY <1>2 DEF UpInv, UpServed, Served, h
  <2>5. Pending("send", read_thread = "task") \in Nat
    BY UpParts, Counts DEF Pending
  <2> QED BY <1>0, <1>3, <2>2, <2>3, <2>4, <2>5 DEF UpServed, Served
<1> QED BY <1>5, <1>6, <1>7 DEF UpInv

(* A worker goes on with what is not about the frames.                      *)
LEMMA UpApart ==
  ASSUME TypeOK, NEW w \in Workers, NEW r, worker' = [worker EXCEPT ![w] = r],
         worker[w].at \notin {"send", "publish"}, r.at \notin {"send", "publish"}
  PROVE  /\ Cardinality(At("send"))' = Cardinality(At("send"))
         /\ \A m : InHand("publish", m)' = InHand("publish", m)
         /\ \A m \in InHands("publish")' : m \in InHands("publish")
<1>1. worker'[w] = r /\ \A v \in Workers : v # w => worker'[v] = worker[v]
  BY DEF TypeOK
<1>2. At("send")' = At("send") /\ At("publish")' = At("publish")
  BY <1>1 DEF At
<1>3. \A v \in At("publish") : worker'[v] = worker[v]
  BY <1>1 DEF At
<1>4. ASSUME NEW m
      PROVE  InHand("publish", m)' = InHand("publish", m)
  <2>1. {v \in At("publish") : worker[v].msg = m}' = {v \in At("publish") : worker[v].msg = m}
    BY <1>2, <1>3
  <2> QED BY <2>1 DEF InHand
<1>5. InHands("publish")' = InHands("publish")
  BY <1>2, <1>3 DEF InHands
<1> QED BY <1>2, <1>4, <1>5

(* What the other direction and the connection do leaves the frames alone.  *)
LEMMA BesideUp ==
  ASSUME TypeOK, UpInv,
         \/ CommandArrives \/ PutCommand \/ SubmitWrite \/ ConnectionChanges \/ UNCHANGED vars
         \/ \E w \in Workers : WriteRead(w) \/ WriteSerial(w)
  PROVE  UpInv'
<1>1. /\ UNCHANGED <<mq_fd, up_buffer, read_thread, published>>
      /\ arrived'.up = arrived.up
  BY DEF CommandArrives, PutCommand, SubmitWrite, ConnectionChanges, vars, WriteRead, WriteSerial, TypeOK
<1>2. lost'.up = lost.up
  BY DEF CommandArrives, PutCommand, SubmitWrite, ConnectionChanges, vars, WriteRead, WriteSerial, TypeOK
<1>3. Occurrences("send", mq)' = Occurrences("send", mq)
  <2>1. CASE mq' = mq
    BY <2>1
  <2>2. CASE mq' = Append(mq, "write")
    <3>1. mq \in Seq({"send", "write"})
      BY DEF TypeOK
    <3>2. Occurrences("send", Append(mq, "write"))
            = Occurrences("send", mq) + Count("write" = "send")
      BY <3>1, OccurrencesAppend
    <3>3. Count("write" = "send") = 0
      BY DEF Count
    <3> QED BY <2>2, <3>2, <3>3, UpParts
  <2> QED
    BY <2>1, <2>2 DEF CommandArrives, PutCommand, SubmitWrite, AddTask, ConnectionChanges, vars, WriteRead, WriteSerial
<1>4. /\ Cardinality(At("send"))' = Cardinality(At("send"))
      /\ \A m : InHand("publish", m)' = InHand("publish", m)
      /\ \A m \in InHands("publish")' : m \in InHands("publish")
  <2>1. CASE worker' = worker
    BY <2>1 DEF At, InHand, InHands
  <2>3. CASE \E w \in Workers : WriteRead(w) \/ WriteSerial(w)
    <3> PICK w \in Workers : WriteRead(w) \/ WriteSerial(w)
      BY <2>3
    <3>1. worker[w].at \notin {"send", "publish"}
      BY DEF WriteRead, WriteSerial
    <3>2. \/ worker' = [worker EXCEPT ![w] = Idle]
          \/ worker' = [worker EXCEPT ![w] = [at |-> "serial", msg |-> DB!Oldest(down_buffer)]]
      BY DEF WriteRead, WriteSerial
    <3>3. /\ Idle.at = "receive"
          /\ [at |-> "serial", msg |-> DB!Oldest(down_buffer)].at = "serial"
      BY DEF Idle
    <3>4. CASE worker' = [worker EXCEPT ![w] = Idle]
      BY <3>1, <3>3, <3>4, UpApart
    <3>5. CASE worker' = [worker EXCEPT ![w] = [at |-> "serial", msg |-> DB!Oldest(down_buffer)]]
      BY <3>1, <3>3, <3>5, UpApart
    <3> QED BY <3>2, <3>4, <3>5
  <2> QED
    BY <2>1, <2>3 DEF CommandArrives, PutCommand, SubmitWrite, ConnectionChanges, vars
<1>5. Pending("send", read_thread = "task")' = Pending("send", read_thread = "task")
  BY <1>1, <1>3, <1>4 DEF Pending
<1> QED BY <1>1, <1>2, <1>4, <1>5, UpFrame DEF UpInv

------------------------------------------------------------------------------
(* The commands on their way down *)

DownLeft == Elements(written) \cup InHands("serial")

LEMMA DownParts ==
  ASSUME TypeOK
  PROVE  /\ down_buffer \in BuffersOf(MaxDown) /\ DB!Held(down_buffer) \in Seq(1..MaxDown)
         /\ Len(DB!Held(down_buffer)) \in Nat
         /\ arrived.down \in Nat /\ written \in Seq(Nat)
         /\ DownLeft \in SUBSET Nat
         /\ \A m : Occurrences(m, DB!Held(down_buffer)) \in Nat /\ Occurrences(m, written) \in Nat
         /\ \A m : InHand("serial", m) \in Nat
         /\ Occurrences("write", mq) \in Nat /\ Cardinality(At("write")) \in Nat
<1>1. down_buffer \in BuffersOf(MaxDown) /\ arrived.down \in Nat
  BY Lengths DEF TypeOK
<1>2. written \in Seq(Nat) /\ mq \in Seq({"send", "write"})
  BY DEF TypeOK
<1>3. DB!Held(down_buffer) \in Seq(1..MaxDown) /\ Len(DB!Held(down_buffer)) \in Nat
  BY <1>1, HeldType
<1>4. Elements(written) \in SUBSET Nat
  BY <1>2, LenProperties, ElementOfSeq DEF Elements
<1>5. InHands("serial") \in SUBSET Nat
  BY DEF TypeOK, InHands, At, Jobs, Steps
<1>6. \A m : Occurrences(m, DB!Held(down_buffer)) \in Nat
  BY <1>3, OccurrencesType
<1>7. \A m : Occurrences(m, written) \in Nat
  BY <1>2, OccurrencesType
<1>8. Occurrences("write", mq) \in Nat
  BY <1>2, OccurrencesType
<1>9. /\ \A m : InHand("serial", m) \in Nat
      /\ Cardinality(At("write")) \in Nat
  BY DeviceAssumption, FS_Subset, FS_CardinalityType DEF InHand, At
<1> QED BY <1>1, <1>2, <1>3, <1>4, <1>5, <1>6, <1>7, <1>8, <1>9 DEF DownLeft

(* A step that moves no command and takes no task from those that are due.    *)
LEMMA DownFrame ==
  ASSUME UNCHANGED <<mq_fd, down_buffer, written>>, arrived'.down = arrived.down, lost'.down = lost.down,
         (callback = "put")' <=> callback = "put",
         \A m \in InHands("serial")' : m \in InHands("serial"),
         \A m : InHand("serial", m)' = InHand("serial", m),
         mq_fd = "open" => Pending("write", callback = "task")' = Pending("write", callback = "task")
  PROVE  /\ DownInOrder => DownInOrder'
         /\ DownOnce => DownOnce'
         /\ DownServed => DownServed'
<1>1. ASSUME DownInOrder PROVE DownInOrder'
  <2>1. InOrder(DB!Held(down_buffer), Elements(written) \cup InHands("serial")', arrived.down,
                callback = "put")
    BY <1>1, OrderFewer DEF DownInOrder
  <2> QED BY <1>1, <2>1 DEF DownInOrder
<1>2. ASSUME DownOnce PROVE DownOnce'
  <2>1. \A m : DownPlaces(m)' = DownPlaces(m)
    BY DEF DownPlaces, Count
  <2> QED BY <1>2, <2>1 DEF DownOnce
<1>3. ASSUME DownServed PROVE DownServed'
  BY <1>3 DEF DownServed, Served
<1> QED BY <1>1, <1>2, <1>3

(* A worker goes on: what that means for the tasks and commands in hand.      *)
LEMMA DownMoves ==
  ASSUME TypeOK, NEW w \in Workers, NEW r, worker' = [worker EXCEPT ![w] = r]
  PROVE  /\ Cardinality(At("write"))' \in Nat
         /\ Cardinality(At("write"))' = Cardinality(At("write"))
              - Count(worker[w].at = "write") + Count(r.at = "write")
         /\ \A m : /\ InHand("serial", m) \in Nat /\ InHand("serial", m)' \in Nat
                   /\ InHand("serial", m)' = InHand("serial", m)
                        - Count(worker[w].at = "serial" /\ worker[w].msg = m)
                        + Count(r.at = "serial" /\ r.msg = m)
         /\ \A m \in InHands("serial")' : m \in InHands("serial") \/ (r.at = "serial" /\ m = r.msg)
         /\ worker[w].at = "serial" => worker[w].msg \in InHands("serial")
<1>1. worker'[w] = r /\ \A v \in Workers : v # w => worker'[v] = worker[v]
  BY DEF TypeOK
<1>2. /\ Cardinality(At("write"))' \in Nat
      /\ Cardinality(At("write"))' = Cardinality(At("write"))
           - Count(worker[w].at = "write") + Count(r.at = "write")
  <2> DEFINE A == {v \in Workers : worker[v].at = "write"}
             B == {v \in Workers : worker'[v].at = "write"}
  <2>1. /\ \A v \in Workers : v # w => (v \in A <=> v \in B)
        /\ w \in A <=> worker[w].at = "write"
        /\ w \in B <=> r.at = "write"
        /\ At("write") = A /\ At("write")' = B
    BY <1>1 DEF At
  <2> HIDE DEF A, B
  <2>2. A \in SUBSET Workers /\ B \in SUBSET Workers
    BY DEF A, B
  <2>3. Cardinality(B) \in Nat /\ Cardinality(B) = Cardinality(A) - Count(w \in A) + Count(w \in B)
    BY <2>1, <2>2, OneWorker
  <2> QED BY <2>1, <2>3 DEF Count
<1>3. ASSUME NEW m
      PROVE  /\ InHand("serial", m) \in Nat /\ InHand("serial", m)' \in Nat
             /\ InHand("serial", m)' = InHand("serial", m)
                  - Count(worker[w].at = "serial" /\ worker[w].msg = m)
                  + Count(r.at = "serial" /\ r.msg = m)
  <2> DEFINE A == {v \in At("serial") : worker[v].msg = m}
             B == {v \in Workers : worker'[v].at = "serial" /\ worker'[v].msg = m}
  <2>1. /\ \A v \in Workers : v # w => (v \in A <=> v \in B)
        /\ w \in A <=> worker[w].at = "serial" /\ worker[w].msg = m
        /\ w \in B <=> r.at = "serial" /\ r.msg = m
        /\ {v \in At("serial") : worker[v].msg = m}' = B
    BY <1>1 DEF At
  <2>2. InHand("serial", m) = Cardinality(A) /\ InHand("serial", m)' = Cardinality(B)
    BY <2>1 DEF InHand
  <2>3. A \in SUBSET Workers /\ B \in SUBSET Workers
    BY DEF At
  <2> HIDE DEF A, B
  <2>4. /\ Cardinality(A) \in Nat /\ Cardinality(B) \in Nat
        /\ Cardinality(B) = Cardinality(A) - Count(w \in A) + Count(w \in B)
    BY <2>1, <2>3, OneWorker
  <2>5. /\ Count(w \in A) = Count(worker[w].at = "serial" /\ worker[w].msg = m)
        /\ Count(w \in B) = Count(r.at = "serial" /\ r.msg = m)
    BY <2>1 DEF Count
  <2> QED BY <2>2, <2>4, <2>5
<1>4. \A m \in InHands("serial")' : m \in InHands("serial") \/ (r.at = "serial" /\ m = r.msg)
  BY <1>1 DEF InHands, At
<1>5. worker[w].at = "serial" => worker[w].msg \in InHands("serial")
  BY DEF InHands, At
<1> QED BY <1>2, <1>3, <1>4, <1>5

(* The parts of the invariant that are about the commands. *)
DownInv == DownInOrder /\ DownOnce /\ DownServed

(* A command arrives. *)
LEMMA ArrivesDown ==
  ASSUME TypeOK, DownInv, CommandArrives
  PROVE  DownInv'
<1>0. UNCHANGED <<mq_fd, down_buffer, mq, worker, written, lost>>
  BY DEF CommandArrives
<1>1. /\ callback = "idle" /\ callback' = "put"
      /\ arrived'.down = arrived.down + 1 /\ arrived.down \in Nat
  BY DownParts DEF CommandArrives, TypeOK
<1>2. DownInOrder'
  <2>1. InOrder(DB!Held(down_buffer), DownLeft, arrived.down, FALSE)
    BY <1>1 DEF DownInv, DownInOrder, DownLeft
  <2>2. InOrder(DB!Held(down_buffer), DownLeft, arrived.down + 1, TRUE)
    BY <1>1, <2>1, DownParts, OrderArrives
  <2>3. DownLeft' = DownLeft
    BY <1>0 DEF DownLeft, InHands, At
  <2> QED BY <1>0, <1>1, <2>2, <2>3 DEF DownInOrder, DownLeft, InOrder
<1>3. DownOnce'
  <2> SUFFICES ASSUME NEW m \in Nat \ {0}
               PROVE  DownPlaces(m)' = Count(m <= arrived.down + 1)
    BY <1>1 DEF DownOnce
  <2>1. DownPlaces(m) = Count(m <= arrived.down)
    BY DEF DownInv, DownOnce
  <2>2. InHand("serial", m)' = InHand("serial", m)
    BY <1>0 DEF InHand, At
  <2> DEFINE o == Occurrences(m, DB!Held(down_buffer)) + InHand("serial", m)
                  + Occurrences(m, written) + Count(m \in lost.down)
  <2>3. o \in Nat /\ DownPlaces(m) = o
    <3>1. Count(callback = "put" /\ m = arrived.down) = 0
      BY <1>1 DEF Count
    <3> QED BY <3>1, DownParts, Counts DEF DownPlaces
  <2>4. DownPlaces(m)' = Count(m = arrived.down + 1) + o
    <3>1. Count(callback' = "put" /\ m = arrived'.down) = Count(m = arrived.down + 1)
      BY <1>1 DEF Count
    <3> QED BY <1>0, <2>2, <3>1, DownParts, Counts DEF DownPlaces
  <2> HIDE DEF o
  <2> QED BY <1>1, <2>1, <2>3, <2>4 DEF Count
<1>4. DownServed'
  <2>1. Pending("write", callback = "task")' = Pending("write", callback = "task")
    BY <1>0, <1>1 DEF Pending, At, Count
  <2> QED BY <1>0, <2>1 DEF DownInv, DownServed, Served
<1> QED BY <1>2, <1>3, <1>4 DEF DownInv

(* It is stored behind the others, with a task to follow. *)
LEMMA StoredDown ==
  ASSUME TypeOK, DownInv, PutCommand, DB!HasRoom(down_buffer, arrived.down)
  PROVE  DownInv'
<1> DEFINE n == arrived.down
           h == DB!Held(down_buffer)
<1>0. /\ UNCHANGED <<mq_fd, mq, worker, arrived, written, lost>>
      /\ callback = "put" /\ callback' = "task"
      /\ down_buffer' = DB!Put(down_buffer, n)
  BY DEF PutCommand
<1>1. n \in 1..MaxDown /\ n \in Nat \ {0} /\ Length[n] \in Nat
  BY <1>0, Lengths DEF DownInv, DownInOrder, TypeOK
<1>2. h \in Seq(1..MaxDown) /\ Len(h) \in Nat
  BY DownParts
<1>3. /\ DB!Held(down_buffer)' = Append(h, n)
      /\ DB!Wedged(DB!Turned(down_buffer)) => DB!Wedged(DB!Turned(down_buffer))'
  BY <1>0, <1>1, PutBuffer, DownParts
<1> HIDE DEF h
<1>4. DownInOrder'
  <2>1. InOrder(h, DownLeft, n, TRUE)
    BY <1>0 DEF DownInv, DownInOrder, DownLeft, h
  <2>2. InOrder(Append(h, n), DownLeft, n, FALSE)
    BY <1>1, <1>2, <2>1, DownParts, OrderPut
  <2>3. DownLeft' = DownLeft
    BY <1>0 DEF DownLeft, InHands, At
  <2> QED BY <1>0, <1>3, <2>2, <2>3 DEF DownInOrder, DownLeft, InOrder
<1>5. DownOnce'
  <2> SUFFICES ASSUME NEW m \in Nat \ {0}
               PROVE  DownPlaces(m)' = DownPlaces(m)
    BY <1>0 DEF DownInv, DownOnce
  <2> DEFINE o == InHand("serial", m) + Occurrences(m, written) + Count(m \in lost.down)
  <2>1. o \in Nat /\ Occurrences(m, h) \in Nat
    BY DownParts, Counts DEF h
  <2>2. DownPlaces(m) = Count(n = m) + Occurrences(m, h) + o
    <3>1. Count(callback = "put" /\ m = arrived.down) = Count(n = m)
      BY <1>0 DEF Count
    <3> QED BY <3>1, DownParts, Counts DEF DownPlaces, h
  <2>3. DownPlaces(m)' = Occurrences(m, Append(h, n)) + o
    <3>1. Count((callback = "put" /\ m = arrived.down)') = 0
      BY <1>0 DEF Count
    <3>2. InHand("serial", m)' = InHand("serial", m)
      BY <1>0 DEF InHand, At
    <3>3. Occurrences(m, Append(h, n)) \in Nat
      <4>1. Append(h, n) \in Seq(1..MaxDown)
        BY <1>1, <1>2, AppendProperties
      <4> QED BY <4>1, OccurrencesType
    <3>4. DownPlaces(m)' = 0 + Occurrences(m, Append(h, n)) + InHand("serial", m)
                         + Occurrences(m, written) + Count(m \in lost.down)
      BY <1>0, <1>3, <3>1, <3>2 DEF DownPlaces
    <3> QED BY <3>3, <3>4, DownParts, Counts
  <2>4. Occurrences(m, Append(h, n)) = Occurrences(m, h) + Count(n = m)
    <3> DEFINE S == 1..MaxDown
    <3>1. h \in Seq(S) /\ n \in S
      BY <1>1, <1>2
    <3> HIDE DEF S, n
    <3> QED BY <3>1, OccurrencesAppend
  <2> HIDE DEF o
  <2> QED BY <2>1, <2>2, <2>3, <2>4, Counts
<1>6. DownServed'
  <2>1. Pending("write", callback = "task")' = Pending("write", callback = "task") + 1
    <3>1. /\ Pending("write", callback = "task") = Occurrences("write", mq) + Cardinality(At("write"))
          /\ Pending("write", callback = "task")' = Occurrences("write", mq) + Cardinality(At("write")) + 1
      BY <1>0, DownParts DEF Pending, At, Count
    <3> QED BY <3>1
  <2>2. Len(DB!Held(down_buffer)') = Len(h) + 1
    BY <1>1, <1>2, <1>3, AppendProperties
  <2>3. Pending("write", callback = "task") \in Nat
    BY DownParts, Counts DEF Pending
  <2> QED BY <1>0, <1>2, <1>3, <2>1, <2>2, <2>3 DEF DownInv, DownServed, Served, h
<1> QED BY <1>4, <1>5, <1>6 DEF DownInv

(* There is no room for it, and it is lost. *)
LEMMA NoRoomDown ==
  ASSUME TypeOK, DownInv, PutCommand, ~DB!HasRoom(down_buffer, arrived.down)
  PROVE  DownInv'
<1> DEFINE n == arrived.down
<1>0. /\ UNCHANGED <<mq_fd, down_buffer, mq, worker, arrived, written>>
      /\ callback = "put" /\ callback' # "put"
  BY DEF PutCommand
<1>1. n \in Nat \ {0}
  BY <1>0, DownParts DEF DownInv, DownInOrder
<1>2. lost'.down = lost.down \cup {n}
  BY <1>1, Losing DEF PutCommand
<1>3. DownInOrder'
  <2>1. InOrder(DB!Held(down_buffer), DownLeft, n, FALSE)
    BY <1>0 DEF DownInv, DownInOrder, DownLeft, InOrder
  <2>2. DownLeft' = DownLeft
    BY <1>0 DEF DownLeft, InHands, At
  <2> QED BY <1>0, <2>1, <2>2 DEF DownInOrder, DownLeft, InOrder
<1>4. DownOnce'
  <2> SUFFICES ASSUME NEW m \in Nat \ {0}
               PROVE  DownPlaces(m)' = DownPlaces(m)
    BY <1>0 DEF DownInv, DownOnce
  <2> DEFINE o == Occurrences(m, DB!Held(down_buffer)) + InHand("serial", m) + Occurrences(m, written)
  <2>1. o \in Nat
    BY DownParts
  <2>2. DownPlaces(m) = Count(n = m) + o + Count(m \in lost.down)
    <3>1. Count(callback = "put" /\ m = arrived.down) = Count(n = m)
      BY <1>0 DEF Count
    <3> QED BY <3>1, DownParts, Counts DEF DownPlaces
  <2>3. DownPlaces(m)' = o + Count(m \in lost'.down)
    <3>1. Count((callback = "put" /\ m = arrived.down)') = 0
      BY <1>0 DEF Count
    <3>2. InHand("serial", m)' = InHand("serial", m)
      BY <1>0 DEF InHand, At
    <3> QED BY <1>0, <3>1, <3>2, DownParts, Counts DEF DownPlaces
  <2>4. m = n => DownPlaces(m) = 1
    BY <1>1 DEF DownInv, DownOnce, Count
  <2> HIDE DEF o
  <2> QED BY <1>1, <1>2, <2>1, <2>2, <2>3, <2>4 DEF Count
<1>5. DownServed'
  <2>1. Pending("write", callback = "task")' >= Pending("write", callback = "task")
    <3>1. /\ Pending("write", callback = "task") = Occurrences("write", mq) + Cardinality(At("write"))
          /\ Pending("write", callback = "task")'
               = Occurrences("write", mq) + Cardinality(At("write")) + Count((callback = "task")')
      BY <1>0, DownParts DEF Pending, At, Count
    <3> QED BY <3>1, DownParts, Counts
  <2>2. Pending("write", callback = "task") \in Nat /\ Pending("write", callback = "task")' \in Nat
    <3>1. Pending("write", callback = "task")'
            = Occurrences("write", mq) + Cardinality(At("write")) + Count((callback = "task")')
      BY <1>0 DEF Pending, At
    <3> QED BY <3>1, DownParts, Counts DEF Pending
  <2> QED BY <1>0, <2>1, <2>2, DownParts DEF DownInv, DownServed, Served
<1> QED BY <1>3, <1>4, <1>5 DEF DownInv

(* Its task is queued, and as many tasks are due as before; or there is no   *)
(* queue.                                                                    *)
LEMMA SubmitsDown ==
  ASSUME TypeOK, DownInv, SubmitWrite
  PROVE  DownInv'
<1>0. /\ UNCHANGED <<mq_fd, down_buffer, arrived, worker, written, lost>>
      /\ callback = "task" /\ callback' # "put" /\ callback' # "task"
      /\ mq_fd = "open" => mq' = Append(mq, "write")
      /\ mq \in Seq({"send", "write"})
  BY DEF SubmitWrite, AddTask, TypeOK
<1>1. mq_fd = "open" => Occurrences("write", mq)' = Occurrences("write", mq) + 1
  <2>1. Occurrences("write", Append(mq, "write")) = Occurrences("write", mq) + Count("write" = "write")
    BY <1>0, OccurrencesAppend
  <2> QED BY <1>0, <2>1 DEF Count
<1>2. mq_fd = "open" => Pending("write", callback = "task")' = Pending("write", callback = "task")
  <2>1. /\ Pending("write", callback = "task") = Occurrences("write", mq) + Cardinality(At("write")) + 1
        /\ Pending("write", callback = "task")' = Occurrences("write", mq)' + Cardinality(At("write")) + 0
    BY <1>0 DEF Pending, At, Count
  <2> QED BY <1>1, <2>1, DownParts
<1>3. /\ \A m : InHand("serial", m)' = InHand("serial", m)
      /\ InHands("serial")' = InHands("serial")
  BY <1>0 DEF InHand, InHands, At
<1> QED BY <1>0, <1>2, <1>3, DownFrame DEF DownInv

(* A worker receives a task: one for the commands is still due. *)
LEMMA ReceivesDown ==
  ASSUME TypeOK, DownInv, NEW w \in Workers, Receive(w)
  PROVE  DownInv'
<1> DEFINE r == [worker[w] EXCEPT !.at = Head(mq)]
<1>0. /\ UNCHANGED <<mq_fd, down_buffer, callback, arrived, written, lost>>
      /\ worker[w].at = "receive" /\ worker' = [worker EXCEPT ![w] = r]
      /\ mq # <<>> /\ mq' = Tail(mq) /\ mq \in Seq({"send", "write"})
  BY DEF Receive, TypeOK
<1>1. Head(mq) \in {"send", "write"} /\ r.at = Head(mq)
  <2>1. Head(mq) \in {"send", "write"}
    BY <1>0, HeadTailProperties
  <2>2. worker[w] \in Jobs
    BY DEF TypeOK, Jobs, Steps
  <2> QED BY <2>1, <2>2 DEF Jobs, Steps
<1>2. Occurrences("write", mq)' = Occurrences("write", mq) - Count(Head(mq) = "write")
  BY <1>0, OccurrencesTail
<1> HIDE DEF r
<1>4. /\ Cardinality(At("write"))' = Cardinality(At("write"))
           - Count(worker[w].at = "write") + Count(r.at = "write")
      /\ \A m : /\ InHand("serial", m) \in Nat
                /\ InHand("serial", m)' = InHand("serial", m)
                     - Count(worker[w].at = "serial" /\ worker[w].msg = m)
                     + Count(r.at = "serial" /\ r.msg = m)
      /\ \A m \in InHands("serial")' : m \in InHands("serial") \/ (r.at = "serial" /\ m = r.msg)
  BY <1>0, DownMoves, ZenonT(40) DEF Count
<1>5. Pending("write", callback = "task")' = Pending("write", callback = "task")
  <2>1. Count(worker[w].at = "write") = 0 /\ Count(r.at = "write") = Count(Head(mq) = "write")
    BY <1>0, <1>1 DEF Count
  <2>2. Cardinality(At("write"))' = Cardinality(At("write")) + Count(Head(mq) = "write")
    BY <1>4, <2>1, DownParts, Counts
  <2>3. Pending("write", callback = "task")'
          = Occurrences("write", mq)' + Cardinality(At("write"))' + Count(callback = "task")
    BY <1>0 DEF Pending
  <2> QED BY <1>2, <2>2, <2>3, DownParts, Counts DEF Pending
<1>6. /\ \A m : InHand("serial", m)' = InHand("serial", m)
      /\ \A m \in InHands("serial")' : m \in InHands("serial")
  BY <1>0, <1>1, <1>4 DEF Count
<1> QED BY <1>0, <1>5, <1>6, DownFrame DEF DownInv

(* A task finds nothing it can take. *)
LEMMA FailsDown ==
  ASSUME TypeOK, DownInv, NEW w \in Workers, WriteRead(w), ~DB!Readable(down_buffer)
  PROVE  DownInv'
<1>0. /\ UNCHANGED <<mq_fd, mq, callback, arrived, written, lost>>
      /\ worker[w].at = "write" /\ worker' = [worker EXCEPT ![w] = Idle]
      /\ down_buffer' = DB!Turned(down_buffer)
  BY DEF WriteRead
<1>2. Idle.at = "receive"
  BY DEF Idle
<1>3. DB!Held(down_buffer)' = DB!Held(down_buffer)
  BY <1>0, DownParts, TurnedBuffer
<1>4. /\ Cardinality(At("write"))' \in Nat
      /\ \A m : /\ InHand("serial", m) \in Nat
                /\ InHand("serial", m)' = InHand("serial", m)
                     - Count(worker[w].at = "serial" /\ worker[w].msg = m)
                     + Count(Idle.at = "serial" /\ Idle.msg = m)
      /\ \A m \in InHands("serial")' : m \in InHands("serial") \/ (Idle.at = "serial" /\ m = Idle.msg)
  BY <1>0, DownMoves DEF Count
<1>5. /\ \A m : InHand("serial", m)' = InHand("serial", m)
      /\ DownLeft' \in SUBSET DownLeft
  BY <1>0, <1>2, <1>4 DEF Count, DownLeft
<1>6. DownInOrder'
  <2>1. InOrder(DB!Held(down_buffer), DownLeft', arrived.down, callback = "put")
    BY <1>5, OrderFewer DEF DownInv, DownInOrder, DownLeft
  <2> QED BY <1>0, <1>3, <2>1 DEF DownInv, DownInOrder, DownLeft
<1>7. DownOnce'
  <2>1. \A m : DownPlaces(m)' = DownPlaces(m)
    BY <1>0, <1>3, <1>5 DEF DownPlaces
  <2> QED BY <1>0, <2>1 DEF DownInv, DownOnce
<1>8. DownServed'
  <2>1. DB!Held(down_buffer) = <<>> \/ DB!Wedged(DB!Turned(down_buffer))'
    BY <1>0, DownParts, NothingToTake
  <2>2. Pending("write", callback = "task")' \in Nat
    <3>1. Pending("write", callback = "task")'
            = Occurrences("write", mq) + Cardinality(At("write"))' + Count(callback = "task")
      BY <1>0 DEF Pending
    <3> QED BY <1>4, <3>1, DownParts, Counts
  <2>3. DB!Held(down_buffer) = <<>> => Len(DB!Held(down_buffer)) = 0
    BY EmptySeq
  <2> QED BY <1>3, <2>1, <2>2, <2>3 DEF DownServed, Served
<1> QED BY <1>6, <1>7, <1>8 DEF DownInv

(* A worker hands its command on, or it is lost. *)
LEMMA DeliversDown ==
  ASSUME TypeOK, DownInv, NEW w \in Workers, WriteSerial(w)
  PROVE  DownInv'
<1> DEFINE x == worker[w].msg
<1>0. /\ UNCHANGED <<mq_fd, down_buffer, mq, callback, arrived>>
      /\ worker[w].at = "serial" /\ worker' = [worker EXCEPT ![w] = Idle]
      /\ x \in Nat /\ written \in Seq(Nat)
  BY DEF WriteSerial, TypeOK, Jobs, Steps
<1>2. Idle.at = "receive"
  BY DEF Idle
<1>3. /\ Cardinality(At("write"))' = Cardinality(At("write"))
           - Count(worker[w].at = "write") + Count(Idle.at = "write")
      /\ \A m : /\ InHand("serial", m) \in Nat /\ InHand("serial", m)' \in Nat
                /\ InHand("serial", m)' = InHand("serial", m)
                     - Count(worker[w].at = "serial" /\ worker[w].msg = m)
                     + Count(Idle.at = "serial" /\ Idle.msg = m)
      /\ \A m \in InHands("serial")' : m \in InHands("serial") \/ (Idle.at = "serial" /\ m = Idle.msg)
      /\ x \in InHands("serial")
  BY <1>0, DownMoves DEF Count
<1> HIDE DEF x
<1>4. \/ written' = Append(written, x) /\ lost'.down = lost.down
      \/ written' = written /\ lost'.down = lost.down \cup {x}
  BY <1>0, Losing DEF WriteSerial, x
<1>5. DownInOrder'
  <2>1. Elements(written') \in SUBSET (Elements(written) \cup {x})
    <3>1. Elements(Append(written, x)) = Elements(written) \cup {x}
      BY <1>0, ElementsAppend
    <3> QED BY <1>4, <3>1
  <2>2. InHands("serial")' \in SUBSET InHands("serial")
    BY <1>2, <1>3
  <2>3. DownLeft' \in SUBSET DownLeft
    BY <1>3, <2>1, <2>2 DEF DownLeft
  <2>4. InOrder(DB!Held(down_buffer), DownLeft', arrived.down, callback = "put")
    BY <2>3, OrderFewer DEF DownInv, DownInOrder, DownLeft
  <2> QED BY <1>0, <2>4 DEF DownInv, DownInOrder, DownLeft
<1>6. DownOnce'
  <2> SUFFICES ASSUME NEW m \in Nat \ {0}
               PROVE  DownPlaces(m)' = DownPlaces(m)
    BY <1>0 DEF DownInv, DownOnce
  <2> DEFINE o == Count(callback = "put" /\ m = arrived.down) + Occurrences(m, DB!Held(down_buffer))
             a == InHand("serial", m)
             b == InHand("serial", m)'
             c == Occurrences(m, written)
             d == Occurrences(m, written')
  <2>1. o \in Nat /\ a \in Nat /\ b \in Nat /\ c \in Nat
    BY <1>3, DownParts, Counts, SMTT(30)
  <2>2. b = a - Count(x = m)
    <3>1. /\ Count(worker[w].at = "serial" /\ worker[w].msg = m) = Count(x = m)
          /\ Count(Idle.at = "serial" /\ Idle.msg = m) = 0
      BY <1>0, <1>2 DEF Count, x
    <3>2. b = a - Count(x = m) + 0
      BY <1>3, <3>1
    <3> QED BY <2>1, <3>2, Counts
  <2>3. DownPlaces(m) = o + a + c + Count(m \in lost.down)
    BY DEF DownPlaces
  <2>4. DownPlaces(m)' = o + b + d + Count(m \in lost'.down)
    BY <1>0 DEF DownPlaces
  <2>5. DownPlaces(m) <= 1
    <3>1. DownPlaces(m) = Count(m <= arrived.down)
      BY DEF DownInv, DownOnce
    <3> QED BY <3>1 DEF Count
  <2>6. CASE written' = Append(written, x) /\ lost'.down = lost.down
    <3>1. d = c + Count(x = m)
      BY <1>0, <2>6, OccurrencesAppend
    <3> DEFINE k == Count(x = m)
               l == Count(m \in lost.down)
    <3>2. Count(m \in lost'.down) = l
      BY <2>6
    <3>3. k \in Nat /\ l \in Nat
      BY Counts
    <3> HIDE DEF o, a, b, c, d, k, l
    <3>4. DownPlaces(m) = o + a + c + l /\ DownPlaces(m)' = o + b + d + l
      BY <2>3, <2>4, <3>2 DEF l
    <3>5. b = a - k /\ d = c + k
      BY <2>2, <3>1 DEF k
    <3> QED BY <2>1, <3>3, <3>4, <3>5
  <2>7. CASE written' = written /\ lost'.down = lost.down \cup {x}
    <3>1. d = c
      BY <2>7
    <3> HIDE DEF o, a, b, c, d
    <3> QED BY <2>1, <2>2, <2>3, <2>4, <2>5, <2>7, <3>1 DEF Count
  <2> QED BY <1>4, <2>6, <2>7
<1>7. DownServed'
  <2>1. Cardinality(At("write"))' = Cardinality(At("write"))
    <3>1. Count(worker[w].at = "write") = 0 /\ Count(Idle.at = "write") = 0
      BY <1>0, <1>2 DEF Count
    <3> QED BY <1>3, <3>1, DownParts
  <2>2. Pending("write", callback = "task")' = Pending("write", callback = "task")
    BY <1>0, <2>1 DEF Pending
  <2> QED BY <1>0, <2>2 DEF DownInv, DownServed, Served
<1> QED BY <1>5, <1>6, <1>7 DEF DownInv

(* A worker takes the oldest command in hand. *)
LEMMA TakesDown ==
  ASSUME TypeOK, DownInv, NEW w \in Workers, WriteRead(w), DB!Readable(down_buffer),
         ~(Length[DB!Oldest(down_buffer)] < MinWrite)
  PROVE  DownInv'
<1> DEFINE x == DB!Oldest(down_buffer)
           h == DB!Held(down_buffer)
           r == [at |-> "serial", msg |-> x]
<1>0. /\ UNCHANGED <<mq_fd, mq, callback, arrived, written, lost>>
      /\ worker[w].at = "write" /\ worker' = [worker EXCEPT ![w] = r]
      /\ down_buffer' = DB!Taken(down_buffer)
  BY DEF WriteRead
<1>1. r.at = "serial" /\ r.msg = x
  OBVIOUS
<1>2. /\ ~DB!Wedged(DB!Turned(down_buffer))
      /\ h # <<>> /\ x = Head(h) /\ DB!Held(down_buffer)' = Tail(h)
  BY <1>0, TakenBuffer, DownParts, Lengths
<1>3. h \in Seq(1..MaxDown) /\ Len(h) \in Nat
  BY DownParts
<1> HIDE DEF r, x, h
<1>4. /\ Cardinality(At("write"))' = Cardinality(At("write"))
           - Count(worker[w].at = "write") + Count(r.at = "write")
      /\ \A m : /\ InHand("serial", m) \in Nat
                /\ InHand("serial", m)' = InHand("serial", m)
                     - Count(worker[w].at = "serial" /\ worker[w].msg = m)
                     + Count(r.at = "serial" /\ r.msg = m)
      /\ \A m \in InHands("serial")' : m \in InHands("serial") \/ (r.at = "serial" /\ m = r.msg)
  BY <1>0, DownMoves DEF Count
<1>5. DownInOrder'
  <2>1. \A m \in DownLeft' : m \in DownLeft \/ m = Head(h)
    BY <1>0, <1>1, <1>2, <1>4 DEF DownLeft
  <2>2. InOrder(h, DownLeft, arrived.down, callback = "put")
    BY DEF DownInv, DownInOrder, DownLeft, h
  <2>3. InOrder(Tail(h), DownLeft', arrived.down, callback = "put")
    BY <1>2, <1>3, <2>1, <2>2, OrderTake DEF InOrder
  <2> QED BY <1>0, <1>2, <2>3 DEF DownInv, DownInOrder, DownLeft
<1>6. DownOnce'
  <2> SUFFICES ASSUME NEW m \in Nat \ {0}
               PROVE  DownPlaces(m)' = DownPlaces(m)
    BY <1>0 DEF DownInv, DownOnce
  <2> DEFINE o == Occurrences(m, written) + Count(m \in lost.down)
             p == Count(callback = "put" /\ m = arrived.down)
             a == InHand("serial", m)
             b == InHand("serial", m)'
  <2>1. o \in Nat /\ p \in Nat /\ a \in Nat /\ Occurrences(m, h) \in Nat
    BY DownParts, Counts DEF h
  <2>2. b = a + Count(x = m)
    <3>1. /\ Count(worker[w].at = "serial" /\ worker[w].msg = m) = 0
          /\ Count(r.at = "serial" /\ r.msg = m) = Count(x = m)
      BY <1>0, <1>1 DEF Count
    <3>2. b = a - 0 + Count(x = m)
      BY <1>4, <3>1
    <3> QED BY <2>1, <3>2, Counts
  <2>3. DownPlaces(m) = p + Occurrences(m, h) + a + o
    <3>1. DownPlaces(m) = p + Occurrences(m, h) + a + Occurrences(m, written) + Count(m \in lost.down)
      BY DEF DownPlaces, h
    <3> QED BY <2>1, <3>1, DownParts, Counts
  <2>4. DownPlaces(m)' = p + Occurrences(m, Tail(h)) + b + o
    <3>1. DownPlaces(m)' = p + Occurrences(m, Tail(h)) + b + Occurrences(m, written) + Count(m \in lost.down)
      BY <1>0, <1>2 DEF DownPlaces
    <3>2. Tail(h) \in Seq(1..MaxDown)
      BY <1>2, <1>3, HeadTailProperties
    <3>3. Occurrences(m, Tail(h)) \in Nat
      BY <3>2, OccurrencesType
    <3>4. b \in Nat
      BY <2>1, <2>2, Counts
    <3> HIDE DEF p, b
    <3> QED BY <2>1, <3>1, <3>3, <3>4, DownParts, Counts, SMTT(30)
  <2>5. Occurrences(m, Tail(h)) = Occurrences(m, h) - Count(x = m)
    <3>1. Occurrences(m, Tail(h)) = Occurrences(m, h) - Count(Head(h) = m)
      BY <1>2, <1>3, OccurrencesTail
    <3> QED BY <1>2, <3>1
  <2> HIDE DEF o, p, a, b
  <2> QED BY <2>1, <2>2, <2>3, <2>4, <2>5, Counts
<1>7. DownServed'
  <2>1. Cardinality(At("write"))' = Cardinality(At("write")) - 1
    <3>1. Count(worker[w].at = "write") = 1 /\ Count(r.at = "write") = 0
      BY <1>0, <1>1 DEF Count
    <3> QED BY <1>4, <3>1, DownParts
  <2>2. Pending("write", callback = "task")' = Pending("write", callback = "task") - 1
    <3>1. Pending("write", callback = "task")'
            = Occurrences("write", mq) + (Cardinality(At("write")) - 1) + Count(callback = "task")
      BY <1>0, <2>1 DEF Pending
    <3> QED BY <3>1, DownParts, Counts DEF Pending
  <2>3. Len(DB!Held(down_buffer)') = Len(h) - 1
    BY <1>2, <1>3, HeadTailProperties
  <2>4. mq_fd = "open" => Len(h) <= Pending("write", callback = "task")
    BY <1>2 DEF DownInv, DownServed, Served, h
  <2>5. Pending("write", callback = "task") \in Nat
    BY DownParts, Counts DEF Pending
  <2> QED BY <1>0, <1>3, <2>2, <2>3, <2>4, <2>5 DEF DownServed, Served
<1> QED BY <1>5, <1>6, <1>7 DEF DownInv

(* A worker goes on with what is not about the commands.                      *)
LEMMA DownApart ==
  ASSUME TypeOK, NEW w \in Workers, NEW r, worker' = [worker EXCEPT ![w] = r],
         worker[w].at \notin {"write", "serial"}, r.at \notin {"write", "serial"}
  PROVE  /\ Cardinality(At("write"))' = Cardinality(At("write"))
         /\ \A m : InHand("serial", m)' = InHand("serial", m)
         /\ \A m \in InHands("serial")' : m \in InHands("serial")
<1>1. worker'[w] = r /\ \A v \in Workers : v # w => worker'[v] = worker[v]
  BY DEF TypeOK
<1>2. At("write")' = At("write") /\ At("serial")' = At("serial")
  BY <1>1 DEF At
<1>3. \A v \in At("serial") : worker'[v] = worker[v]
  BY <1>1 DEF At
<1>4. ASSUME NEW m
      PROVE  InHand("serial", m)' = InHand("serial", m)
  <2>1. {v \in At("serial") : worker[v].msg = m}' = {v \in At("serial") : worker[v].msg = m}
    BY <1>2, <1>3
  <2> QED BY <2>1 DEF InHand
<1>5. InHands("serial")' = InHands("serial")
  BY <1>2, <1>3 DEF InHands
<1> QED BY <1>2, <1>4, <1>5

(* What the other direction and the connection do leaves the commands alone.  *)
LEMMA BesideDown ==
  ASSUME TypeOK, DownInv,
         \/ FrameArrives \/ PutFrame \/ SubmitSend \/ ConnectionChanges \/ UNCHANGED vars
         \/ \E w \in Workers : SendRead(w) \/ Publish(w)
  PROVE  DownInv'
<1>1. /\ UNCHANGED <<mq_fd, down_buffer, callback, written>>
      /\ arrived'.down = arrived.down
  BY DEF FrameArrives, PutFrame, SubmitSend, ConnectionChanges, vars, SendRead, Publish, TypeOK
<1>2. lost'.down = lost.down
  BY DEF FrameArrives, PutFrame, SubmitSend, ConnectionChanges, vars, SendRead, Publish, TypeOK
<1>3. Occurrences("write", mq)' = Occurrences("write", mq)
  <2>1. CASE mq' = mq
    BY <2>1
  <2>2. CASE mq' = Append(mq, "send")
    <3>1. mq \in Seq({"send", "write"})
      BY DEF TypeOK
    <3>2. Occurrences("write", Append(mq, "send"))
            = Occurrences("write", mq) + Count("send" = "write")
      BY <3>1, OccurrencesAppend
    <3>3. Count("send" = "write") = 0
      BY DEF Count
    <3> QED BY <2>2, <3>2, <3>3, DownParts
  <2> QED
    BY <2>1, <2>2 DEF FrameArrives, PutFrame, SubmitSend, AddTask, ConnectionChanges, vars, SendRead, Publish
<1>4. /\ Cardinality(At("write"))' = Cardinality(At("write"))
      /\ \A m : InHand("serial", m)' = InHand("serial", m)
      /\ \A m \in InHands("serial")' : m \in InHands("serial")
  <2>1. CASE worker' = worker
    BY <2>1 DEF At, InHand, InHands
  <2>3. CASE \E w \in Workers : SendRead(w) \/ Publish(w)
    <3> PICK w \in Workers : SendRead(w) \/ Publish(w)
      BY <2>3
    <3>1. worker[w].at \notin {"write", "serial"}
      BY DEF SendRead, Publish
    <3>2. \/ worker' = [worker EXCEPT ![w] = Idle]
          \/ worker' = [worker EXCEPT ![w] = [at |-> "publish", msg |-> DB!Oldest(up_buffer)]]
      BY DEF SendRead, Publish
    <3>3. /\ Idle.at = "receive"
          /\ [at |-> "publish", msg |-> DB!Oldest(up_buffer)].at = "publish"
      BY DEF Idle
    <3>4. CASE worker' = [worker EXCEPT ![w] = Idle]
      BY <3>1, <3>3, <3>4, DownApart
    <3>5. CASE worker' = [worker EXCEPT ![w] = [at |-> "publish", msg |-> DB!Oldest(up_buffer)]]
      BY <3>1, <3>3, <3>5, DownApart
    <3> QED BY <3>2, <3>4, <3>5
  <2> QED
    BY <2>1, <2>3 DEF FrameArrives, PutFrame, SubmitSend, ConnectionChanges, vars
<1>5. Pending("write", callback = "task")' = Pending("write", callback = "task")
  BY <1>1, <1>3, <1>4 DEF Pending
<1> QED BY <1>1, <1>2, <1>4, <1>5, DownFrame DEF DownInv

(* A command that is too short for the port is lost as soon as it is taken.  *)
LEMMA RefusesDown ==
  ASSUME TypeOK, DownInv, NEW w \in Workers, WriteRead(w), DB!Readable(down_buffer),
         Length[DB!Oldest(down_buffer)] < MinWrite
  PROVE  DownInv'
<1> DEFINE x == DB!Oldest(down_buffer)
           h == DB!Held(down_buffer)
<1>0. /\ UNCHANGED <<mq_fd, mq, callback, arrived, written>>
      /\ worker[w].at = "write" /\ worker' = [worker EXCEPT ![w] = Idle]
      /\ down_buffer' = DB!Taken(down_buffer)
      /\ lost' = [lost EXCEPT !.down = @ \cup {x}]
  BY DEF WriteRead
<1>1. Idle.at = "receive"
  BY DEF Idle
<1>2. /\ ~DB!Wedged(DB!Turned(down_buffer))
      /\ h # <<>> /\ x = Head(h) /\ DB!Held(down_buffer)' = Tail(h)
      /\ x \in 1..MaxDown
  BY <1>0, TakenBuffer, DownParts, Lengths
<1>3. h \in Seq(1..MaxDown) /\ Len(h) \in Nat /\ x \in Nat
  BY <1>2, DownParts, Lengths
<1>4. lost'.down = lost.down \cup {x}
  BY <1>0, <1>3, Losing
<1> HIDE DEF x, h
<1>5. /\ Cardinality(At("write"))' = Cardinality(At("write"))
           - Count(worker[w].at = "write") + Count(Idle.at = "write")
      /\ \A m : /\ InHand("serial", m) \in Nat
                /\ InHand("serial", m)' = InHand("serial", m)
                     - Count(worker[w].at = "serial" /\ worker[w].msg = m)
                     + Count(Idle.at = "serial" /\ Idle.msg = m)
      /\ \A m \in InHands("serial")' : m \in InHands("serial") \/ (Idle.at = "serial" /\ m = Idle.msg)
  BY <1>0, DownMoves DEF Count
<1>6. DownInOrder'
  <2>1. \A m \in DownLeft' : m \in DownLeft \/ m = Head(h)
    BY <1>0, <1>1, <1>5 DEF DownLeft
  <2>2. InOrder(h, DownLeft, arrived.down, callback = "put")
    BY DEF DownInv, DownInOrder, DownLeft, h
  <2>3. InOrder(Tail(h), DownLeft', arrived.down, callback = "put")
    BY <1>2, <1>3, <2>1, <2>2, OrderTake DEF InOrder
  <2> QED BY <1>0, <1>2, <2>3 DEF DownInv, DownInOrder, DownLeft
<1>7. DownOnce'
  <2> SUFFICES ASSUME NEW m \in Nat \ {0}
               PROVE  DownPlaces(m)' = DownPlaces(m)
    BY <1>0 DEF DownInv, DownOnce
  <2> DEFINE o == Count(callback = "put" /\ m = arrived.down) + InHand("serial", m)
                  + Occurrences(m, written)
             a == Occurrences(m, h)
             b == Occurrences(m, Tail(h))
  <2>1. o \in Nat /\ a \in Nat /\ b \in Nat
    <3>1. Tail(h) \in Seq(1..MaxDown)
      BY <1>2, <1>3, HeadTailProperties
    <3>2. Occurrences(m, Tail(h)) \in Nat
      BY <3>1, OccurrencesType
    <3> QED BY <3>2, DownParts, Counts DEF h
  <2>2. InHand("serial", m)' = InHand("serial", m)
    BY <1>0, <1>1, <1>5 DEF Count
  <2>3. DownPlaces(m) = o + a + Count(m \in lost.down)
    <3>1. DownPlaces(m) = Count(callback = "put" /\ m = arrived.down) + a + InHand("serial", m)
                          + Occurrences(m, written) + Count(m \in lost.down)
      BY DEF DownPlaces, h
    <3> HIDE DEF a
    <3> QED BY <2>1, <3>1, DownParts, Counts, SMTT(30)
  <2>4. DownPlaces(m)' = o + b + Count(m \in lost'.down)
    <3>1. DownPlaces(m)' = Count(callback = "put" /\ m = arrived.down) + b + InHand("serial", m)
                           + Occurrences(m, written) + Count(m \in lost'.down)
      BY <1>0, <1>2, <2>2 DEF DownPlaces
    <3> HIDE DEF b
    <3> QED BY <2>1, <3>1, DownParts, Counts, SMTT(30)
  <2>5. b = a - Count(x = m)
    <3>1. Occurrences(m, Tail(h)) = Occurrences(m, h) - Count(Head(h) = m)
      BY <1>2, <1>3, OccurrencesTail
    <3> QED BY <1>2, <3>1
  <2>6. DownPlaces(m) <= 1
    <3>1. DownPlaces(m) = Count(m <= arrived.down)
      BY DEF DownInv, DownOnce
    <3> QED BY <3>1 DEF Count
  <2> HIDE DEF o, a, b
  <2> QED BY <1>4, <2>1, <2>3, <2>4, <2>5, <2>6 DEF Count
<1>8. DownServed'
  <2>1. Cardinality(At("write"))' = Cardinality(At("write")) - 1
    <3>1. Count(worker[w].at = "write") = 1 /\ Count(Idle.at = "write") = 0
      BY <1>0, <1>1 DEF Count
    <3> QED BY <1>5, <3>1, DownParts
  <2>2. Pending("write", callback = "task")' = Pending("write", callback = "task") - 1
    <3>1. Pending("write", callback = "task")'
            = Occurrences("write", mq) + (Cardinality(At("write")) - 1) + Count(callback = "task")
      BY <1>0, <2>1 DEF Pending
    <3> QED BY <3>1, DownParts, Counts DEF Pending
  <2>3. Len(DB!Held(down_buffer)') = Len(h) - 1
    BY <1>2, <1>3, HeadTailProperties
  <2>4. mq_fd = "open" => Len(h) <= Pending("write", callback = "task")
    BY <1>2 DEF DownInv, DownServed, Served, h
  <2>5. Pending("write", callback = "task") \in Nat
    BY DownParts, Counts DEF Pending
  <2> QED BY <1>0, <1>3, <2>2, <2>3, <2>4, <2>5 DEF DownServed, Served
<1> QED BY <1>6, <1>7, <1>8 DEF DownInv

------------------------------------------------------------------------------
(* The theorems *)

LEMMA InitInvariant == Init => IInv
<1> SUFFICES ASSUME Init PROVE IInv
  OBVIOUS
<1>1. TypeOK
  BY InitTypes
<1>2. /\ DB!Held(up_buffer) = <<>> /\ DB!Held(down_buffer) = <<>>
      /\ published = <<>> /\ written = <<>>
  <2>1. <<>> \o <<>> = <<>>
    BY ConcatEmptySeq, EmptySeq
  <2> QED BY <2>1 DEF Init, DB!EmptyBuffer, DB!EmptySub, DB!Held
<1>3. /\ arrived.up = 0 /\ arrived.down = 0
      /\ read_thread # "put" /\ callback # "put"
      /\ lost.up = {} /\ lost.down = {}
  BY DEF Init
<1>4. \A w \in Workers : worker[w].at = "receive"
  BY DEF Init, Idle
<1>5. /\ InHands("publish") = {} /\ InHands("serial") = {}
      /\ \A m : InHand("publish", m) = 0 /\ InHand("serial", m) = 0
  <2>1. At("publish") = {} /\ At("serial") = {}
    BY <1>4 DEF At
  <2> QED BY <2>1, FS_EmptySet DEF InHands, InHand
<1>6. Elements(<<>>) = {}
  BY DEF Elements
<1>7. \A m : Occurrences(m, <<>>) = 0
  <2> TAKE m
  <2>1. <<>> \in Seq(Nat)
    BY EmptySeq
  <2> QED BY <1>6, <2>1, OccurrencesType
<1>8. UpInOrder /\ DownInOrder
  BY <1>2, <1>3, <1>5, <1>6 DEF UpInOrder, DownInOrder, InOrder
<1>9. UpOnce /\ DownOnce
  <2> SUFFICES ASSUME NEW m \in Nat \ {0}
               PROVE  UpPlaces(m) = Count(m <= arrived.up) /\ DownPlaces(m) = Count(m <= arrived.down)
    BY DEF UpOnce, DownOnce
  <2>1. UpPlaces(m) = 0 /\ DownPlaces(m) = 0
    BY <1>2, <1>3, <1>5, <1>7 DEF UpPlaces, DownPlaces, Count
  <2> QED BY <1>3, <2>1 DEF Count
<1>10. UpServed /\ DownServed
  <2>1. Pending("send", read_thread = "task") \in Nat /\ Pending("write", callback = "task") \in Nat
    BY <1>1, UpParts, DownParts, Counts, SMTT(30) DEF Pending
  <2>2. Len(DB!Held(up_buffer)) = 0 /\ Len(DB!Held(down_buffer)) = 0
    BY <1>2, EmptySeq
  <2> QED BY <2>1, <2>2 DEF UpServed, DownServed, Served
<1> QED BY <1>1, <1>8, <1>9, <1>10 DEF IInv

LEMMA NextUp ==
  ASSUME TypeOK, UpInv, [Next]_vars
  PROVE  UpInv'
<1>1. CASE ReadThread
  BY <1>1, ArrivesUp, StoredUp, NoRoomUp, SubmitsUp DEF ReadThread
<1>2. CASE Callback
  BY <1>2, BesideUp DEF Callback
<1>3. CASE \E w \in Workers : Work(w)
  <2> PICK w \in Workers : Work(w)
    BY <1>3
  <2>1. CASE SendRead(w)
    BY <2>1, TakesUp, FailsUp
  <2> QED BY <2>1, ReceivesUp, DeliversUp, BesideUp DEF Work
<1>4. CASE ConnectionChanges \/ UNCHANGED vars
  BY <1>4, BesideUp
<1> QED BY <1>1, <1>2, <1>3, <1>4 DEF Next

LEMMA NextDown ==
  ASSUME TypeOK, DownInv, [Next]_vars
  PROVE  DownInv'
<1>1. CASE ReadThread
  BY <1>1, BesideDown DEF ReadThread
<1>2. CASE Callback
  BY <1>2, ArrivesDown, StoredDown, NoRoomDown, SubmitsDown DEF Callback
<1>3. CASE \E w \in Workers : Work(w)
  <2> PICK w \in Workers : Work(w)
    BY <1>3
  <2>1. CASE WriteRead(w)
    BY <2>1, TakesDown, RefusesDown, FailsDown
  <2> QED BY <2>1, ReceivesDown, DeliversDown, BesideDown DEF Work
<1>4. CASE ConnectionChanges \/ UNCHANGED vars
  BY <1>4, BesideDown
<1> QED BY <1>1, <1>2, <1>3, <1>4 DEF Next

(* In every reachable state: each direction holds its messages in order, and *)
(* each of them once; and in a process that has its queue, it has a task for *)
(* everything a buffer that can be read holds (read_pthread_func,            *)
(* receive_msg_func, send_msg_func, write_data_task_func and app_pool_task,  *)
(* in whatever order they run).                                              *)
THEOREM Invariance == Spec => []IInv
<1>1. IInv /\ [Next]_vars => IInv'
  BY NextTypes, NextUp, NextDown DEF IInv, UpInv, DownInv
<1> QED BY InitInvariant, <1>1, PTL DEF Spec

(* Buffers, task queue and the hands of every thread have their types, for   *)
(* any number of workers and messages (app_device.c, app_pool.c).            *)
THEOREM TypeCorrect == Spec => []TypeOK
<1>1. IInv => TypeOK
  BY DEF IInv
<1> QED BY Invariance, <1>1, PTL

(* In a process that has its queue, no stored message is left without a task *)
(* that will come for it: the read thread and the callback submit one for    *)
(* each, and a task that finds no message is one too many                    *)
(* (app_device.c:118-120, 238-245, 70-76, 172-179).  What happens to the     *)
(* messages of a process without one is WithoutQueue.                        *)
THEOREM NoneStranded == Spec => []NoOrphans
<1>1. IInv => NoOrphans
  BY DEF IInv, UpServed, DownServed, Served, NoOrphans
<1> QED BY Invariance, <1>1, PTL

(* No frame and no command is delivered twice, forgotten, or kept by two     *)
(* threads (app_device.c:66-90, 118, 172-206, 238).                          *)
THEOREM OnePlace == Spec => []EachInOnePlace
<1>1. IInv => EachInOnePlace
  <2> SUFFICES ASSUME IInv PROVE EachInOnePlace
    OBVIOUS
  <2>1. arrived.up \in Nat /\ arrived.down \in Nat
    BY UpParts, DownParts DEF IInv
  <2>2. ASSUME NEW m \in 1..arrived.up PROVE UpPlaces(m) = 1
    <3>1. m \in Nat \ {0} /\ m <= arrived.up
      BY <2>1
    <3> QED BY <3>1 DEF IInv, UpOnce, Count
  <2>3. ASSUME NEW m \in 1..arrived.down PROVE DownPlaces(m) = 1
    <3>1. m \in Nat \ {0} /\ m <= arrived.down
      BY <2>1
    <3> QED BY <3>1 DEF IInv, DownOnce, Count
  <2> QED BY <2>2, <2>3 DEF EachInOnePlace
<1> QED BY Invariance, <1>1, PTL

(* The workers take the messages of a direction in their order of arrival    *)
(* (app_pool.c:23-26, app_buffer.c: the exchange of the sub-buffers).        *)
THEOREM OldestFirst == Spec => []TakenInOrder
<1>1. IInv => TakenInOrder
  <2> SUFFICES ASSUME IInv PROVE TakenInOrder
    OBVIOUS
  <2>1. /\ DB!Held(up_buffer) \in Seq(1..MaxUp)
        /\ DB!Held(down_buffer) \in Seq(1..MaxDown)
    BY UpParts, DownParts DEF IInv
  <2>2. /\ DOMAIN DB!Held(up_buffer) = 1..Len(DB!Held(up_buffer))
        /\ DOMAIN DB!Held(down_buffer) = 1..Len(DB!Held(down_buffer))
    BY <2>1, LenProperties
  <2>3. \A m \in Elements(DB!Held(up_buffer)) :
          \A n \in Elements(published) \cup InHands("publish") : n < m
    <3> DEFINE D == Elements(published) \cup InHands("publish")
    <3>1. \A i \in 1..Len(DB!Held(up_buffer)), n \in D : n < DB!Held(up_buffer)[i]
      BY DEF IInv, UpInOrder, InOrder
    <3> HIDE DEF D
    <3>2. \A m \in Elements(DB!Held(up_buffer)) : \A n \in D : n < m
      BY <2>2, <3>1 DEF Elements
    <3> QED BY <3>2 DEF D
  <2>4. \A m \in Elements(DB!Held(down_buffer)) :
          \A n \in Elements(written) \cup InHands("serial") : n < m
    <3> DEFINE D == Elements(written) \cup InHands("serial")
    <3>1. \A i \in 1..Len(DB!Held(down_buffer)), n \in D : n < DB!Held(down_buffer)[i]
      BY DEF IInv, DownInOrder, InOrder
    <3> HIDE DEF D
    <3>2. \A m \in Elements(DB!Held(down_buffer)) : \A n \in D : n < m
      BY <2>2, <3>1 DEF Elements
    <3> QED BY <3>2 DEF D
  <2> QED BY <2>3, <2>4 DEF TakenInOrder
<1> QED BY Invariance, <1>1, PTL

------------------------------------------------------------------------------
(* A process without its queue *)

NothingDone ==
  mq_fd = "failed" =>
    /\ mq = <<>> /\ published = <<>> /\ written = <<>>
    /\ \A w \in Workers : worker[w].at = "receive"

(* Where the messages of such a process are. *)
NothingDelivered ==
  mq_fd = "failed" =>
    /\ published = <<>> /\ written = <<>>
    /\ \A m \in 1..arrived.up :
         \/ read_thread = "put" /\ m = arrived.up
         \/ m \in Elements(DB!Held(up_buffer)) \cup lost.up
    /\ \A m \in 1..arrived.down :
         \/ callback = "put" /\ m = arrived.down
         \/ m \in Elements(DB!Held(down_buffer)) \cup lost.down

LEMMA NothingHappens ==
  ASSUME NothingDone, [Next]_vars
  PROVE  NothingDone'
<1>1. CASE ReadThread
  BY <1>1 DEF ReadThread, FrameArrives, PutFrame, SubmitSend, AddTask, NothingDone
<1>2. CASE Callback
  BY <1>2 DEF Callback, CommandArrives, PutCommand, SubmitWrite, AddTask, NothingDone
<1>3. ASSUME NEW w \in Workers, Work(w)
      PROVE  mq_fd' = mq_fd /\ mq_fd # "failed"
  BY <1>3 DEF Work, Receive, SendRead, Publish, WriteRead, WriteSerial, NothingDone
<1>4. CASE ConnectionChanges \/ UNCHANGED vars
  BY <1>4 DEF ConnectionChanges, vars, NothingDone
<1> QED BY <1>1, <1>2, <1>3, <1>4 DEF Next, NothingDone

(* app_pool_init reports no failure when mq_open gives no queue, and nobody  *)
(* looks at what app_pool_add_task returns: such a process takes in frames   *)
(* and commands and delivers none of them, ever.  Each stays in its buffer   *)
(* or is lost for want of room there (app_pool.c:46-50, 62, 90;              *)
(* app_device.c:118-120, 238-245).                                           *)
THEOREM WithoutQueue == Spec => []NothingDelivered
<1>1. Init => NothingDone
  BY DEF Init, Idle, NothingDone
<1>2. NothingDone /\ [Next]_vars => NothingDone'
  BY NothingHappens
<1>3. Spec => []NothingDone
  BY <1>1, <1>2, PTL DEF Spec
<1>4. ASSUME TypeOK, EachInOnePlace, NothingDone
      PROVE  NothingDelivered
  <2> SUFFICES ASSUME mq_fd = "failed" PROVE NothingDelivered
    BY DEF NothingDelivered
  <2>1. published = <<>> /\ written = <<>>
    BY <1>4 DEF NothingDone
  <2>2. \A m : InHand("publish", m) = 0 /\ InHand("serial", m) = 0
    <3>1. At("publish") = {} /\ At("serial") = {}
      BY <1>4 DEF NothingDone, At
    <3> QED BY <3>1, FS_EmptySet DEF InHand
  <2>3. \A m : Occurrences(m, <<>>) = 0
    <3> TAKE m
    <3>1. {i \in DOMAIN <<>> : <<>>[i] = m} = {}
      OBVIOUS
    <3> QED BY <3>1, FS_EmptySet DEF Occurrences
  <2>4. ASSUME NEW m \in 1..arrived.up
        PROVE  \/ read_thread = "put" /\ m = arrived.up
               \/ m \in Elements(DB!Held(up_buffer)) \cup lost.up
    <3> SUFFICES ASSUME ~(read_thread = "put" /\ m = arrived.up), m \notin lost.up,
                        m \notin Elements(DB!Held(up_buffer))
                 PROVE  FALSE
      OBVIOUS
    <3>1. Occurrences(m, DB!Held(up_buffer)) = 0
      BY <1>4, UpParts, OccurrencesType
    <3>2. UpPlaces(m) = 0
      BY <2>1, <2>2, <2>3, <3>1 DEF UpPlaces, Count
    <3> QED BY <1>4, <3>2 DEF EachInOnePlace
  <2>5. ASSUME NEW m \in 1..arrived.down
        PROVE  \/ callback = "put" /\ m = arrived.down
               \/ m \in Elements(DB!Held(down_buffer)) \cup lost.down
    <3> SUFFICES ASSUME ~(callback = "put" /\ m = arrived.down), m \notin lost.down,
                        m \notin Elements(DB!Held(down_buffer))
                 PROVE  FALSE
      OBVIOUS
    <3>1. Occurrences(m, DB!Held(down_buffer)) = 0
      BY <1>4, DownParts, OccurrencesType
    <3>2. DownPlaces(m) = 0
      BY <2>1, <2>2, <2>3, <3>1 DEF DownPlaces, Count
    <3> QED BY <1>4, <3>2 DEF EachInOnePlace
  <2> QED BY <2>1, <2>4, <2>5 DEF NothingDelivered
<1>5. TypeOK /\ EachInOnePlace /\ NothingDone => NothingDelivered
  BY <1>4
<1> QED BY <1>3, <1>5, TypeCorrect, OnePlace, PTL

------------------------------------------------------------------------------
(* How a buffer empties *)

(* What a step may do to a buffer: add a message behind the others, or take  *)
(* the oldest; and once it is wedged with messages it stays so.              *)
Queues(b, c) ==
  /\ \/ DB!Held(c) = DB!Held(b)
     \/ \E m : DB!Held(c) = Append(DB!Held(b), m)
     \/ DB!Held(b) # <<>> /\ DB!Held(c) = Tail(DB!Held(b))
  /\ DB!Held(b) # <<>> /\ DB!Wedged(DB!Turned(b)) => DB!Wedged(DB!Turned(c))

(* What a task does: it takes the oldest message, if there is one and the    *)
(* buffer can be read.                                                       *)
TakesOldest(b, c) ==
  \/ DB!Held(b) # <<>> /\ DB!Held(c) = Tail(DB!Held(b))
  \/ DB!Held(b) = <<>>
  \/ DB!Wedged(DB!Turned(c))

Draining ==
  /\ Queues(up_buffer, up_buffer') /\ Queues(down_buffer, down_buffer')
  /\ \A w \in Workers :
       /\ worker[w].at = "send" /\ worker'[w].at # "send" => TakesOldest(up_buffer, up_buffer')
       /\ worker[w].at = "write" /\ worker'[w].at # "write" =>
            TakesOldest(down_buffer, down_buffer')

LEMMA SendDrains ==
  ASSUME TypeOK, NEW w \in Workers, SendRead(w)
  PROVE  Queues(up_buffer, up_buffer') /\ TakesOldest(up_buffer, up_buffer')
<1>0. up_buffer \in BuffersOf(MaxUp)
  BY DEF TypeOK
<1>1. CASE DB!Readable(up_buffer)
  <2>1. up_buffer' = DB!Taken(up_buffer)
    BY <1>1 DEF SendRead
  <2>2. /\ ~DB!Wedged(DB!Turned(up_buffer)) /\ DB!Held(up_buffer) # <<>>
        /\ DB!Held(DB!Taken(up_buffer)) = Tail(DB!Held(up_buffer))
    BY <1>0, <1>1, TakenBuffer, Lengths
  <2> QED BY <2>1, <2>2 DEF Queues, TakesOldest
<1>2. CASE ~DB!Readable(up_buffer)
  <2>1. up_buffer' = DB!Turned(up_buffer)
    BY <1>2 DEF SendRead
  <2>2. DB!Held(DB!Turned(up_buffer)) = DB!Held(up_buffer)
    BY <1>0, TurnedBuffer
  <2>3. DB!Held(up_buffer) = <<>> \/ DB!Wedged(DB!Turned(DB!Turned(up_buffer)))
    BY <1>0, <1>2, NothingToTake
  <2> QED BY <2>1, <2>2, <2>3 DEF Queues, TakesOldest
<1> QED BY <1>1, <1>2

LEMMA WriteDrains ==
  ASSUME TypeOK, NEW w \in Workers, WriteRead(w)
  PROVE  Queues(down_buffer, down_buffer') /\ TakesOldest(down_buffer, down_buffer')
<1>0. down_buffer \in BuffersOf(MaxDown)
  BY DEF TypeOK
<1>1. CASE DB!Readable(down_buffer)
  <2>1. down_buffer' = DB!Taken(down_buffer)
    BY <1>1 DEF WriteRead
  <2>2. /\ ~DB!Wedged(DB!Turned(down_buffer)) /\ DB!Held(down_buffer) # <<>>
        /\ DB!Held(DB!Taken(down_buffer)) = Tail(DB!Held(down_buffer))
    BY <1>0, <1>1, TakenBuffer, Lengths
  <2> QED BY <2>1, <2>2 DEF Queues, TakesOldest
<1>2. CASE ~DB!Readable(down_buffer)
  <2>1. down_buffer' = DB!Turned(down_buffer)
    BY <1>2 DEF WriteRead
  <2>2. DB!Held(DB!Turned(down_buffer)) = DB!Held(down_buffer)
    BY <1>0, TurnedBuffer
  <2>3. DB!Held(down_buffer) = <<>> \/ DB!Wedged(DB!Turned(DB!Turned(down_buffer)))
    BY <1>0, <1>2, NothingToTake
  <2> QED BY <2>1, <2>2, <2>3 DEF Queues, TakesOldest
<1> QED BY <1>1, <1>2

(* A step that stores a message. *)
LEMMA PutQueues ==
  ASSUME NEW n, NEW b \in BuffersOf(n), NEW m \in 1..n, Length[m] \in Nat
  PROVE  Queues(b, DB!Put(b, m))
BY PutBuffer DEF Queues

LEMMA NextQueues ==
  ASSUME TypeOK, UpInOrder, DownInOrder, [Next]_vars
  PROVE  Queues(up_buffer, up_buffer') /\ Queues(down_buffer, down_buffer')
<1>0. \A b : Queues(b, b)
  BY DEF Queues
<1>1. CASE UNCHANGED <<up_buffer, down_buffer>>
  BY <1>0, <1>1
<1>2. CASE PutFrame
  <2>1. up_buffer' \in {up_buffer, DB!Put(up_buffer, arrived.up)} /\ down_buffer' = down_buffer
    BY <1>2 DEF PutFrame
  <2>2. arrived.up \in 1..MaxUp /\ up_buffer \in BuffersOf(MaxUp)
    BY <1>2 DEF PutFrame, UpInOrder, TypeOK
  <2>3. Queues(up_buffer, DB!Put(up_buffer, arrived.up))
    BY <2>2, PutQueues, Lengths
  <2> QED BY <1>0, <2>1, <2>3
<1>3. CASE PutCommand
  <2>1. down_buffer' \in {down_buffer, DB!Put(down_buffer, arrived.down)} /\ up_buffer' = up_buffer
    BY <1>3 DEF PutCommand
  <2>2. arrived.down \in 1..MaxDown /\ down_buffer \in BuffersOf(MaxDown)
    BY <1>3 DEF PutCommand, DownInOrder, TypeOK
  <2>3. Queues(down_buffer, DB!Put(down_buffer, arrived.down))
    BY <2>2, PutQueues, Lengths
  <2> QED BY <1>0, <2>1, <2>3
<1>4. ASSUME NEW w \in Workers, SendRead(w)
      PROVE  Queues(up_buffer, up_buffer') /\ Queues(down_buffer, down_buffer')
  <2>1. down_buffer' = down_buffer
    BY <1>4 DEF SendRead
  <2> QED BY <1>0, <1>4, <2>1, SendDrains
<1>5. ASSUME NEW w \in Workers, WriteRead(w)
      PROVE  Queues(up_buffer, up_buffer') /\ Queues(down_buffer, down_buffer')
  <2>1. up_buffer' = up_buffer
    BY <1>5 DEF WriteRead
  <2> QED BY <1>0, <1>5, <2>1, WriteDrains
<1>6. CASE FrameArrives \/ SubmitSend \/ CommandArrives \/ SubmitWrite \/ ConnectionChanges
           \/ UNCHANGED vars
  BY <1>1, <1>6 DEF FrameArrives, SubmitSend, CommandArrives, SubmitWrite, ConnectionChanges, vars
<1>7. ASSUME NEW w \in Workers, Receive(w) \/ Publish(w) \/ WriteSerial(w)
      PROVE  UNCHANGED <<up_buffer, down_buffer>>
  BY <1>7 DEF Receive, Publish, WriteSerial
<1> QED BY <1>1, <1>2, <1>3, <1>4, <1>5, <1>6, <1>7 DEF Next, ReadThread, Callback, Work

(* Only its own step takes a worker from where it is. *)
LEMMA OwnSteps ==
  ASSUME TypeOK, [Next]_vars, NEW w \in Workers, worker'[w] # worker[w]
  PROVE  Work(w)
<1>1. ASSUME NEW v \in Workers, v # w, Work(v)
      PROVE  worker'[w] = worker[w]
  BY <1>1 DEF Work, Receive, SendRead, Publish, WriteRead, WriteSerial, TypeOK
<1>2. worker' # worker
  OBVIOUS
<1>3. PICK v \in Workers : Work(v)
  BY <1>2 DEF Next, ReadThread, Callback, FrameArrives, PutFrame, SubmitSend, CommandArrives,
     PutCommand, SubmitWrite, ConnectionChanges, vars
<1> QED BY <1>1, <1>3

(* Every task that is carried out takes the oldest message of its direction, *)
(* unless there is none left or the buffer is wedged for good, and no other  *)
(* step moves a message away from the front: with a task for each message    *)
(* (NoneStranded) each of them is taken, however the workers overtake each   *)
(* other and the sub-buffers are exchanged                                   *)
(* (app_device.c:66-90, 172-190, app_buffer.c:145-203).                      *)
THEOREM TasksDrain == Spec => [][Draining]_vars
<1>1. ASSUME IInv, [Next]_vars
      PROVE  Draining
  <2>0. TypeOK /\ UpInOrder /\ DownInOrder
    BY <1>1 DEF IInv
  <2>1. ASSUME NEW w \in Workers, worker[w].at = "send", worker'[w].at # "send"
        PROVE  TakesOldest(up_buffer, up_buffer')
    <3>1. Work(w)
      BY <1>1, <2>0, <2>1, OwnSteps
    <3>2. SendRead(w)
      BY <2>1, <3>1 DEF Work, Receive, Publish, WriteRead, WriteSerial
    <3> QED BY <2>0, <3>2, SendDrains
  <2>2. ASSUME NEW w \in Workers, worker[w].at = "write", worker'[w].at # "write"
        PROVE  TakesOldest(down_buffer, down_buffer')
    <3>1. Work(w)
      BY <1>1, <2>0, <2>2, OwnSteps
    <3>2. WriteRead(w)
      BY <2>2, <3>1 DEF Work, Receive, SendRead, Publish, WriteSerial
    <3> QED BY <2>0, <3>2, WriteDrains
  <2> QED BY <1>1, <2>0, <2>1, <2>2, NextQueues DEF Draining
<1>2. IInv /\ [Next]_vars => Draining
  BY <1>1
<1> QED BY <1>2, Invariance, PTL DEF Spec

------------------------------------------------------------------------------
(* How the work runs out *)

Weight(step) ==
  CASE step \in {"send", "write"}     -> 2
    [] step \in {"publish", "serial"} -> 1
    [] step = "receive"               -> 0

InPool ==
  2 * (Cardinality(At("send")) + Cardinality(At("write")))
    + Cardinality(At("publish")) + Cardinality(At("serial"))

(* How many steps the messages that have arrived can still cause. *)
WorkLeft ==
  5 * (Count(read_thread = "put") + Count(callback = "put"))
    + 4 * (Count(read_thread = "task") + Count(callback = "task"))
    + 3 * Len(mq) + InPool

(* Some thread has a step to take that waits for nobody. *)
SomebodyCan ==
  \/ read_thread = "put" \/ callback = "put"
  \/ /\ read_thread = "task" \/ callback = "task"
     /\ mq_fd = "failed" \/ Len(mq) < MqMax
  \/ \E w \in Workers : worker[w].at # "receive" \/ mq # <<>>

Waiting(b) == DB!Held(b) # <<>> /\ ~DB!Wedged(DB!Turned(b))

GoesOn ==
  /\ mq_fd = "open" /\ (Waiting(up_buffer) \/ Waiting(down_buffer)) => WorkLeft > 0
  /\ WorkLeft > 0 /\ Workers # {} => SomebodyCan

WorkRunsOut == FrameArrives \/ CommandArrives \/ ConnectionChanges \/ WorkLeft' < WorkLeft

LEMMA WorkType ==
  ASSUME TypeOK
  PROVE  /\ \A s \in Steps : Cardinality(At(s)) \in Nat
         /\ InPool \in Nat /\ Len(mq) \in Nat /\ WorkLeft \in Nat
<1>1. \A s \in Steps : Cardinality(At(s)) \in Nat
  BY DeviceAssumption, FS_Subset, FS_CardinalityType DEF At
<1>2. InPool \in Nat
  BY <1>1 DEF InPool, Steps
<1>3. Len(mq) \in Nat
  BY LenProperties DEF TypeOK
<1> QED BY <1>1, <1>2, <1>3, Counts DEF WorkLeft

(* A worker goes on: one step fewer there and one more here. *)
LEMMA PoolMoves ==
  ASSUME TypeOK, NEW w \in Workers, NEW r, r.at \in Steps, worker' = [worker EXCEPT ![w] = r]
  PROVE  /\ InPool' = InPool - Weight(worker[w].at) + Weight(r.at)
         /\ InPool \in Nat /\ InPool' \in Nat
<1>0. worker'[w] = r /\ worker[w].at \in Steps /\ \A v \in Workers : v # w => worker'[v] = worker[v]
  BY DEF TypeOK, Jobs
<1>1. ASSUME NEW s \in Steps
      PROVE  /\ Cardinality(At(s)) \in Nat /\ Cardinality(At(s)') \in Nat
             /\ Cardinality(At(s)') = Cardinality(At(s)) - Count(worker[w].at = s) + Count(r.at = s)
  <2> DEFINE A == {v \in Workers : worker[v].at = s}
             B == {v \in Workers : worker'[v].at = s}
  <2>1. /\ \A v \in Workers : v # w => (v \in A <=> v \in B)
        /\ w \in A <=> worker[w].at = s
        /\ w \in B <=> r.at = s
        /\ At(s) = A /\ At(s)' = B
    BY <1>0 DEF At
  <2> HIDE DEF A, B
  <2>2. A \in SUBSET Workers /\ B \in SUBSET Workers
    BY DEF A, B
  <2>3. /\ Cardinality(A) \in Nat /\ Cardinality(B) \in Nat
        /\ Cardinality(B) = Cardinality(A) - Count(w \in A) + Count(w \in B)
    BY <2>1, <2>2, OneWorker
  <2> QED BY <2>1, <2>3 DEF Count
<1> DEFINE c(s) == Cardinality(At(s))
           d(s) == Cardinality(At(s)')
<1>2. \A s \in Steps : /\ c(s) \in Nat /\ d(s) \in Nat
                       /\ d(s) = c(s) - Count(worker[w].at = s) + Count(r.at = s)
  BY <1>1
<1>3. InPool = 2 * (c("send") + c("write")) + c("publish") + c("serial")
  BY DEF InPool
<1>4. InPool' = 2 * (d("send") + d("write")) + d("publish") + d("serial")
  BY DEF InPool
<1>5. ASSUME NEW a \in Steps
      PROVE  Weight(a) = 2 * (Count(a = "send") + Count(a = "write"))
                           + Count(a = "publish") + Count(a = "serial")
  BY DEF Weight, Count, Steps
<1> HIDE DEF c, d
<1>6. {"send", "write", "publish", "serial"} \subseteq Steps
  BY DEF Steps
<1>7. InPool \in Nat /\ InPool' \in Nat
  BY <1>2, <1>3, <1>4, <1>6
<1>8. Weight(worker[w].at) = 2 * (Count(worker[w].at = "send") + Count(worker[w].at = "write"))
                           + Count(worker[w].at = "publish") + Count(worker[w].at = "serial")
  BY <1>0, <1>5
<1>9. Weight(r.at) = 2 * (Count(r.at = "send") + Count(r.at = "write"))
                           + Count(r.at = "publish") + Count(r.at = "serial")
  BY <1>5
<1> QED BY <1>2, <1>3, <1>4, <1>6, <1>7, <1>8, <1>9, Counts

(* A step of the pool takes a task or goes on with one. *)
LEMMA PoolRunsOut ==
  ASSUME TypeOK, NEW w \in Workers, Work(w)
  PROVE  WorkLeft' < WorkLeft
<1>0. /\ WorkLeft \in Nat /\ Len(mq) \in Nat
      /\ UNCHANGED <<read_thread, callback>>
  BY WorkType DEF Work, Receive, SendRead, Publish, WriteRead, WriteSerial
<1> DEFINE rest == 5 * (Count(read_thread = "put") + Count(callback = "put"))
                     + 4 * (Count(read_thread = "task") + Count(callback = "task"))
<1>1. rest \in Nat /\ WorkLeft = rest + 3 * Len(mq) + InPool /\ WorkLeft' = rest + 3 * Len(mq') + InPool'
  <2>1. rest \in Nat
    BY Counts
  <2>2. WorkLeft = rest + 3 * Len(mq) + InPool
    BY DEF WorkLeft
  <2>3. WorkLeft' = rest + 3 * Len(mq') + InPool'
    BY <1>0 DEF WorkLeft
  <2> QED BY <2>1, <2>2, <2>3
<1> HIDE DEF rest
<1>2. CASE Receive(w)
  <2> DEFINE r == [worker[w] EXCEPT !.at = Head(mq)]
  <2>1. /\ worker' = [worker EXCEPT ![w] = r] /\ worker[w].at = "receive" /\ mq' = Tail(mq)
        /\ mq # <<>> /\ Head(mq) \in {"send", "write"} /\ Len(mq') = Len(mq) - 1
    BY <1>2, HeadTailProperties DEF Receive, TypeOK
  <2>2. r.at = Head(mq)
    BY DEF TypeOK, Jobs
  <2> HIDE DEF r
  <2>3. Weight(worker[w].at) = 0 /\ Weight(r.at) = 2 /\ r.at \in Steps
    BY <2>1, <2>2 DEF Weight, Steps
  <2>4. InPool' = InPool - Weight(worker[w].at) + Weight(r.at) /\ InPool \in Nat /\ InPool' \in Nat
    BY <2>1, <2>3, PoolMoves
  <2> QED BY <1>0, <1>1, <2>1, <2>3, <2>4
<1>3. ASSUME NEW r, r.at \in Steps, worker' = [worker EXCEPT ![w] = r], mq' = mq,
             Weight(r.at) < Weight(worker[w].at)
      PROVE  WorkLeft' < WorkLeft
  <2>1. InPool' = InPool - Weight(worker[w].at) + Weight(r.at) /\ InPool \in Nat /\ InPool' \in Nat
    BY <1>3, PoolMoves
  <2>2. Weight(r.at) \in Nat /\ Weight(worker[w].at) \in Nat
    BY <1>3 DEF Weight, Steps, TypeOK, Jobs
  <2> QED BY <1>0, <1>1, <1>3, <2>1, <2>2
<1>4. Weight("send") = 2 /\ Weight("write") = 2 /\ Weight("publish") = 1 /\ Weight("serial") = 1
      /\ Weight(Idle.at) = 0 /\ Idle.at \in Steps
  BY DEF Weight, Idle, Steps
<1>5. CASE SendRead(w)
  <2> DEFINE r == [at |-> "publish", msg |-> DB!Oldest(up_buffer)]
  <2>1. r.at = "publish"
    OBVIOUS
  <2>2. mq' = mq /\ worker[w].at = "send"
        /\ (worker' = [worker EXCEPT ![w] = r] \/ worker' = [worker EXCEPT ![w] = Idle])
    BY <1>5 DEF SendRead
  <2> HIDE DEF r
  <2> QED BY <1>3, <1>4, <2>1, <2>2 DEF Steps
<1>6. CASE WriteRead(w)
  <2> DEFINE r == [at |-> "serial", msg |-> DB!Oldest(down_buffer)]
  <2>1. r.at = "serial"
    OBVIOUS
  <2>2. mq' = mq /\ worker[w].at = "write"
        /\ (worker' = [worker EXCEPT ![w] = r] \/ worker' = [worker EXCEPT ![w] = Idle])
    BY <1>6 DEF WriteRead
  <2> HIDE DEF r
  <2> QED BY <1>3, <1>4, <2>1, <2>2 DEF Steps
<1>7. CASE Publish(w)
  <2>1. mq' = mq /\ worker[w].at = "publish" /\ worker' = [worker EXCEPT ![w] = Idle]
    BY <1>7 DEF Publish
  <2>2. Weight(Idle.at) < Weight(worker[w].at)
    BY <1>4, <2>1
  <2> QED BY <1>3, <1>4, <2>1, <2>2
<1>8. CASE WriteSerial(w)
  <2>1. mq' = mq /\ worker[w].at = "serial" /\ worker' = [worker EXCEPT ![w] = Idle]
    BY <1>8 DEF WriteSerial
  <2>2. Weight(Idle.at) < Weight(worker[w].at)
    BY <1>4, <2>1
  <2> QED BY <1>3, <1>4, <2>1, <2>2
<1> QED BY <1>2, <1>5, <1>6, <1>7, <1>8 DEF Work

(* So does a step of a thread that stores a message and submits its task. *)
LEMMA ThreadsRunOut ==
  ASSUME TypeOK, PutFrame \/ SubmitSend \/ PutCommand \/ SubmitWrite
  PROVE  WorkLeft' < WorkLeft
<1>0. WorkLeft \in Nat /\ Len(mq) \in Nat /\ InPool \in Nat
  BY WorkType
<1>1. UNCHANGED worker /\ InPool' = InPool
  BY DEF PutFrame, SubmitSend, PutCommand, SubmitWrite, InPool, At
<1>2. ASSUME NEW t, mq' = Append(mq, t), t \in {"send", "write"}
      PROVE  Len(mq') = Len(mq) + 1
  BY <1>2, AppendProperties DEF TypeOK
<1>3. CASE PutFrame
  <2>1. read_thread = "put" /\ read_thread' = "task" /\ UNCHANGED <<callback, mq>>
    BY <1>3 DEF PutFrame
  <2> QED BY <1>0, <1>1, <2>1 DEF WorkLeft, Count
<1>4. CASE PutCommand
  <2>1. callback = "put" /\ callback' \in {"task", "idle"} /\ UNCHANGED <<read_thread, mq>>
    BY <1>4 DEF PutCommand
  <2> QED BY <1>0, <1>1, <2>1 DEF WorkLeft, Count
<1>5. CASE SubmitSend
  <2>1. read_thread = "task" /\ read_thread' = "read" /\ UNCHANGED callback
    BY <1>5 DEF SubmitSend
  <2>2. Len(mq') = Len(mq) + 1 \/ Len(mq') = Len(mq)
    BY <1>2, <1>5 DEF SubmitSend, AddTask
  <2> QED BY <1>0, <1>1, <2>1, <2>2 DEF WorkLeft, Count
<1>6. CASE SubmitWrite
  <2>1. callback = "task" /\ callback' = "idle" /\ UNCHANGED read_thread
    BY <1>6 DEF SubmitWrite
  <2>2. Len(mq') = Len(mq) + 1 \/ Len(mq') = Len(mq)
    BY <1>2, <1>6 DEF SubmitWrite, AddTask
  <2> QED BY <1>0, <1>1, <2>1, <2>2 DEF WorkLeft, Count
<1> QED BY <1>3, <1>4, <1>5, <1>6

(* A stored message is work left, and whoever waits for room in the queue    *)
(* waits for a worker that can take a task.                                  *)
LEMMA InvGoesOn ==
  ASSUME IInv
  PROVE  GoesOn
<1>0. TypeOK /\ WorkLeft \in Nat /\ Len(mq) \in Nat /\ InPool \in Nat
  BY WorkType DEF IInv
<1>1. WorkLeft > 0 /\ Workers # {} => SomebodyCan
  <2> SUFFICES ASSUME Workers # {}, ~SomebodyCan PROVE WorkLeft = 0
    BY <1>0
  <2>1. PICK w \in Workers : TRUE
    OBVIOUS
  <2>2. mq = <<>> /\ \A v \in Workers : worker[v].at = "receive"
    BY <2>1 DEF SomebodyCan
  <2>3. Len(mq) = 0
    BY <2>2
  <2>4. \A s \in Steps \ {"receive"} : At(s) = {}
    BY <2>2 DEF At
  <2>5. InPool = 0
    BY <2>4, FS_EmptySet DEF InPool, Steps
  <2>6. read_thread \notin {"put", "task"} /\ callback \notin {"put", "task"}
    BY <2>3, DeviceAssumption DEF SomebodyCan
  <2> QED BY <2>3, <2>5, <2>6 DEF WorkLeft, Count
<1>2. ASSUME mq_fd = "open", Waiting(up_buffer) PROVE WorkLeft > 0
  <2>1. Len(DB!Held(up_buffer)) > 0 /\ Len(DB!Held(up_buffer)) <= Pending("send", read_thread = "task")
    <3>1. DB!Held(up_buffer) \in Seq(1..MaxUp)
      BY <1>0, UpParts
    <3> QED BY <1>2, <3>1, EmptySeq, LenProperties DEF Waiting, IInv, UpServed, Served
  <2>2. WorkLeft = 0 => Pending("send", read_thread = "task") = 0
    <3> SUFFICES ASSUME WorkLeft = 0 PROVE Pending("send", read_thread = "task") = 0
      OBVIOUS
    <3>1. \A s \in Steps : Cardinality(At(s)) \in Nat
      BY <1>0, WorkType
    <3>2. Len(mq) = 0 /\ InPool = 0 /\ Count(read_thread = "task") = 0
      BY <1>0 DEF WorkLeft, Count
    <3>3. Cardinality(At("send")) = 0
      BY <3>1, <3>2 DEF InPool, Steps
    <3>4. mq = <<>>
      BY <1>0, <3>2 DEF TypeOK
    <3>5. Occurrences("send", mq) = 0
      BY <3>4, FS_EmptySet DEF Occurrences
    <3> QED BY <3>2, <3>3, <3>5 DEF Pending
  <2> DEFINE l == Len(DB!Held(up_buffer))
             p == Pending("send", read_thread = "task")
  <2>3. l \in Nat /\ l > 0 /\ l <= p /\ (WorkLeft = 0 => p = 0)
    BY <1>0, <2>1, <2>2, UpParts
  <2> HIDE DEF l, p
  <2> QED BY <1>0, <2>3
<1>3. ASSUME mq_fd = "open", Waiting(down_buffer) PROVE WorkLeft > 0
  <2>1. Len(DB!Held(down_buffer)) > 0 /\ Len(DB!Held(down_buffer)) <= Pending("write", callback = "task")
    <3>1. DB!Held(down_buffer) \in Seq(1..MaxDown)
      BY <1>0, DownParts
    <3> QED BY <1>3, <3>1, EmptySeq, LenProperties DEF Waiting, IInv, DownServed, Served
  <2>2. WorkLeft = 0 => Pending("write", callback = "task") = 0
    <3> SUFFICES ASSUME WorkLeft = 0 PROVE Pending("write", callback = "task") = 0
      OBVIOUS
    <3>1. \A s \in Steps : Cardinality(At(s)) \in Nat
      BY <1>0, WorkType
    <3>2. Len(mq) = 0 /\ InPool = 0 /\ Count(callback = "task") = 0
      BY <1>0 DEF WorkLeft, Count
    <3>3. Cardinality(At("write")) = 0
      BY <3>1, <3>2 DEF InPool, Steps
    <3>4. mq = <<>>
      BY <1>0, <3>2 DEF TypeOK
    <3>5. Occurrences("write", mq) = 0
      BY <3>4, FS_EmptySet DEF Occurrences
    <3> QED BY <3>2, <3>3, <3>5 DEF Pending
  <2> DEFINE l == Len(DB!Held(down_buffer))
             p == Pending("write", callback = "task")
  <2>3. l \in Nat /\ l > 0 /\ l <= p /\ (WorkLeft = 0 => p = 0)
    BY <1>0, <2>1, <2>2, DownParts
  <2> HIDE DEF l, p
  <2> QED BY <1>0, <2>3
<1> QED BY <1>1, <1>2, <1>3 DEF GoesOn

(* In a process that has its queue, what has arrived is worked off: as long  *)
(* as a message waits in a buffer that can be read there is work left.  In   *)
(* every process, somebody can take a step as long as there is work left,    *)
(* although the read thread and the callback may wait for a full queue, and  *)
(* every step but an arrival leaves less of it by a number                   *)
(* (app_pool.c:18-30, 90; app_device.c:70-76, 118-120, 238-245).             *)
(* BuffersDrain adds that the steps are taken.                               *)
THEOREM WorkedOff == Spec => []GoesOn /\ [][WorkRunsOut]_vars
<1>1. ASSUME IInv, Next
      PROVE  WorkRunsOut
  <2>1. TypeOK
    BY <1>1 DEF IInv
  <2> QED BY <1>1, <2>1, PoolRunsOut, ThreadsRunOut DEF Next, ReadThread, Callback, WorkRunsOut
<1>2. IInv /\ Next => WorkRunsOut
  BY <1>1
<1>3. IInv => GoesOn
  BY InvGoesOn
<1> QED BY <1>2, <1>3, Invariance, PTL DEF Spec

===============================================================================
