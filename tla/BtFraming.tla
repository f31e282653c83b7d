------------------------------ MODULE BtFraming ------------------------------
(***************************************************************************)
(* Framing of the serial line: app_bt_postRead of app/app_bt.c.  The       *)
(* bluetooth module sends frames                                           *)
(*     f1 dd  length  sender's MADDR (2)  own MADDR (2)  message (1..12)   *)
(* and read() hands the bytes over in pieces of any size.  Every call      *)
(* appends one piece to read_buffer and returns at most one message.       *)
(*                                                                         *)
(* The module sends frames, each with noise in front of it, while the      *)
(* program reads.  read_buffer is not bounded here; its 1024 bytes are the *)
(* subject of KeepsUp.                                                     *)
(***************************************************************************)
EXTENDS Naturals, Sequences

CONSTANTS
  Frames,     (* the frames that may be sent: noise, id, own and message     *)
  MaxFrames,  (* bound: how many are sent                                    *)
  MaxReads    (* the bytes one read() may return at most (125)               *)

Byte == 0..255

Head1 == 241   (* f1 *)
Head2 == 221   (* dd *)

HasHead(s, i) == s[i] = Head1 /\ s[i + 1] = Head2

(* Noise in front of a frame holds no header of its own.                     *)
ASSUME FramingAssumption ==
  /\ MaxFrames \in Nat
  /\ MaxReads \subseteq Nat \ {0}
  /\ \A f \in Frames :
       /\ f.noise \in Seq(Byte) /\ f.id \in Seq(Byte) /\ f.own \in Seq(Byte) /\ f.message \in Seq(Byte)
       /\ Len(f.id) = 2 /\ Len(f.own) = 2 /\ Len(f.message) \in 1..12
       /\ \A i \in 1..(Len(f.noise) - 1) : ~HasHead(f.noise, i)

VARIABLES
  pace,         (* the most bytes that are there for one read()              *)
  sent,         (* the frames the module has sent                            *)
  wire,         (* every byte it has sent                                    *)
  starts,       (* for each frame, how many bytes came before its header     *)
  taken,        (* how many of the bytes were read                           *)
  read_buffer,  (* the first read_len bytes of read_buffer                   *)
  stored        (* the messages post_read returned, in order                 *)

vars == <<pace, sent, wire, starts, taken, read_buffer, stored>>

OnWire(f) == <<Head1, Head2, Len(f.message) + 4>> \o f.id \o f.own \o f.message

(* conn_type, id_len, msg_len, id, msg *)
Message(f) == <<1, 2, Len(f.message)>> \o f.id \o f.message

Init ==
  /\ pace \in MaxReads
  /\ sent = <<>> /\ wire = <<>> /\ starts = <<>>
  /\ taken = 0
  /\ read_buffer = <<>>
  /\ stored = <<>>

(* The module sends a frame. *)
Send(f) ==
  /\ Len(sent) < MaxFrames
  /\ sent' = Append(sent, f)
  /\ starts' = Append(starts, Len(wire) + Len(f.noise))
  /\ wire' = wire \o f.noise \o OnWire(f)
  /\ UNCHANGED <<pace, taken, read_buffer, stored>>

------------------------------------------------------------------------------
(* Where the loop finds a header: with eight bytes at least from there on. *)
Heads(s) == {i \in 1..(Len(s) - 7) : HasHead(s, i)}

First(s) == CHOOSE i \in Heads(s) : \A j \in Heads(s) : i <= j

(* remove_data *)
RemoveData(s, len) == SubSeq(s, len + 1, Len(s))

(* blue_len: the length byte and the three bytes up to it. *)
BlueLen(s) == s[3] + 3

(* s begins with a header; no data until the frame is complete. *)
Extract(s) ==
  IF Len(s) < BlueLen(s)
  THEN [data |-> <<>>, rest |-> s]
  ELSE [data |-> <<1, 2, s[3] - 4>> \o SubSeq(s, 4, 5) \o SubSeq(s, 8, BlueLen(s)),
        rest |-> RemoveData(s, BlueLen(s))]

(* Mutant: nothing is kept of a buffer without a header. *)
PostReadClears(s) ==
  IF Len(s) < 8
  THEN [data |-> <<>>, rest |-> s]
  ELSE IF Heads(s) = {}
       THEN [data |-> <<>>, rest |-> <<>>]
       ELSE Extract(RemoveData(s, First(s) - 1))

(* Mutant: a frame is complete one byte after the shortest one ends. *)
PostReadNine(s) ==
  IF Len(s) <= 8
  THEN [data |-> <<>>, rest |-> s]
  ELSE IF Heads(s) = {}
       THEN [data |-> <<>>, rest |-> RemoveData(s, Len(s) - 7)]
       ELSE Extract(RemoveData(s, First(s) - 1))

(* What post_read makes of the buffer once the new bytes are appended: the   *)
(* bytes in front of the first header go, and without a header all but the   *)
(* last seven.                                                               *)
PostRead(s) ==
  IF Len(s) < 8
  THEN [data |-> <<>>, rest |-> s]
  ELSE IF Heads(s) = {}
       THEN [data |-> <<>>, rest |-> RemoveData(s, Len(s) - 7)]
       ELSE Extract(RemoveData(s, First(s) - 1))

(* One turn of read_pthread_func: n bytes are read and handed to post_read;  *)
(* what it returns is stored if it is not empty.                             *)
Read(n) ==
  LET result == PostRead(read_buffer \o SubSeq(wire, taken + 1, taken + n)) IN
  /\ taken + n <= Len(wire)
  /\ taken' = taken + n
  /\ read_buffer' = result.rest
  /\ stored' = IF result.data # <<>> THEN Append(stored, result.data) ELSE stored
  /\ UNCHANGED <<pace, sent, wire, starts>>

ReadSome == \E n \in 1..pace : Read(n)

(* Nothing more is sent; read() blocks. *)
Silent == taken = Len(wire) /\ UNCHANGED vars

Next == (\E f \in Frames : Send(f)) \/ ReadSome \/ Silent

Spec == Init /\ [][Next]_vars

FairSpec == Spec /\ WF_vars(ReadSome)

------------------------------------------------------------------------------
(* Properties *)

(* The frame whose message comes next. *)
NextFrame == Len(stored) + 1

(* What was sent and neither returned nor thrown away. *)
Remaining == read_buffer \o SubSeq(wire, taken + 1, Len(wire))

(* What the pieces are and where they end makes no difference: the messages  *)
(* are those of the first frames, whole and in order, and from the header of *)
(* the next frame on every byte is still in the buffer or on the line; only  *)
(* noise is ever thrown away (app_bt.c:131-181).                             *)
NothingLost ==
  /\ stored = [i \in 1..Len(stored) |-> Message(sent[i])]
  /\ Len(stored) < Len(sent) =>
       \E gone \in 0..Len(Remaining) :
         SubSeq(Remaining, gone + 1, Len(Remaining)) = SubSeq(wire, starts[NextFrame] + 1, Len(wire))

(* Reads that return no more than the shortest frame leave no complete frame *)
(* behind: post_read, which returns one message a call, has returned every   *)
(* frame whose last byte was read, so of the next one a byte is still on the *)
(* line, and its buffer stays shorter than one frame and the noise before    *)
(* it.  Larger reads make it fall behind (app_bt.c:163-174).                 *)
KeepsUp ==
  pace <= 8 /\ Len(stored) < Len(sent) =>
    /\ taken < starts[NextFrame] + Len(OnWire(sent[NextFrame]))
    /\ Len(read_buffer) < Len(sent[NextFrame].noise \o OnWire(sent[NextFrame]))

(* Every frame is stored once the line falls silent, for reads like those:   *)
(* no frame stays in the buffer until something else arrives.                *)
AllStored == pace <= 8 => []<>(Len(stored) = Len(sent))
==============================================================================
