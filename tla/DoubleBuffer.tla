----------------------------- MODULE DoubleBuffer -----------------------------
(***************************************************************************)
(* The calls of app/app_buffer.c taken as single steps, for the modules    *)
(* that use the double buffer.  AppBuffer models the same calls lock by    *)
(* lock and implements AtomicBuffer, in which each call is one of these    *)
(* steps: its callers may take them whole.  A buffer is a record of the    *)
(* sub-buffer being read and the one being written, each with the sequence *)
(* of the messages it holds and its used_size, 0 just when it holds none.  *)
(***************************************************************************)
EXTENDS Integers, Sequences

CONSTANTS
  Size(_),      (* Size(m): the bytes of message m                          *)
  TotalSize,    (* total_size of each sub-buffer (1024)                     *)
  BufferSize    (* the array the callers of app_buffer_read pass (125)      *)

EmptySub == [msgs |-> <<>>, used_size |-> 0]

EmptyBuffer == [read |-> EmptySub, write |-> EmptySub]

(* app_buffer_write succeeds: every message takes one length byte more than  *)
(* its data.                                                                 *)
HasRoom(b, m) == b.write.used_size + 1 + Size(m) <= TotalSize

Put(b, m) ==
  [b EXCEPT !.write = [msgs |-> Append(@.msgs, m), used_size |-> @.used_size + 1 + Size(m)]]

(* Mutant: the roles are exchanged at every read. *)
TurnedAlways(b) == [read |-> b.write, write |-> b.read]

(* The roles are exchanged when the sub-buffer being read is empty; the      *)
(* exchange stands even when the read then fails.                            *)
Turned(b) ==
  IF b.read.msgs = <<>> THEN [read |-> b.write, write |-> b.read] ELSE b

(* What is left to read exceeds the array: the read fails, now and forever.  *)
Wedged(b) == b.read.used_size > BufferSize

(* app_buffer_read returns a message, and which. *)
Readable(b) == Turned(b).read.msgs # <<>> /\ ~Wedged(Turned(b))
Oldest(b)   == Head(Turned(b).read.msgs)

(* Mutant: the message is copied out and stays where it was. *)
TakenNotRemoved(b) == Turned(b)

(* The buffer once that message was taken. *)
Taken(b) ==
  [Turned(b) EXCEPT !.read = [msgs |-> Tail(@.msgs),
                              used_size |-> @.used_size - 1 - Size(Head(@.msgs))]]

(* Everything the buffer holds, oldest first. *)
Held(b) == b.read.msgs \o b.write.msgs
==============================================================================
