------------------------------ MODULE FifoQueue ------------------------------
(***************************************************************************)
(* What the double buffer of app/app_buffer.c promises to its callers: a   *)
(* linearizable first-in first-out queue of messages.  A call is invoked,  *)
(* takes effect in one step at some moment before it returns, and returns. *)
(* The two reasons for which the code may refuse a call that a queue with  *)
(* unlimited room would serve are part of the promise: a write may find no *)
(* room, and a read may find more bytes than its caller's array holds.     *)
(***************************************************************************)
EXTENDS Naturals, Sequences

CONSTANTS
  Writers,      (* threads that call app_buffer_write                       *)
  Readers,      (* threads that call app_buffer_read                        *)
  Msgs,         (* the messages                                             *)
  DataSize,     (* DataSize[m]: the length of message m in bytes            *)
  MaxDataSize,  (* the largest length a write accepts                       *)
  TotalSize     (* the room of an empty queue in bytes, length byte included*)

VARIABLES
  queue,  (* the messages accepted and not yet read, oldest first           *)
  phase,  (* phase[t]: "idle", "write" or "read" (invoked), "done"          *)
  arg,    (* arg[t]: the message t is writing, or "none"                    *)
  res     (* res[t]: what the call of t returns, once it took effect        *)

vars == <<queue, phase, arg, res>>

Threads == Writers \cup Readers

(* The moment a call of t takes effect, with result r. *)
TakeEffect(t, op, r) ==
  /\ phase[t] = op
  /\ phase' = [phase EXCEPT ![t] = "done"]
  /\ res' = [res EXCEPT ![t] = r]
  /\ UNCHANGED arg

Init ==
  /\ queue = <<>>
  /\ phase = [t \in Threads |-> "idle"]
  /\ arg = [t \in Threads |-> "none"]
  /\ res = [t \in Threads |-> "none"]

InvokeWrite(t, m) ==
  /\ phase[t] = "idle"
  /\ phase' = [phase EXCEPT ![t] = "write"]
  /\ arg' = [arg EXCEPT ![t] = m]
  /\ UNCHANGED <<queue, res>>

InvokeRead(t) ==
  /\ phase[t] = "idle"
  /\ phase' = [phase EXCEPT ![t] = "read"]
  /\ UNCHANGED <<queue, arg, res>>

Put(t) ==
  /\ TakeEffect(t, "write", "ok")
  /\ queue' = Append(queue, arg[t])

(* A message that fits is refused only when other messages take room. *)
PutFull(t) ==
  /\ TakeEffect(t, "write", "full")
  /\ queue # <<>> \/ DataSize[arg[t]] + 1 > TotalSize
  /\ UNCHANGED queue

(* A length that the length byte cannot hold is refused at once. *)
PutInvalid(t, m) ==
  /\ phase[t] = "idle"
  /\ DataSize[m] \notin 1..MaxDataSize
  /\ phase' = [phase EXCEPT ![t] = "done"]
  /\ arg' = [arg EXCEPT ![t] = m]
  /\ res' = [res EXCEPT ![t] = "invalid"]
  /\ UNCHANGED queue

Get(t) ==
  /\ queue # <<>>
  /\ TakeEffect(t, "read", Head(queue))
  /\ queue' = Tail(queue)

(* A read reports an empty queue only when it is empty. *)
GetEmpty(t) ==
  /\ queue = <<>>
  /\ TakeEffect(t, "read", "empty")
  /\ UNCHANGED queue

GetSmall(t) ==
  /\ queue # <<>>
  /\ TakeEffect(t, "read", "small")
  /\ UNCHANGED queue

Return(t) ==
  /\ phase[t] = "done"
  /\ phase' = [phase EXCEPT ![t] = "idle"]
  /\ arg' = [arg EXCEPT ![t] = "none"]
  /\ res' = [res EXCEPT ![t] = "none"]
  /\ UNCHANGED queue

Next ==
  \/ \E t \in Writers, m \in Msgs : InvokeWrite(t, m) \/ PutInvalid(t, m)
  \/ \E t \in Writers : Put(t) \/ PutFull(t)
  \/ \E t \in Readers : InvokeRead(t) \/ Get(t) \/ GetEmpty(t) \/ GetSmall(t)
  \/ \E t \in Threads : Return(t)

Spec == Init /\ [][Next]_vars
==============================================================================
