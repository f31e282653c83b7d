----------------------------- MODULE AtomicBuffer -----------------------------
(***************************************************************************)
(* What the callers of app/app_buffer.c may take for granted: each call to *)
(* the double buffer is one step of DoubleBuffer, made at some moment      *)
(* between the call and its return.  FifoQueue promises the order of the   *)
(* messages; this promises in addition when a call fails, and what a read  *)
(* that fails does to the buffer, on which the data paths of app_device.c  *)
(* depend.                                                                 *)
(***************************************************************************)
EXTENDS DoubleBuffer

CONSTANTS
  Writers,      (* threads that call app_buffer_write                       *)
  Readers,      (* threads that call app_buffer_read                        *)
  Msgs,         (* the messages                                             *)
  MaxDataSize   (* the largest length a write accepts                       *)

VARIABLES
  buffer, (* the double buffer, a record of DoubleBuffer                    *)
  phase,  (* phase[t]: "idle", "write" or "read" (called), "done"           *)
  arg,    (* arg[t]: the message t is writing, or "none"                    *)
  res     (* res[t]: what the call of t returns, once its step was made     *)

vars == <<buffer, phase, arg, res>>

Threads == Writers \cup Readers

Init ==
  /\ buffer = EmptyBuffer
  /\ phase = [t \in Threads |-> "idle"]
  /\ arg = [t \in Threads |-> "none"]
  /\ res = [t \in Threads |-> "none"]

CallWrite(t, m) ==
  /\ phase[t] = "idle"
  /\ Size(m) \in 1..MaxDataSize
  /\ phase' = [phase EXCEPT ![t] = "write"]
  /\ arg' = [arg EXCEPT ![t] = m]
  /\ UNCHANGED <<buffer, res>>

CallInvalid(t, m) ==
  /\ phase[t] = "idle"
  /\ Size(m) \notin 1..MaxDataSize
  /\ phase' = [phase EXCEPT ![t] = "done"]
  /\ arg' = [arg EXCEPT ![t] = m]
  /\ res' = [res EXCEPT ![t] = "invalid"]
  /\ UNCHANGED buffer

CallRead(t) ==
  /\ phase[t] = "idle"
  /\ phase' = [phase EXCEPT ![t] = "read"]
  /\ UNCHANGED <<buffer, arg, res>>

(* The step of a call: it leaves the buffer as b and returns r. *)
Step(t, call, b, r) ==
  /\ phase[t] = call
  /\ phase' = [phase EXCEPT ![t] = "done"]
  /\ res' = [res EXCEPT ![t] = r]
  /\ buffer' = b
  /\ UNCHANGED arg

WriteStep(t) ==
  \/ Step(t, "write", Put(buffer, arg[t]), "ok") /\ HasRoom(buffer, arg[t])
  \/ Step(t, "write", buffer, "full") /\ ~HasRoom(buffer, arg[t])

(* A read that fails exchanges the sub-buffers all the same. *)
ReadStep(t) ==
  \/ Readable(buffer) /\ Step(t, "read", Taken(buffer), Oldest(buffer))
  \/ /\ Turned(buffer).read.msgs = <<>>
     /\ Step(t, "read", Turned(buffer), "empty")
  \/ /\ Turned(buffer).read.msgs # <<>>
     /\ Wedged(Turned(buffer))
     /\ Step(t, "read", Turned(buffer), "small")

Return(t) ==
  /\ phase[t] = "done"
  /\ phase' = [phase EXCEPT ![t] = "idle"]
  /\ arg' = [arg EXCEPT ![t] = "none"]
  /\ res' = [res EXCEPT ![t] = "none"]
  /\ UNCHANGED buffer

Next ==
  \/ \E t \in Writers, m \in Msgs : CallWrite(t, m) \/ CallInvalid(t, m)
  \/ \E t \in Writers : WriteStep(t)
  \/ \E t \in Readers : CallRead(t) \/ ReadStep(t)
  \/ \E t \in Threads : Return(t)

Spec == Init /\ [][Next]_vars
==============================================================================
