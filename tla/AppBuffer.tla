------------------------------ MODULE AppBuffer ------------------------------
(***************************************************************************)
(* The double buffer of app/app_buffer.c, one action per step that other   *)
(* threads can observe.  Writers append to sub-buffer write_index under    *)
(* write_mutex; readers take the oldest message of sub-buffer read_index   *)
(* under read_mutex and exchange the two sub-buffers, under both mutexes,  *)
(* when theirs is empty.                                                   *)
(*                                                                         *)
(* The bytes of a sub-buffer are abstracted to the sequence of messages    *)
(* they encode; used_size is kept as the code computes it, in bytes, each  *)
(* message taking one length byte more than its data.                      *)
(***************************************************************************)
EXTENDS Integers, Sequences

CONSTANTS
  Writers,      (* threads that call app_buffer_write                       *)
  Readers,      (* threads that call app_buffer_read                        *)
  Msgs,         (* the messages                                             *)
  DataSize,     (* DataSize[m]: the length of message m, data_size          *)
  MaxDataSize,  (* 255: the largest value of the length byte                *)
  TotalSize,    (* total_size of each sub-buffer (1024)                     *)
  BufferSize    (* buffer_size, the array every reader passes (125)         *)

ASSUME BufferAssumption ==
  /\ DataSize \in [Msgs -> Nat]
  /\ MaxDataSize \in Nat
  /\ TotalSize \in Nat
  /\ BufferSize \in Nat
  /\ "garbage" \notin Msgs

VARIABLES
  msgs,         (* msgs[i]: the messages encoded in sub_buffer[i]->ptr      *)
  used,         (* used[i]: sub_buffer[i]->used_size                        *)
  read_index,
  write_index,
  read_mutex,   (* the set of threads that hold it: empty or one thread     *)
  write_mutex,
  pc,           (* pc[t]: where t is in its call                            *)
  sub,          (* sub[t]: the index t loaded into write_buffer/read_buffer *)
  arg,          (* arg[t]: the message t passed to app_buffer_write         *)
  ret           (* ret[t]: the result so far, and what was copied to data   *)

vars == <<msgs, used, read_index, write_index, read_mutex, write_mutex,
          pc, sub, arg, ret>>

Threads == Writers \cup Readers

(* Control points, the locks held at each, and where sub[t] is in use. *)
HoldsRead  == {"r_peek", "r_lock_w", "r_swap", "r_unlock_w", "r_size",
               "r_copy", "r_shift", "r_unlock"}
HoldsWrite == {"w_check", "w_len", "w_data", "w_unlock", "r_swap",
               "r_unlock_w"}
Locations  == HoldsRead \cup HoldsWrite \cup {"idle", "w_lock", "r_lock", "done"}

(* -1 stands for several reasons in the code; the model keeps them apart. *)
Failures == {"invalid", "full", "empty", "small"}

Goto(t, from, to) ==
  /\ pc[t] = from
  /\ pc' = [pc EXCEPT ![t] = to]

(* What ptr[0] and the bytes after it decode to. *)
First(s) == IF s = <<>> THEN "garbage" ELSE Head(s)
Rest(s)  == IF s = <<>> THEN s ELSE Tail(s)
Bytes(m) == IF m = "garbage" THEN 0 ELSE DataSize[m]

(* app_buffer_init: both sub-buffers empty, reading 0 and writing 1. *)
Init ==
  /\ msgs = [i \in 0..1 |-> <<>>]
  /\ used = [i \in 0..1 |-> 0]
  /\ read_index = 0
  /\ write_index = 1
  /\ read_mutex = {}
  /\ write_mutex = {}
  /\ pc = [t \in Threads |-> "idle"]
  /\ sub = [t \in Threads |-> 0]
  /\ arg = [t \in Threads |-> "none"]
  /\ ret = [t \in Threads |-> "none"]

------------------------------------------------------------------------------
(* app_buffer_write *)

(* The length is checked before the lock is taken. *)
WriteCall(t, m) ==
  /\ DataSize[m] \in 1..MaxDataSize
  /\ Goto(t, "idle", "w_lock")
  /\ arg' = [arg EXCEPT ![t] = m]
  /\ UNCHANGED <<msgs, used, read_index, write_index, read_mutex, write_mutex,
                 sub, ret>>

WriteInvalid(t, m) ==
  /\ DataSize[m] \notin 1..MaxDataSize
  /\ Goto(t, "idle", "done")
  /\ arg' = [arg EXCEPT ![t] = m]
  /\ ret' = [ret EXCEPT ![t] = "invalid"]
  /\ UNCHANGED <<msgs, used, read_index, write_index, read_mutex, write_mutex,
                 sub>>

WriteLock(t) ==
  /\ Goto(t, "w_lock", "w_check")
  /\ write_mutex = {}
  /\ write_mutex' = {t}
  /\ UNCHANGED <<msgs, used, read_index, write_index, read_mutex, sub, arg, ret>>

(* used_size + 1 + data_size > total_size: "buffer is full". *)
WriteRoom(t) ==
  /\ Goto(t, "w_check", "w_len")
  /\ used[write_index] + 1 + DataSize[arg[t]] <= TotalSize
  /\ sub' = [sub EXCEPT ![t] = write_index]
  /\ UNCHANGED <<msgs, used, read_index, write_index, read_mutex, write_mutex,
                 arg, ret>>

WriteFull(t) ==
  /\ Goto(t, "w_check", "w_unlock")
  /\ used[write_index] + 1 + DataSize[arg[t]] > TotalSize
  /\ sub' = [sub EXCEPT ![t] = write_index]
  /\ ret' = [ret EXCEPT ![t] = "full"]
  /\ UNCHANGED <<msgs, used, read_index, write_index, read_mutex, write_mutex,
                 arg>>

(* The length byte is in place and counted; the data are not. *)
WriteLength(t) ==
  /\ Goto(t, "w_len", "w_data")
  /\ used' = [used EXCEPT ![sub[t]] = @ + 1]
  /\ UNCHANGED <<msgs, read_index, write_index, read_mutex, write_mutex, sub,
                 arg, ret>>

WriteData(t) ==
  /\ Goto(t, "w_data", "w_unlock")
  /\ msgs' = [msgs EXCEPT ![sub[t]] = Append(@, arg[t])]
  /\ used' = [used EXCEPT ![sub[t]] = @ + DataSize[arg[t]]]
  /\ ret' = [ret EXCEPT ![t] = "ok"]
  /\ UNCHANGED <<read_index, write_index, read_mutex, write_mutex, sub, arg>>

WriteUnlock(t) ==
  /\ Goto(t, "w_unlock", "done")
  /\ write_mutex' = write_mutex \ {t}
  /\ UNCHANGED <<msgs, used, read_index, write_index, read_mutex, sub, arg, ret>>

------------------------------------------------------------------------------
(* app_buffer_read *)

ReadCall(t) ==
  /\ Goto(t, "idle", "r_lock")
  /\ UNCHANGED <<msgs, used, read_index, write_index, read_mutex, write_mutex,
                 sub, arg, ret>>

ReadLock(t) ==
  /\ Goto(t, "r_lock", "r_peek")
  /\ read_mutex = {}
  /\ read_mutex' = {t}
  /\ UNCHANGED <<msgs, used, read_index, write_index, write_mutex, sub, arg, ret>>

(* used_size of the read sub-buffer is examined without the write lock. *)
ReadPeek(t) ==
  /\ Goto(t, "r_peek", IF used[read_index] = 0 THEN "r_lock_w" ELSE "r_size")
  /\ sub' = [sub EXCEPT ![t] = read_index]
  /\ UNCHANGED <<msgs, used, read_index, write_index, read_mutex, write_mutex,
                 arg, ret>>

(* Mutant: the roles are exchanged under read_mutex alone. *)
ReadLockWriteSkipped(t) ==
  /\ Goto(t, "r_lock_w", "r_swap")
  /\ UNCHANGED <<msgs, used, read_index, write_index, read_mutex, write_mutex,
                 sub, arg, ret>>

ReadLockWrite(t) ==
  /\ Goto(t, "r_lock_w", "r_swap")
  /\ write_mutex = {}
  /\ write_mutex' = {t}
  /\ UNCHANGED <<msgs, used, read_index, write_index, read_mutex, sub, arg, ret>>

(* Mutants: the local read_buffer is not set again after the exchange;       *)
(* "empty" is decided on the old sub-buffer.                                 *)
ReadSwapStaleLocal(t) ==
  /\ Goto(t, "r_swap", "r_unlock_w")
  /\ read_index' = write_index
  /\ write_index' = (write_index + 1) % 2
  /\ ret' = [ret EXCEPT ![t] = IF used[write_index] = 0 THEN "empty" ELSE @]
  /\ UNCHANGED <<msgs, used, read_mutex, write_mutex, sub, arg>>

ReadSwapOldEmpty(t) ==
  /\ Goto(t, "r_swap", "r_unlock_w")
  /\ read_index' = write_index
  /\ write_index' = (write_index + 1) % 2
  /\ sub' = [sub EXCEPT ![t] = write_index]
  /\ ret' = [ret EXCEPT ![t] = IF used[read_index] = 0 THEN "empty" ELSE @]
  /\ UNCHANGED <<msgs, used, read_mutex, write_mutex, arg>>

(* Checked again under both locks; exchanged when still empty. *)
ReadSwap(t) ==
  LET empty == used[read_index] = 0
      r     == IF empty THEN write_index ELSE read_index
  IN  /\ Goto(t, "r_swap", "r_unlock_w")
      /\ read_index' = r
      /\ write_index' = IF empty THEN (write_index + 1) % 2 ELSE write_index
      /\ sub' = [sub EXCEPT ![t] = r]
      /\ ret' = [ret EXCEPT ![t] = IF used[r] = 0 THEN "empty" ELSE @]
      /\ UNCHANGED <<msgs, used, read_mutex, write_mutex, arg>>

(* Mutant: a read of an empty buffer tries again instead of returning. *)
ReadUnlockWriteRetry(t) ==
  /\ Goto(t, "r_unlock_w", IF ret[t] = "empty" THEN "r_peek" ELSE "r_size")
  /\ write_mutex' = write_mutex \ {t}
  /\ ret' = [ret EXCEPT ![t] = "none"]
  /\ UNCHANGED <<msgs, used, read_index, write_index, read_mutex, sub, arg>>

ReadUnlockWrite(t) ==
  /\ Goto(t, "r_unlock_w", IF ret[t] = "empty" THEN "r_unlock" ELSE "r_size")
  /\ write_mutex' = write_mutex \ {t}
  /\ UNCHANGED <<msgs, used, read_index, write_index, read_mutex, sub, arg, ret>>

(* Mutant: the array is compared with the message that would be returned. *)
ReadFitsFirst(t) ==
  /\ Goto(t, "r_size", "r_copy")
  /\ Bytes(First(msgs[sub[t]])) <= BufferSize
  /\ UNCHANGED <<msgs, used, read_index, write_index, read_mutex, write_mutex,
                 sub, arg, ret>>

(* used_size > buffer_size: "buffer size is too small". *)
ReadFits(t) ==
  /\ Goto(t, "r_size", "r_copy")
  /\ used[sub[t]] <= BufferSize
  /\ UNCHANGED <<msgs, used, read_index, write_index, read_mutex, write_mutex,
                 sub, arg, ret>>

ReadSmall(t) ==
  /\ Goto(t, "r_size", "r_unlock")
  /\ used[sub[t]] > BufferSize
  /\ ret' = [ret EXCEPT ![t] = "small"]
  /\ UNCHANGED <<msgs, used, read_index, write_index, read_mutex, write_mutex,
                 sub, arg>>

ReadCopy(t) ==
  /\ Goto(t, "r_copy", "r_shift")
  /\ ret' = [ret EXCEPT ![t] = First(msgs[sub[t]])]
  /\ UNCHANGED <<msgs, used, read_index, write_index, read_mutex, write_mutex,
                 sub, arg>>

(* The rest is moved left over the message that was copied. *)
ReadShift(t) ==
  /\ Goto(t, "r_shift", "r_unlock")
  /\ msgs' = [msgs EXCEPT ![sub[t]] = Rest(@)]
  /\ used' = [used EXCEPT ![sub[t]] = @ - Bytes(ret[t]) - 1]
  /\ UNCHANGED <<read_index, write_index, read_mutex, write_mutex, sub, arg, ret>>

ReadUnlock(t) ==
  /\ Goto(t, "r_unlock", "done")
  /\ read_mutex' = read_mutex \ {t}
  /\ UNCHANGED <<msgs, used, read_index, write_index, write_mutex, sub, arg, ret>>

------------------------------------------------------------------------------
(* The call returns to its caller, whose locals die. *)
Return(t) ==
  /\ Goto(t, "done", "idle")
  /\ sub' = [sub EXCEPT ![t] = 0]
  /\ arg' = [arg EXCEPT ![t] = "none"]
  /\ ret' = [ret EXCEPT ![t] = "none"]
  /\ UNCHANGED <<msgs, used, read_index, write_index, read_mutex, write_mutex>>

Write(t) ==
  \/ \E m \in Msgs : WriteCall(t, m) \/ WriteInvalid(t, m)
  \/ WriteLock(t) \/ WriteRoom(t) \/ WriteFull(t)
  \/ WriteLength(t) \/ WriteData(t) \/ WriteUnlock(t)

Read(t) ==
  \/ ReadCall(t) \/ ReadLock(t) \/ ReadPeek(t)
  \/ ReadLockWrite(t) \/ ReadSwap(t) \/ ReadUnlockWrite(t)
  \/ ReadFits(t) \/ ReadSmall(t) \/ ReadCopy(t) \/ ReadShift(t)
  \/ ReadUnlock(t)

Next ==
  \/ \E t \in Writers : Write(t)
  \/ \E t \in Readers : Read(t)
  \/ \E t \in Threads : Return(t)

Spec == Init /\ [][Next]_vars

(* The scheduler lets a thread inside a call take its next step.  Nothing    *)
(* obliges a thread to make a call, and nothing makes a mutex fair: a thread *)
(* may lose the race for a lock every time it is released.                   *)
Advance(t) ==
  \/ pc[t] # "idle" /\ (Write(t) \/ Read(t))
  \/ Return(t)

FairSpec == Spec /\ \A t \in Threads : WF_vars(Advance(t))

------------------------------------------------------------------------------
(* Properties *)

(* The type invariant. *)
TypeOK ==
  /\ msgs \in [0..1 -> Seq(Msgs)]
  /\ used \in [0..1 -> Nat]
  /\ read_index \in 0..1
  /\ write_index \in 0..1
  /\ read_mutex \in SUBSET Readers
  /\ write_mutex \in SUBSET Threads
  /\ pc \in [Threads -> Locations]
  /\ sub \in [Threads -> 0..1]
  /\ arg \in [Threads -> Msgs \cup {"none"}]
  /\ ret \in [Threads -> Msgs \cup Failures \cup {"none", "ok"}]

(* The sub-buffers whose fields or bytes the next step of t reads or writes. *)
Touches(t) ==
  CASE pc[t] = "w_check"                       -> {write_index}
    [] pc[t] \in {"w_len", "w_data"}           -> {sub[t]}
    [] pc[t] = "r_peek"                        -> {read_index}
    [] pc[t] = "r_swap"                        -> {0, 1}
    [] pc[t] \in {"r_size", "r_copy", "r_shift"} -> {sub[t]}
    [] OTHER                                   -> {}

(* No two threads are ever about to access the same sub-buffer, although     *)
(* the reader looks at used_size under read_mutex alone, and both sides keep *)
(* the sub-buffer they chose in a local while the indices may be exchanged   *)
(* (app_buffer.c:117, 153, 160, 167).                                        *)
ExclusiveAccess ==
  \A t, u \in Threads : t # u => Touches(t) \cap Touches(u) = {}

(* off[k] is the offset of message k of s in n bytes laid end to end. *)
IsLayout(off, s, n) ==
  /\ off[1] = 0
  /\ off[Len(s) + 1] = n
  /\ \A k \in 1..Len(s) : off[k + 1] = off[k] + 1 + DataSize[s[k]]
  /\ \A j, k \in 1..(Len(s) + 1) : j < k => off[j] < off[k]

Encodes(s, n) == \E off \in [1..(Len(s) + 1) -> 0..n] : IsLayout(off, s, n)

(* A length byte of sub-buffer i is counted whose data are not yet there. *)
HalfWritten(i) == \E t \in Threads : pc[t] = "w_data" /\ sub[t] = i

(* used_size is exactly the bytes of the messages in the sub-buffer, back to *)
(* back, and never more than were allocated; a message half written by the   *)
(* writer is counted by its length byte alone (app_buffer.c:126-129, 191-195)*)
UsedIsExact ==
  \A i \in 0..1 :
    /\ Encodes(msgs[i], used[i] - (IF HalfWritten(i) THEN 1 ELSE 0))
    /\ used[i] <= TotalSize

(* The read sub-buffer holds more bytes than any reader's array. *)
Wedged == used[read_index] > BufferSize

(* Once that many bytes have collected the buffer is never read again: no    *)
(* step of any thread, in particular no read, makes the backlog smaller      *)
(* (app_buffer.c:180-183 refuses before it consumes, and 156 exchanges the   *)
(* sub-buffers only when the read one is empty).                             *)
WedgeIsPermanent ==
  [][Wedged => Wedged' /\ msgs'[read_index'] = msgs[read_index]]_vars

(* The threads never wait on each other forever: while calls are in         *)
(* progress one of them returns sooner or later.  The two locks nest in one  *)
(* order only, and every path, also those through goto cleanup and goto      *)
(* read_cleanup, releases what it took (app_buffer.c:150-202).               *)
SomeCallReturns ==
  (\E t \in Threads : pc[t] # "idle") ~> (\E t \in Threads : pc[t] = "done")

(* "Is the array the user supplied big enough" (app_buffer.c:179): a read    *)
(* that reports a small array was given one too small for the message it     *)
(* would return.                                                             *)
SmallMeansMessageTooLong ==
  \A t \in Readers :
    pc[t] = "r_unlock" /\ ret[t] = "small" =>
      DataSize[Head(msgs[sub[t]])] > BufferSize

------------------------------------------------------------------------------
(* The inductive invariant behind the properties above. *)

(* The two sub-buffers have opposite roles. *)
OppositeRoles == write_index = 1 - read_index

(* A mutex belongs to the one thread that is between its lock and unlock. *)
LocksHeld ==
  /\ read_mutex  = {t \in Threads : pc[t] \in HoldsRead}
  /\ write_mutex = {t \in Threads : pc[t] \in HoldsWrite}
  /\ \A t, u \in read_mutex : t = u
  /\ \A t, u \in write_mutex : t = u

(* What a writer relies on between its checks and its copy. *)
WriterLocals(t) ==
  /\ pc[t] \in {"w_lock", "w_check", "w_len", "w_data"} =>
       /\ arg[t] \in Msgs
       /\ DataSize[arg[t]] \in 1..MaxDataSize
  /\ pc[t] \in {"w_len", "w_data"} => sub[t] = write_index
  /\ pc[t] = "w_len" => used[sub[t]] + 1 + DataSize[arg[t]] <= TotalSize
  /\ pc[t] = "w_data" => used[sub[t]] + DataSize[arg[t]] <= TotalSize

(* What a reader relies on once it chose the sub-buffer it reads. *)
ReaderLocals(t) ==
  /\ pc[t] \in {"r_lock_w", "r_unlock_w", "r_size", "r_copy", "r_shift"} =>
       sub[t] = read_index
  /\ pc[t] \in {"idle", "w_lock", "w_check", "w_len", "w_data", "r_lock",
                "r_peek", "r_lock_w", "r_swap", "r_size", "r_copy"} =>
       ret[t] = "none"
  /\ pc[t] = "r_lock_w" => used[sub[t]] = 0
  /\ pc[t] = "r_unlock_w" => ret[t] = IF used[sub[t]] = 0 THEN "empty" ELSE "none"
  /\ pc[t] \in {"r_size", "r_copy", "r_shift"} => used[sub[t]] # 0
  /\ pc[t] \in {"r_copy", "r_shift"} => used[sub[t]] <= BufferSize
  /\ pc[t] = "r_shift" => ret[t] = First(msgs[sub[t]])

(* Every local of a thread inside a call agrees with the shared fields it    *)
(* was derived from, whatever the other threads did since (app_buffer.c:117, *)
(* 153, 160, 167): the role exchange never invalidates a chosen sub-buffer.  *)
IInv ==
  /\ TypeOK
  /\ OppositeRoles
  /\ LocksHeld
  /\ \A t \in Threads : WriterLocals(t) /\ ReaderLocals(t)
  /\ UsedIsExact

------------------------------------------------------------------------------
(* The refinement: the two sub-buffers in reading order are the queue.  A    *)
(* write takes effect at its memcpy or when it finds no room, a read when it *)
(* moves the rest left, finds both sub-buffers empty or finds its array      *)
(* small.                                                                    *)
Queue == msgs[read_index] \o msgs[write_index]

Phase(t) ==
  IF pc[t] = "idle" THEN "idle"
  ELSE IF pc[t] \in {"w_lock", "w_check", "w_len", "w_data"} THEN "write"
  ELSE IF \/ pc[t] \in {"w_unlock", "r_unlock", "done"}
          \/ pc[t] = "r_unlock_w" /\ ret[t] = "empty"
       THEN "done" ELSE "read"

Result(t) == IF Phase(t) = "done" THEN ret[t] ELSE "none"

Phases  == [t \in Threads |-> Phase(t)]
Results == [t \in Threads |-> Result(t)]

Fifo == INSTANCE FifoQueue WITH
          queue <- Queue, phase <- Phases, arg <- arg, res <- Results

(* The double buffer implements the linearizable FIFO queue. *)
ImplementsFifo == Fifo!Spec

------------------------------------------------------------------------------
(* The refinement: a call is one step of DoubleBuffer.  A write makes it at  *)
(* its memcpy or when it finds no room; a read when it has found its         *)
(* sub-buffer, which it alone touches from then on, although it compares,    *)
(* copies and moves the rest left later.                                     *)
Size(m) == DataSize[m]

DB == INSTANCE DoubleBuffer

(* A sub-buffer without the length byte whose data are not yet there. *)
Stored(i) ==
  [msgs |-> msgs[i], used_size |-> used[i] - (IF HalfWritten(i) THEN 1 ELSE 0)]

InMemory == [read |-> Stored(read_index), write |-> Stored(write_index)]

(* t has found its sub-buffer, with messages in it. *)
Taking(t) ==
  \/ pc[t] \in {"r_size", "r_copy", "r_shift"}
  \/ pc[t] = "r_unlock_w" /\ ret[t] # "empty"

(* The message a reader is about to take is in memory and no longer in the   *)
(* buffer.                                                                   *)
Whole ==
  IF (\E t \in Readers : Taking(t)) /\ ~DB!Wedged(InMemory)
  THEN DB!Taken(InMemory) ELSE InMemory

CallPhase(t) == IF Taking(t) THEN "done" ELSE Phase(t)

CallResult(t) ==
  IF ~Taking(t) THEN Result(t)
  ELSE IF DB!Wedged(InMemory) THEN "small" ELSE Head(InMemory.read.msgs)

CallPhases  == [t \in Threads |-> CallPhase(t)]
CallResults == [t \in Threads |-> CallResult(t)]

Calls == INSTANCE AtomicBuffer WITH
           buffer <- Whole, phase <- CallPhases, arg <- arg, res <- CallResults

(* Seen from the moments at which they take effect, the calls of any number  *)
(* of threads are single steps of DoubleBuffer, with the failures, the       *)
(* exchange of the sub-buffers and the bytes in use it gives them            *)
(* (app_buffer.c:104-203): AppDevice may take each call whole.               *)
ImplementsCalls == Calls!Spec
==============================================================================
