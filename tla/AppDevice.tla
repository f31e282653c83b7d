------------------------------ MODULE AppDevice ------------------------------
(***************************************************************************)
(* The data paths of app/app_device.c over the thread pool of              *)
(* app/app_pool.c.  Uplink: the one serial read thread puts each frame in  *)
(* up_buffer and submits a task; a pool worker takes a message and         *)
(* publishes it.  Downlink: the MQTT callback puts each command in         *)
(* down_buffer and submits a task; a worker takes a message and writes it  *)
(* to the serial port.  Tasks carry no message: a task takes whatever is   *)
(* oldest when it runs.  Both directions share the queue and the workers.  *)
(*                                                                         *)
(* Frames and commands are numbered in their order of arrival; frame m is  *)
(* what app_bt_postRead returned, command m what app_message_json2Chars    *)
(* produced.  MaxUp and MaxDown bound how many arrive.                     *)
(***************************************************************************)
EXTENDS Integers, Sequences, FiniteSets

CONSTANTS
  Workers,      (* the pool threads (6)                                     *)
  MqMax,        (* mq_maxmsg (10)                                           *)
  MaxUp,        (* bound: frames that arrive on the serial port             *)
  MaxDown,      (* bound: commands that arrive from the broker              *)
  Length,       (* Length[m]: the bytes of frame or command m               *)
  MinWrite,     (* app_bt_preWrite refuses anything shorter (6)             *)
  TotalSize,    (* BUFFER_SIZE (1024)                                       *)
  BufferSize    (* data_buffer of the tasks (125)                           *)

ASSUME DeviceAssumption ==
  /\ MqMax \in Nat \ {0}
  /\ MaxUp \in Nat /\ MaxDown \in Nat
  /\ \A m \in 1..MaxUp \cup 1..MaxDown : Length[m] \in 1..255
  /\ BufferSize \in Nat
  /\ IsFiniteSet(Workers)

VARIABLES
  up_buffer,    (* device->up_buffer                                        *)
  down_buffer,  (* device->down_buffer                                      *)
  mq_fd,        (* "open", or "failed" when mq_open gave no queue           *)
  mq,           (* the tasks queued in /app_pool_mq                         *)
  read_thread,  (* where the serial read thread is: "read", "put", "task"   *)
  callback,     (* where the MQTT callback is: "idle", "put", "task"        *)
  arrived,      (* [up, down]: how many frames and commands arrived         *)
  worker,       (* worker[w]: the step w is at and the message it holds     *)
  connected,    (* MQTTClient_isConnected                                   *)
  published,    (* the frames published, in order                           *)
  written,      (* the commands written to the port, in order               *)
  lost          (* [up, down]: what was dropped on the way                  *)

vars == <<up_buffer, down_buffer, mq_fd, mq, read_thread, callback, arrived,
          worker, connected, published, written, lost>>

Size(m) == Length[m]

DB == INSTANCE DoubleBuffer

Idle == [at |-> "receive", msg |-> 0]

Init ==
  /\ up_buffer = DB!EmptyBuffer
  /\ down_buffer = DB!EmptyBuffer
  /\ mq_fd \in {"open", "failed"}
  /\ mq = <<>>
  /\ read_thread = "read"
  /\ callback = "idle"
  /\ arrived = [up |-> 0, down |-> 0]
  /\ worker = [w \in Workers |-> Idle]
  /\ connected = TRUE
  /\ published = <<>>
  /\ written = <<>>
  /\ lost = [up |-> {}, down |-> {}]

(* app_pool_add_task: mq_send waits while the queue is full.  app_pool_init  *)
(* only logs that mq_open failed, and no caller looks at what mq_send then   *)
(* returns: it goes on without a task.                                       *)
AddTask(task) ==
  \/ /\ mq_fd = "open"
     /\ Len(mq) < MqMax
     /\ mq' = Append(mq, task)
  \/ /\ mq_fd = "failed"
     /\ UNCHANGED mq

------------------------------------------------------------------------------
(* read_pthread_func *)

(* read() and post_read() yield a frame. *)
FrameArrives ==
  /\ read_thread = "read"
  /\ arrived.up < MaxUp
  /\ arrived' = [arrived EXCEPT !.up = @ + 1]
  /\ read_thread' = "put"
  /\ UNCHANGED <<mq_fd, up_buffer, down_buffer, mq, callback, worker,
                 connected, published, written, lost>>

(* The result of app_buffer_write is not looked at. *)
PutFrame ==
  /\ read_thread = "put"
  /\ read_thread' = "task"
  /\ IF DB!HasRoom(up_buffer, arrived.up)
     THEN /\ up_buffer' = DB!Put(up_buffer, arrived.up)
          /\ UNCHANGED lost
     ELSE /\ lost' = [lost EXCEPT !.up = @ \cup {arrived.up}]
          /\ UNCHANGED up_buffer
  /\ UNCHANGED <<mq_fd, down_buffer, mq, callback, arrived, worker, connected,
                 published, written>>

(* Mutant: the queue is opened with O_NONBLOCK and a full queue drops the    *)
(* task.                                                                     *)
SubmitSendNonblocking ==
  /\ read_thread = "task"
  /\ mq' = IF mq_fd = "open" /\ Len(mq) < MqMax THEN Append(mq, "send") ELSE mq
  /\ read_thread' = "read"
  /\ UNCHANGED <<mq_fd, up_buffer, down_buffer, callback, arrived, worker,
                 connected, published, written, lost>>

SubmitSend ==
  /\ read_thread = "task"
  /\ AddTask("send")
  /\ read_thread' = "read"
  /\ UNCHANGED <<mq_fd, up_buffer, down_buffer, callback, arrived, worker,
                 connected, published, written, lost>>

------------------------------------------------------------------------------
(* receive_msg_func, called by the MQTT client's thread *)

CommandArrives ==
  /\ callback = "idle"
  /\ arrived.down < MaxDown
  /\ arrived' = [arrived EXCEPT !.down = @ + 1]
  /\ callback' = "put"
  /\ UNCHANGED <<mq_fd, up_buffer, down_buffer, mq, read_thread, worker,
                 connected, published, written, lost>>

(* Mutant: a stored command relies on the task of the one before it. *)
PutCommandNoTask ==
  /\ callback = "put"
  /\ IF DB!HasRoom(down_buffer, arrived.down)
     THEN /\ callback' = IF DB!Held(down_buffer) = <<>> THEN "task" ELSE "idle"
          /\ down_buffer' = DB!Put(down_buffer, arrived.down)
          /\ UNCHANGED lost
     ELSE /\ lost' = [lost EXCEPT !.down = @ \cup {arrived.down}]
          /\ callback' = "idle"
          /\ UNCHANGED down_buffer
  /\ UNCHANGED <<mq_fd, up_buffer, mq, read_thread, arrived, worker, connected,
                 published, written>>

(* No task is submitted for a command that found no room. *)
PutCommand ==
  /\ callback = "put"
  /\ IF DB!HasRoom(down_buffer, arrived.down)
     THEN /\ down_buffer' = DB!Put(down_buffer, arrived.down)
          /\ callback' = "task"
          /\ UNCHANGED lost
     ELSE /\ lost' = [lost EXCEPT !.down = @ \cup {arrived.down}]
          /\ callback' = "idle"
          /\ UNCHANGED down_buffer
  /\ UNCHANGED <<mq_fd, up_buffer, mq, read_thread, arrived, worker, connected,
                 published, written>>

SubmitWrite ==
  /\ callback = "task"
  /\ AddTask("write")
  /\ callback' = "idle"
  /\ UNCHANGED <<mq_fd, up_buffer, down_buffer, read_thread, arrived, worker,
                 connected, published, written, lost>>

------------------------------------------------------------------------------
(* app_pool_task and the two task functions.  Without a queue mq_receive     *)
(* fails at once, and the worker only tries again: mq stays empty.           *)

Receive(w) ==
  /\ worker[w].at = "receive"
  /\ mq # <<>>
  /\ worker' = [worker EXCEPT ![w].at = Head(mq)]
  /\ mq' = Tail(mq)
  /\ UNCHANGED <<mq_fd, up_buffer, down_buffer, read_thread, callback, arrived,
                 connected, published, written, lost>>

(* send_msg_func: at most one message per task; a failed read ends the task. *)
SendRead(w) ==
  /\ worker[w].at = "send"
  /\ IF DB!Readable(up_buffer)
     THEN /\ worker' = [worker EXCEPT ![w] = [at |-> "publish", msg |-> DB!Oldest(up_buffer)]]
          /\ up_buffer' = DB!Taken(up_buffer)
     ELSE /\ worker' = [worker EXCEPT ![w] = Idle]
          /\ up_buffer' = DB!Turned(up_buffer)
  /\ UNCHANGED <<mq_fd, down_buffer, mq, read_thread, callback, arrived,
                 connected, published, written, lost>>

(* The message left the buffer before the connection is looked at; it is     *)
(* lost without one, when it cannot be converted and when publishing fails.  *)
Publish(w) ==
  /\ worker[w].at = "publish"
  /\ worker' = [worker EXCEPT ![w] = Idle]
  /\ \/ /\ connected
        /\ published' = Append(published, worker[w].msg)
        /\ UNCHANGED lost
     \/ /\ lost' = [lost EXCEPT !.up = @ \cup {worker[w].msg}]
        /\ UNCHANGED published
  /\ UNCHANGED <<mq_fd, up_buffer, down_buffer, mq, read_thread, callback,
                 arrived, connected, written>>

(* write_data_task_func: read, then app_bt_preWrite, which refuses a command *)
(* that is too short.                                                        *)
WriteRead(w) ==
  /\ worker[w].at = "write"
  /\ IF DB!Readable(down_buffer)
     THEN /\ down_buffer' = DB!Taken(down_buffer)
          /\ IF Length[DB!Oldest(down_buffer)] < MinWrite
             THEN /\ worker' = [worker EXCEPT ![w] = Idle]
                  /\ lost' = [lost EXCEPT !.down = @ \cup {DB!Oldest(down_buffer)}]
             ELSE /\ worker' = [worker EXCEPT ![w] =
                                  [at |-> "serial", msg |-> DB!Oldest(down_buffer)]]
                  /\ UNCHANGED lost
     ELSE /\ worker' = [worker EXCEPT ![w] = Idle]
          /\ down_buffer' = DB!Turned(down_buffer)
          /\ UNCHANGED lost
  /\ UNCHANGED <<mq_fd, up_buffer, mq, read_thread, callback, arrived,
                 connected, published, written>>

(* write() takes the whole command, or a part of it or nothing: the rest is  *)
(* not written again.                                                        *)
WriteSerial(w) ==
  /\ worker[w].at = "serial"
  /\ worker' = [worker EXCEPT ![w] = Idle]
  /\ \/ /\ written' = Append(written, worker[w].msg)
        /\ UNCHANGED lost
     \/ /\ lost' = [lost EXCEPT !.down = @ \cup {worker[w].msg}]
        /\ UNCHANGED written
  /\ UNCHANGED <<mq_fd, up_buffer, down_buffer, mq, read_thread, callback,
                 arrived, connected, published>>

------------------------------------------------------------------------------
(* The connection to the broker is lost, or found again by connlost. *)
ConnectionChanges ==
  /\ connected' = ~connected
  /\ UNCHANGED <<mq_fd, up_buffer, down_buffer, mq, read_thread, callback,
                 arrived, worker, published, written, lost>>

ReadThread == FrameArrives \/ PutFrame \/ SubmitSend
Callback   == CommandArrives \/ PutCommand \/ SubmitWrite
Work(w)    == Receive(w) \/ SendRead(w) \/ Publish(w) \/ WriteRead(w) \/ WriteSerial(w)

Next ==
  \/ ReadThread
  \/ Callback
  \/ \E w \in Workers : Work(w)
  \/ ConnectionChanges

Spec == Init /\ [][Next]_vars

(* Every thread that can take a step takes one: the read thread and the      *)
(* callback once they hold a message, the workers always.  Nothing makes     *)
(* frames or commands arrive or the connection change.                       *)
FairSpec ==
  /\ Spec
  /\ WF_vars(PutFrame \/ SubmitSend)
  /\ WF_vars(PutCommand \/ SubmitWrite)
  /\ \A w \in Workers : WF_vars(Work(w))

------------------------------------------------------------------------------
(* Properties *)

Count(b) == IF b THEN 1 ELSE 0

Elements(s) == {s[i] : i \in DOMAIN s}

Occurrences(m, s) == Cardinality({i \in DOMAIN s : s[i] = m})

At(step) == {w \in Workers : worker[w].at = step}

InHand(step, m) == Cardinality({w \in At(step) : worker[w].msg = m})

InHands(step) == {worker[w].msg : w \in At(step)}

(* The tasks that will still run task_func: queued, taken by a worker that   *)
(* has not read yet, or about to be submitted.                               *)
Pending(task, submitting) ==
  Occurrences(task, mq) + Cardinality(At(task)) + Count(submitting)

(* In a process that has its queue, no message is left in a buffer without a *)
(* task that will come for it, as long as the buffer can be read at all:     *)
(* tasks carry no message and one takes at most one, so a task that takes    *)
(* nothing, or a message for which none was submitted, strands a message     *)
(* until the next arrival (app_device.c:118-120, 238-245, 70-76, 172-179).   *)
(* When mq_open failed, nothing comes for any message: app_pool.c:46-50, 90. *)
NoOrphans ==
  mq_fd = "open" =>
  /\ ~DB!Wedged(DB!Turned(up_buffer)) =>
       Len(DB!Held(up_buffer)) <= Pending("send", read_thread = "task")
  /\ ~DB!Wedged(DB!Turned(down_buffer)) =>
       Len(DB!Held(down_buffer)) <= Pending("write", callback = "task")

(* In how many places frame or command m is. *)
UpPlaces(m) ==
  Count(read_thread = "put" /\ m = arrived.up) + Occurrences(m, DB!Held(up_buffer))
  + InHand("publish", m) + Occurrences(m, published) + Count(m \in lost.up)
DownPlaces(m) ==
  Count(callback = "put" /\ m = arrived.down) + Occurrences(m, DB!Held(down_buffer))
  + InHand("serial", m) + Occurrences(m, written) + Count(m \in lost.down)

(* Every frame and every command that arrived is in exactly one place: not   *)
(* yet stored, in the buffer, in one worker's hands, delivered once, or lost *)
(* (app_device.c:66-90, 118, 172-206, 238).                                  *)
EachInOnePlace ==
  /\ \A m \in 1..arrived.up : UpPlaces(m) = 1
  /\ \A m \in 1..arrived.down : DownPlaces(m) = 1

(* Messages overtake each other only in the hands of the workers, never in   *)
(* the pipeline before them: what is still in a buffer is younger than       *)
(* everything that left it, whichever worker took it and however often the   *)
(* sub-buffers were exchanged meanwhile (app_pool.c:23-26).                  *)
TakenInOrder ==
  /\ \A m \in Elements(DB!Held(up_buffer)) :
       \A n \in Elements(published) \cup InHands("publish") : n < m
  /\ \A m \in Elements(DB!Held(down_buffer)) :
       \A n \in Elements(written) \cup InHands("serial") : n < m

(* A frame or command that was stored leaves its buffer sooner or later,     *)
(* unless that buffer wedged or there is no queue: a full queue holds up the *)
(* read thread and the callback but never the workers, and neither           *)
(* direction, not even a wedged one, keeps the shared workers from the other *)
(* (app_pool.c:23, 90).                                                      *)
BuffersDrain ==
  /\ \A m \in 1..MaxUp :
       m \in Elements(DB!Held(up_buffer)) ~>
         (m \notin Elements(DB!Held(up_buffer)) \/ DB!Wedged(up_buffer)
            \/ mq_fd = "failed")
  /\ \A m \in 1..MaxDown :
       m \in Elements(DB!Held(down_buffer)) ~>
         (m \notin Elements(DB!Held(down_buffer)) \/ DB!Wedged(down_buffer)
            \/ mq_fd = "failed")
==============================================================================
