----------------------------- MODULE AppLifecycle -----------------------------
(***************************************************************************)
(* How the application comes up and goes down: app_runner_init over        *)
(* app_device_init, app_pool_init and app_device_start, the failing of     *)
(* each step, the handler of SIGTERM and SIGINT, and the daemon that starts *)
(* the application again.  The task queue is a POSIX queue: it outlives a  *)
(* process that does not unlink it, and the tasks in it are pointers of the *)
(* process that queued them.                                               *)
(*                                                                         *)
(* The kernel delivers a signal to the main thread, which is suspended     *)
(* while the handler runs; the workers, the read thread and the library's  *)
(* thread go on.  The daemon sends one signal to a process.                *)
(***************************************************************************)
EXTENDS Naturals, Sequences, FiniteSets

CONSTANTS
  NumWorkers,  (* the pool threads (6)                                      *)
  MqMax,       (* mq_maxmsg (10)                                            *)
  MaxTasks,    (* bound: frames and commands that arrive                    *)
  MaxEvents    (* bound: signals and deaths of other causes                 *)

ASSUME LifecycleAssumption ==
  /\ NumWorkers \in Nat \ {0} /\ MqMax \in Nat \ {0}
  /\ MaxTasks \in Nat /\ MaxEvents \in Nat

VARIABLES
  main,       (* the step of the main thread, the handler's steps included  *)
  resume,     (* where the handler returns to, "none" outside of it         *)
  signalled,  (* "no", "early" (no read thread yet) or "running"            *)
  held,       (* what is held of device, fd, pool, mq and client            *)
  blocks,     (* the allocations of the two buffers                         *)
  linked,     (* the queue has a name                                       *)
  queue,      (* the tasks in it: "live" or "stale"                         *)
  worker,     (* "none", "receive", "lock", "inside", "stuck" or "ended"    *)
  mutex,      (* the worker that holds read_mutex, 0 if none                *)
  user,       (* "none", "idle", "use" or "ended": read thread and callback *)
  cancelled,  (* the threads that were cancelled                            *)
  joined,     (* how many workers app_pool_destroy joined                   *)
  tasks,      (* how many frames and commands arrived                       *)
  events      (* how many signals and deaths there were                     *)

memory == <<held, blocks>>
mqueue == <<linked, queue>>
pool == <<worker, mutex, joined>>
bounds == <<tasks, events>>
vars == <<main, resume, signalled, memory, mqueue, pool, user, cancelled, bounds>>

Workers == 1..NumWorkers
Dead == {"crashed", "killed", "failed", "ended", "off"}

Init ==
  /\ main = "off" /\ resume = "none" /\ signalled = "no"
  /\ held = {} /\ blocks = {}
  /\ linked = FALSE /\ queue = <<>>
  /\ worker = [w \in Workers |-> "none"]
  /\ mutex = 0 /\ joined = 0
  /\ user = [u \in {"reader", "callback"} |-> "none"]
  /\ cancelled = {}
  /\ tasks = 0 /\ events = 0

Goto(from, to) == main = from /\ main' = to

Crash ==
  /\ main' = "crashed"
  /\ UNCHANGED <<resume, signalled, memory, mqueue, pool, user, cancelled, bounds>>

------------------------------------------------------------------------------
(* app_buffer_init and app_buffer_free *)

Allocations == <<"buffer", "sub0", "ptr0", "sub1", "ptr1", "read_mutex", "write_mutex">>
Blocks == {Allocations[i] : i \in 1..7}

(* The labels of app_buffer_init, each running into the next. *)
CleanupBuffer == {"buffer"}
CleanupSub0 == {"ptr0", "sub0"} \cup CleanupBuffer
CleanupSub1 == {"ptr1", "sub1"} \cup CleanupSub0
CleanupReadMutex == {"read_mutex"} \cup CleanupSub1

(* What is released when allocation i fails, by init_buffer and the labels. *)
Cleanup(i) ==
  CASE i = 1 -> {}
    [] i = 2 -> CleanupBuffer
    [] i = 3 -> {"sub0"} \cup CleanupBuffer
    [] i = 4 -> CleanupSub0
    [] i = 5 -> {"sub1"} \cup CleanupSub0
    [] i = 6 -> CleanupSub1
    [] i = 7 -> CleanupReadMutex

(* What stays allocated when allocation i fails; none does if i is 0. *)
BufferInit(i) ==
  IF i = 0 THEN Blocks ELSE {Allocations[j] : j \in 1..(i - 1)} \ Cleanup(i)

Buffer(name, bs) == {name} \X bs

------------------------------------------------------------------------------
(* app_device_init and app_pool_init *)

Alloc ==
  /\ \/ Goto("alloc", "open") /\ held' = {"device"}
     \/ Goto("alloc", "failed") /\ UNCHANGED held
  /\ UNCHANGED <<resume, signalled, blocks, mqueue, pool, user, cancelled, bounds>>

Open ==
  /\ \/ Goto("open", "buffers") /\ held' = held \cup {"fd"}
     \/ Goto("open", "failed") /\ held' = {}
  /\ UNCHANGED <<resume, signalled, blocks, mqueue, pool, user, cancelled, bounds>>

(* Both are tried; what succeeded is freed again when one fails. *)
Buffers ==
  /\ \E i, j \in 0..7 :
       IF i = 0 /\ j = 0
       THEN /\ Goto("buffers", "pool")
            /\ blocks' = Buffer("down", BufferInit(0)) \cup Buffer("up", BufferInit(0))
            /\ UNCHANGED held
       ELSE /\ Goto("buffers", "failed")
            /\ blocks' = (IF i = 0 THEN {} ELSE Buffer("down", BufferInit(i)))
                   \cup (IF j = 0 THEN {} ELSE Buffer("up", BufferInit(j)))
            /\ held' = {}
  /\ UNCHANGED <<resume, signalled, mqueue, pool, user, cancelled, bounds>>

(* The buffers, the port and the device are released; pool and queue stay. *)
ReleaseDevice ==
  /\ blocks' = {}
  /\ held' = held \ {"device", "fd"}

(* A queue that cannot be opened is only logged. *)
PoolAlloc ==
  /\ \/ /\ Goto("pool", "threads")
        /\ \/ held' = held \cup {"pool", "mq"} /\ linked' = TRUE
           \/ held' = held \cup {"pool"} /\ UNCHANGED linked
        /\ UNCHANGED blocks
     \/ Goto("pool", "failed") /\ ReleaseDevice /\ UNCHANGED linked
  /\ UNCHANGED <<resume, signalled, queue, pool, user, cancelled, bounds>>

(* The workers created before one that cannot be created stay. *)
CreateWorker ==
  /\ main = "threads"
  /\ LET w == CHOOSE v \in Workers : worker[v] = "none" /\ \A u \in 1..(v - 1) : worker[u] # "none"
     IN \/ /\ worker' = [worker EXCEPT ![w] = "receive"]
           /\ main' = IF w = NumWorkers THEN "mqtt" ELSE "threads"
           /\ UNCHANGED memory
        \/ main' = "failed" /\ ReleaseDevice /\ UNCHANGED worker
  /\ UNCHANGED <<resume, signalled, mqueue, mutex, joined, user, cancelled, bounds>>

(* Mutant: the buffers are released before the workers are stopped. *)
MqttReleasesFirst ==
  /\ \/ Goto("mqtt", "bt") /\ held' = held \cup {"client"} /\ UNCHANGED blocks
     \/ Goto("mqtt", "mq_close") /\ ReleaseDevice
  /\ UNCHANGED <<resume, signalled, mqueue, pool, user, cancelled, bounds>>

(* Mutant: the pool is left to itself. *)
MqttKeepsPool ==
  /\ \/ Goto("mqtt", "bt") /\ held' = held \cup {"client"} /\ UNCHANGED blocks
     \/ Goto("mqtt", "failed") /\ ReleaseDevice
  /\ UNCHANGED <<resume, signalled, mqueue, pool, user, cancelled, bounds>>

(* app_mqtt_init fails: the pool is destroyed before the rest is released. *)
Mqtt ==
  /\ \/ Goto("mqtt", "bt") /\ held' = held \cup {"client"}
     \/ Goto("mqtt", "mq_close") /\ UNCHANGED held
  /\ UNCHANGED <<resume, signalled, blocks, mqueue, pool, user, cancelled, bounds>>

Release ==
  /\ Goto("release", "failed")
  /\ ReleaseDevice
  /\ UNCHANGED <<resume, signalled, mqueue, pool, user, cancelled, bounds>>

------------------------------------------------------------------------------
(* app_bt_init, app_device_start and the loop of app_runner_init *)

Start ==
  /\ Goto("bt", "thread")
  /\ UNCHANGED <<resume, signalled, memory, mqueue, pool, user, cancelled, bounds>>

(* The result of pthread_create is not looked at. *)
CreateReader ==
  /\ Goto("thread", "register")
  /\ \/ user' = [user EXCEPT !["reader"] = "idle"]
     \/ UNCHANGED user
  /\ UNCHANGED <<resume, signalled, memory, mqueue, pool, cancelled, bounds>>

Register ==
  /\ Goto("register", "loop")
  /\ user' = [user EXCEPT !["callback"] = "idle"]
  /\ UNCHANGED <<resume, signalled, memory, mqueue, pool, cancelled, bounds>>

(* is_running is 0 once a signal was handled. *)
LoopEnds ==
  /\ signalled # "no"
  /\ Goto("loop", "ended")
  /\ UNCHANGED <<resume, signalled, memory, mqueue, pool, user, cancelled, bounds>>

------------------------------------------------------------------------------
(* app_pool_destroy, called by app_device_init and app_device_destroy *)

(* Mutant: the name of the queue is left. *)
MqCloseOnly ==
  /\ Goto("mq_close", "join")
  /\ held' = held \ {"mq"}
  /\ UNCHANGED <<resume, signalled, blocks, mqueue, pool, user, cancelled, bounds>>

MqClose ==
  /\ Goto("mq_close", "join")
  /\ held' = held \ {"mq"}
  /\ linked' = FALSE /\ queue' = <<>>
  /\ UNCHANGED <<resume, signalled, blocks, pool, user, cancelled, bounds>>

(* Mutant: the workers are joined and not cancelled. *)
JoinOnly ==
  /\ main = "join"
  /\ IF joined = NumWorkers
     THEN /\ main' = IF resume = "none" THEN "release" ELSE "mqtt_close"
          /\ held' = held \ {"pool"}
          /\ UNCHANGED joined
     ELSE worker[joined + 1] = "ended" /\ joined' = joined + 1 /\ UNCHANGED <<main, held>>
  /\ UNCHANGED <<resume, signalled, blocks, mqueue, worker, mutex, user, cancelled, bounds>>

(* One worker after the other is cancelled and joined. *)
JoinWorker ==
  /\ main = "join"
  /\ IF joined = NumWorkers
     THEN /\ main' = IF resume = "none" THEN "release" ELSE "mqtt_close"
          /\ held' = held \ {"pool"}
          /\ UNCHANGED <<cancelled, joined>>
     ELSE /\ IF joined + 1 \in cancelled
             THEN worker[joined + 1] = "ended" /\ joined' = joined + 1 /\ UNCHANGED cancelled
             ELSE cancelled' = cancelled \cup {joined + 1} /\ UNCHANGED joined
          /\ UNCHANGED <<main, held>>
  /\ UNCHANGED <<resume, signalled, blocks, mqueue, worker, mutex, user, bounds>>

------------------------------------------------------------------------------
(* runner_exit and app_device_destroy *)

Signal ==
  /\ resume = "none" /\ signalled = "no" /\ events < MaxEvents
  /\ resume' = main
  /\ main' = "close"
  /\ signalled' = IF user["reader"] = "none" THEN "early" ELSE "running"
  /\ events' = events + 1
  /\ UNCHANGED <<memory, mqueue, pool, user, cancelled, tasks>>

(* device may be a null pointer. *)
CloseFd ==
  /\ main = "close"
  /\ IF "device" \in held
     THEN /\ main' = "free"
          /\ held' = held \ {"fd"}
          /\ UNCHANGED <<resume, signalled, blocks, mqueue, pool, user, cancelled, bounds>>
     ELSE Crash

FreeBuffers ==
  /\ Goto("free", "cancel")
  /\ blocks' = {}
  /\ UNCHANGED <<resume, signalled, held, mqueue, pool, user, cancelled, bounds>>

(* pthread_cancel of a thread that was never created. *)
CancelReader ==
  /\ main = "cancel"
  /\ IF user["reader"] = "none"
     THEN Crash
     ELSE /\ main' = "join_reader"
          /\ cancelled' = cancelled \cup {0}
          /\ UNCHANGED <<resume, signalled, memory, mqueue, pool, user, bounds>>

JoinReader ==
  /\ user["reader"] = "ended"
  /\ Goto("join_reader", "mq_close")
  /\ held' = held \ {"device"}
  /\ UNCHANGED <<resume, signalled, blocks, mqueue, pool, user, cancelled, bounds>>

MqttClose ==
  /\ Goto("mqtt_close", resume)
  /\ resume' = "none"
  /\ held' = held \ {"client"}
  /\ UNCHANGED <<signalled, blocks, mqueue, pool, user, cancelled, bounds>>

Main ==
  \/ Alloc \/ Open \/ Buffers \/ PoolAlloc \/ CreateWorker \/ Mqtt \/ Release
  \/ Start \/ CreateReader \/ Register \/ LoopEnds
  \/ MqClose \/ JoinWorker
  \/ CloseFd \/ FreeBuffers \/ CancelReader \/ JoinReader \/ MqttClose

------------------------------------------------------------------------------
(* app_pool_task: the workers *)

BuffersThere == "device" \in held /\ blocks # {}

To(w, step) ==
  /\ worker' = [worker EXCEPT ![w] = step]
  /\ UNCHANGED <<main, resume, signalled, memory, linked, joined, user, cancelled, bounds>>

(* A stale task runs, does nothing the application notices, or ends it:      *)
(* whatever the pointers of another process are in this one.                 *)
Receive(w) ==
  /\ worker[w] = "receive" /\ "mq" \in held /\ queue # <<>>
  /\ queue' = Tail(queue)
  /\ \/ To(w, "lock") /\ UNCHANGED mutex
     \/ /\ Head(queue) = "stale"
        /\ \/ To(w, "receive") /\ UNCHANGED mutex
           \/ /\ main' = "crashed"
              /\ UNCHANGED <<resume, signalled, memory, linked, pool, user, cancelled, bounds>>

(* app_buffer_read; the mutex of a buffer that was freed may look locked. *)
Lock(w) ==
  /\ worker[w] = "lock"
  /\ IF BuffersThere
     THEN mutex = 0 /\ mutex' = w /\ To(w, "inside") /\ UNCHANGED queue
     ELSE \/ Crash
          \/ \E step \in {"receive", "stuck"} : To(w, step) /\ UNCHANGED <<mutex, queue>>

Unlock(w) ==
  /\ worker[w] = "inside"
  /\ \/ To(w, "receive") /\ mutex' = 0 /\ UNCHANGED queue
     \/ ~BuffersThere /\ Crash

(* mq_receive and the writing of the log inside the lock are cancellation    *)
(* points, pthread_mutex_lock is none.                                       *)
Cancelled(w) ==
  /\ w \in cancelled /\ worker[w] \in {"receive", "inside"}
  /\ To(w, "ended") /\ UNCHANGED <<mutex, queue>>

Work(w) == Receive(w) \/ Lock(w) \/ Unlock(w) \/ Cancelled(w)

------------------------------------------------------------------------------
(* read_pthread_func and receive_msg_func *)

Arrives(u) ==
  /\ user[u] = "idle" /\ tasks < MaxTasks
  /\ u = "callback" => "client" \in held
  /\ user' = [user EXCEPT ![u] = "use"]
  /\ tasks' = tasks + 1
  /\ UNCHANGED <<main, resume, signalled, memory, mqueue, pool, cancelled, events>>

(* app_buffer_write and app_pool_add_task, which waits while the queue is full. *)
Put(u) ==
  /\ user[u] = "use"
  /\ \/ /\ IF "mq" \in held THEN Len(queue) < MqMax /\ queue' = Append(queue, "live")
                            ELSE UNCHANGED queue
        /\ "device" \in held
        /\ user' = [user EXCEPT ![u] = "idle"]
        /\ UNCHANGED <<main, resume, signalled, memory, linked, pool, cancelled, bounds>>
     \/ ~BuffersThere /\ Crash

ReaderCancelled ==
  /\ 0 \in cancelled /\ user["reader"] \in {"idle", "use"}
  /\ user' = [user EXCEPT !["reader"] = "ended"]
  /\ UNCHANGED <<main, resume, signalled, memory, mqueue, pool, cancelled, bounds>>

Use == ReaderCancelled \/ \E u \in DOMAIN user : Put(u)

------------------------------------------------------------------------------
(* The process *)

(* The application is killed, or dies of a command that is no JSON. *)
Dies ==
  /\ events < MaxEvents
  /\ main' = "killed"
  /\ events' = events + 1
  /\ UNCHANGED <<resume, signalled, memory, mqueue, pool, user, cancelled, tasks>>

(* The kernel releases what a process held, except a queue that has a name. *)
ProcessEnds ==
  /\ main \in Dead \ {"off"}
  /\ main' = "off" /\ resume' = "none" /\ signalled' = "no"
  /\ held' = {} /\ blocks' = {}
  /\ queue' = [i \in DOMAIN queue |-> "stale"]
  /\ worker' = [w \in Workers |-> "none"]
  /\ mutex' = 0 /\ joined' = 0
  /\ user' = [u \in DOMAIN user |-> "none"]
  /\ cancelled' = {}
  /\ UNCHANGED <<linked, bounds>>

(* The daemon starts the application. *)
ProcessStarts ==
  /\ Goto("off", "alloc")
  /\ UNCHANGED <<resume, signalled, memory, mqueue, pool, user, cancelled, bounds>>

Running == main \notin Dead

Next ==
  \/ Running /\ (Main \/ Signal \/ Use \/ Dies)
  \/ Running /\ \E w \in Workers : Work(w)
  \/ Running /\ \E u \in DOMAIN user : Arrives(u)
  \/ ProcessEnds \/ ProcessStarts

Spec == Init /\ [][Next]_vars

Try(from, to) == SF_vars(Main /\ main = from /\ main' = to)

(* Every thread runs, the daemon restarts the application, and no step of    *)
(* the bring-up fails every time it is tried.                                *)
FairSpec ==
  /\ Spec
  /\ WF_vars(Running /\ Main) /\ WF_vars(Running /\ Use)
  /\ \A w \in Workers :
       /\ WF_vars(Running /\ Work(w))
       /\ SF_vars(CreateWorker /\ worker'[w] = "receive")
  /\ WF_vars(ProcessEnds) /\ WF_vars(ProcessStarts)
  /\ Try("alloc", "open") /\ Try("open", "buffers") /\ Try("buffers", "pool")
  /\ Try("pool", "threads") /\ Try("mqtt", "bt")

------------------------------------------------------------------------------
(* Properties *)

PoolIncomplete == worker[NumWorkers] = "none"

(* A bring-up that fails has released what it acquired, whichever step       *)
(* failed; only a worker that could not be created leaves pool and queue     *)
(* (app_device.c:12-61, app_buffer.c:66-76, app_pool.c:54-58).               *)
FailedHoldsNothing ==
  main = "failed" =>
    /\ blocks = {}
    /\ held \subseteq {"pool", "mq"}
    /\ held # {} => PoolIncomplete

(* While no signal was handled, a worker is in a buffer only if the buffer   *)
(* is there, also when tasks of an earlier process run during a bring-up     *)
(* that fails (app_device.c:51-60).                                          *)
WorkersInBuffers ==
  (\E w \in Workers : worker[w] \in {"lock", "inside"}) /\ ~BuffersThere =>
    signalled # "no" \/ PoolIncomplete

(* A process that ends by itself after its pool was up leaves no task to     *)
(* the next one (app_pool.c:69-70, app_runner.c:30-43).                      *)
LeavesNoTasks ==
  [][main' = "off" /\ main \in {"failed", "ended"} /\ ~PoolIncomplete => queue' = <<>>]_vars

(* app_pool_destroy waits for a worker that waits for a mutex whose holder   *)
(* was cancelled, or whose memory was freed.                                 *)
Hung ==
  /\ main = "join" /\ joined < NumWorkers
  /\ LET w == worker[joined + 1]
     IN w = "stuck" \/ (w = "lock" /\ mutex # 0 /\ worker[mutex] = "ended")

(* The application comes up again and again, although the tasks of an        *)
(* earlier process may end it: each of them does so once.  The one exception *)
(* is a bring-up that hangs in app_pool_destroy (app_pool.c:18-30, 72-76).   *)
ComesUp == []<>(main = "loop" \/ signalled # "no" \/ Hung)

(* "runner_exit is registered to release the resources before the end"       *)
(* (app_runner.c:14), for a signal that finds the application running.       *)
RunningSignalReleases == main = "crashed" => signalled # "running"
==============================================================================
