------------------------- MODULE AppLifecycle_proofs -------------------------
(***************************************************************************)
(* Theorems about AppLifecycle, for any number of workers and tasks, of    *)
(* signals and of deaths: what a bring-up that fails keeps, where the      *)
(* workers are while the buffers come and go, and what a process leaves in *)
(* the queue.                                                              *)
(***************************************************************************)
EXTENDS AppLifecycle, SequenceTheorems, TLAPS

BringUp == {"alloc", "open", "buffers", "pool", "threads", "mqtt", "bt", "thread"}
Up == {"register", "loop"}
Destroying == {"mq_close", "join"}
Handler == {"close", "free", "cancel", "join_reader", "mqtt_close"}
Steps == BringUp \cup Up \cup Destroying \cup Handler \cup {"release"} \cup Dead

WorkerSteps == {"none", "receive", "lock", "inside", "stuck", "ended"}

TypeOK ==
  /\ main \in Steps
  /\ resume \in Steps \cup {"none"}
  /\ signalled \in {"no", "early", "running"}
  /\ held \in SUBSET {"device", "fd", "pool", "mq", "client"}
  /\ blocks \in SUBSET ({"up", "down"} \X Blocks)
  /\ linked \in BOOLEAN
  /\ queue \in Seq({"live", "stale"})
  /\ worker \in [Workers -> WorkerSteps]
  /\ mutex \in 0..NumWorkers
  /\ user \in [{"reader", "callback"} -> {"none", "idle", "use", "ended"}]
  /\ cancelled \in SUBSET (0..NumWorkers)
  /\ joined \in 0..NumWorkers
  /\ tasks \in Nat /\ events \in Nat

(* What the main thread holds at the steps of a bring-up and of its failing. *)
Holdings ==
  /\ main \in {"off", "alloc"} => held = {} /\ blocks = {}
  /\ main = "open" => held = {"device"} /\ blocks = {}
  /\ main = "buffers" => held = {"device", "fd"} /\ blocks = {}
  /\ main = "pool" => held = {"device", "fd"} /\ blocks # {}
  /\ main \in {"threads", "mqtt"} =>
       /\ "device" \in held /\ held \subseteq {"device", "fd", "pool", "mq"}
       /\ blocks # {}
  /\ main \in Destroying /\ signalled = "no" => held \subseteq {"device", "fd", "pool", "mq"}
  /\ main = "release" => held \subseteq {"device", "fd"}

(* The workers are created one after the other. *)
Created ==
  /\ main \in {"off", "alloc", "open", "buffers", "pool"} => \A w \in Workers : worker[w] = "none"
  /\ main = "threads" =>
       \E n \in 0..(NumWorkers - 1) : \A w \in Workers : worker[w] = "none" <=> w > n

(* What a signal interrupts, and where its handler is.                       *)
Interrupted ==
  /\ signalled = "no" =>
       /\ resume = "none" /\ main \notin Handler \cup {"ended"}
       /\ user["reader"] # "none" => main \in Up \cup {"crashed", "killed"}
  /\ signalled = "early" =>
       /\ main \in {"close", "free", "cancel", "crashed", "killed"}
       /\ user["reader"] = "none"
  /\ signalled = "running" =>
       \/ main \in Handler \cup Destroying /\ resume \in Up
       \/ main \in Up \cup {"ended"} /\ resume = "none"
       \/ main \in {"crashed", "killed"}

(* The queue was closed and its tasks with it. *)
Closed ==
  \/ main \in {"join", "release", "mqtt_close", "ended"}
  \/ main \in Up /\ signalled = "running"

QueueClosed ==
  /\ Closed => "mq" \notin held /\ queue = <<>>
  /\ main = "failed" /\ ~PoolIncomplete => queue = <<>>

JoinedEnded ==
  /\ \A w \in 1..joined : worker[w] = "ended"
  /\ main = "release" => joined = NumWorkers

(* The buffers are there for as long as a worker may use them. *)
BuffersOutlast ==
  signalled = "no" =>
    \/ BuffersThere
    \/ PoolIncomplete
    \/ \A w \in Workers : worker[w] = "ended"

(* The inductive invariant. *)
IInv ==
  /\ TypeOK
  /\ Holdings /\ Created /\ Interrupted
  /\ QueueClosed /\ JoinedEnded /\ BuffersOutlast
  /\ FailedHoldsNothing

------------------------------------------------------------------------------
(* The initial state, and what any thread but the main one does *)

LEMMA Constants == NumWorkers \in Nat \ {0} /\ MqMax \in Nat \ {0} /\ MaxTasks \in Nat /\ MaxEvents \in Nat
BY LifecycleAssumption

LEMMA InitInvariant == Init => IInv
<1> SUFFICES ASSUME Init PROVE IInv
  OBVIOUS
<1>1. TypeOK
  <2>1. <<>> \in Seq({"live", "stale"})
    BY EmptySeq
  <2>2. worker \in [Workers -> WorkerSteps]
    BY DEF Init, WorkerSteps
  <2>3. user \in [{"reader", "callback"} -> {"none", "idle", "use", "ended"}]
    BY DEF Init
  <2>4. mutex \in 0..NumWorkers /\ joined \in 0..NumWorkers
    BY Constants DEF Init
  <2>5. main \in Steps /\ resume \in Steps \cup {"none"}
    BY DEF Init, Steps, Dead
  <2>6. blocks \in SUBSET ({"up", "down"} \X Blocks) /\ cancelled \in SUBSET (0..NumWorkers)
    BY DEF Init
  <2> QED BY <2>1, <2>2, <2>3, <2>4, <2>5, <2>6 DEF Init, TypeOK
<1>2. \A w \in Workers : worker[w] = "none"
  BY DEF Init
<1>3. PoolIncomplete
  BY <1>2, Constants DEF PoolIncomplete, Workers
<1>4. Holdings /\ Created /\ Interrupted
  BY <1>2 DEF Init, Holdings, Created, Interrupted, Destroying, Handler
<1>5. QueueClosed /\ FailedHoldsNothing
  BY DEF Init, QueueClosed, Closed, Up, FailedHoldsNothing
<1>6. JoinedEnded /\ BuffersOutlast
  BY <1>3 DEF Init, JoinedEnded, BuffersOutlast
<1> QED BY <1>1, <1>4, <1>5, <1>6 DEF IInv

(* The process crashes or is killed. *)
LEMMA CrashKeeps ==
  ASSUME IInv, main' \in {"crashed", "killed"},
         UNCHANGED <<resume, signalled, memory, linked, pool, user, cancelled, tasks>>,
         queue' \in Seq({"live", "stale"}), events' \in Nat
  PROVE  IInv'
<1>0. UNCHANGED <<held, blocks, worker, mutex, joined>>
  BY DEF memory, pool
<1>1. TypeOK'
  BY <1>0 DEF IInv, TypeOK, Steps, Dead
<1>2. Holdings' /\ Created'
  BY DEF Holdings, Created, Destroying
<1>3. Interrupted'
  BY DEF IInv, Interrupted, Handler
<1>4. QueueClosed' /\ FailedHoldsNothing'
  BY DEF QueueClosed, Closed, Up, FailedHoldsNothing
<1>5. JoinedEnded' /\ BuffersOutlast'
  BY <1>0 DEF IInv, JoinedEnded, BuffersOutlast, BuffersThere, PoolIncomplete
<1> QED BY <1>1, <1>2, <1>3, <1>4, <1>5 DEF IInv

(* A worker that was created and has not ended goes on. *)
LEMMA WorkerGoesOn ==
  ASSUME IInv, NEW w \in Workers, NEW step \in WorkerSteps \ {"none"}, To(w, step),
         worker[w] \notin {"none", "ended"}, mutex' \in 0..NumWorkers,
         queue' \in Seq({"live", "stale"}), queue = <<>> => queue' = <<>>
  PROVE  IInv'
<1>0. /\ UNCHANGED <<main, resume, signalled, held, blocks, linked, joined, user, cancelled, tasks, events>>
      /\ worker \in [Workers -> WorkerSteps]
      /\ worker' = [worker EXCEPT ![w] = step]
  BY DEF To, memory, bounds, IInv, TypeOK
<1>1. worker' \in [Workers -> WorkerSteps]
  BY <1>0
<1>2. TypeOK'
  BY <1>0, <1>1 DEF IInv, TypeOK
<1>3. /\ \A v \in Workers : worker'[v] = "none" <=> worker[v] = "none"
      /\ \A v \in Workers : worker[v] = "ended" => worker'[v] = "ended"
  BY <1>0
<1>4. PoolIncomplete' <=> PoolIncomplete
  BY <1>3, Constants DEF PoolIncomplete, Workers
<1>5. Holdings' /\ Interrupted'
  BY <1>0 DEF IInv, Holdings, Interrupted
<1>6. Created'
  BY <1>0, <1>3 DEF IInv, Created
<1>7. QueueClosed' /\ FailedHoldsNothing'
  BY <1>0, <1>4 DEF IInv, QueueClosed, Closed, FailedHoldsNothing
<1>8. JoinedEnded'
  <2>1. \A v \in 1..joined : v \in Workers
    BY Constants DEF IInv, TypeOK, Workers
  <2> QED BY <1>0, <1>3, <2>1 DEF IInv, JoinedEnded
<1>9. BuffersOutlast'
  BY <1>0, <1>4 DEF IInv, BuffersOutlast, BuffersThere
<1> QED BY <1>2, <1>5, <1>6, <1>7, <1>8, <1>9 DEF IInv

LEMMA WorkKeeps ==
  ASSUME IInv, NEW w \in Workers, Work(w)
  PROVE  IInv'
<1>0. /\ queue \in Seq({"live", "stale"}) /\ mutex \in 0..NumWorkers
      /\ w \in 0..NumWorkers /\ 0 \in 0..NumWorkers /\ events \in Nat
  BY Constants DEF IInv, TypeOK, Workers
<1>1. ASSUME Crash PROVE IInv'
  <2>1. /\ main' = "crashed"
        /\ UNCHANGED <<resume, signalled, memory, linked, queue, pool, user, cancelled, tasks, events>>
    BY <1>1 DEF Crash, mqueue, bounds
  <2> QED BY <1>0, <2>1, CrashKeeps
<1>2. CASE Receive(w)
  <2>1. queue' \in Seq({"live", "stale"}) /\ worker[w] = "receive" /\ queue # <<>>
    BY <1>0, <1>2, HeadTailProperties DEF Receive
  <2>2. ASSUME NEW step \in {"lock", "receive"}, To(w, step), UNCHANGED mutex
        PROVE  IInv'
    BY <1>0, <2>1, <2>2, WorkerGoesOn DEF WorkerSteps
  <2>3. ASSUME main' = "crashed",
               UNCHANGED <<resume, signalled, memory, linked, pool, user, cancelled, bounds>>
        PROVE  IInv'
    <3>1. UNCHANGED <<tasks, events>>
      BY <2>3 DEF bounds
    <3> QED BY <1>0, <2>1, <2>3, <3>1, CrashKeeps
  <2> QED BY <1>2, <2>2, <2>3 DEF Receive
<1>3. CASE Lock(w)
  <2>1. worker[w] = "lock"
    BY <1>3 DEF Lock
  <2>2. ASSUME NEW step \in {"inside", "receive", "stuck"}, To(w, step),
               mutex' \in 0..NumWorkers, UNCHANGED queue
        PROVE  IInv'
    BY <1>0, <2>1, <2>2, WorkerGoesOn DEF WorkerSteps
  <2> QED BY <1>0, <1>1, <1>3, <2>2 DEF Lock
<1>4. CASE Unlock(w)
  <2>1. worker[w] = "inside"
    BY <1>4 DEF Unlock
  <2>2. ASSUME To(w, "receive"), mutex' = 0, UNCHANGED queue
        PROVE  IInv'
    BY <1>0, <2>1, <2>2, WorkerGoesOn DEF WorkerSteps
  <2> QED BY <1>1, <1>4, <2>2 DEF Unlock
<1>5. CASE Cancelled(w)
  BY <1>0, <1>5, WorkerGoesOn DEF Cancelled, WorkerSteps
<1> QED BY <1>2, <1>3, <1>4, <1>5 DEF Work

(* The read thread or the callback goes on. *)
LEMMA UserGoesOn ==
  ASSUME IInv, Running,
         UNCHANGED <<main, resume, signalled, memory, linked, pool, cancelled, events>>,
         NEW u \in DOMAIN user, user[u] # "none",
         NEW step \in {"idle", "use", "ended"}, user' = [user EXCEPT ![u] = step],
         queue' \in Seq({"live", "stale"}), "mq" \notin held => queue' = queue,
         tasks' \in Nat
  PROVE  IInv'
<1>0. /\ UNCHANGED <<held, blocks, worker, mutex, joined>>
      /\ user' \in [{"reader", "callback"} -> {"none", "idle", "use", "ended"}]
      /\ user'["reader"] = "none" <=> user["reader"] = "none"
  BY DEF memory, pool, IInv, TypeOK
<1>1. TypeOK'
  BY <1>0 DEF IInv, TypeOK
<1>2. Holdings' /\ Created'
  BY <1>0 DEF IInv, Holdings, Created
<1>3. Interrupted'
  BY <1>0 DEF IInv, Interrupted
<1>4. QueueClosed' /\ FailedHoldsNothing'
  BY <1>0 DEF IInv, QueueClosed, Closed, FailedHoldsNothing, Running, Dead
<1>5. JoinedEnded' /\ BuffersOutlast'
  BY <1>0 DEF IInv, JoinedEnded, BuffersOutlast, BuffersThere, PoolIncomplete
<1> QED BY <1>1, <1>2, <1>3, <1>4, <1>5 DEF IInv

LEMMA UseKeeps ==
  ASSUME IInv, Running, Use \/ \E u \in DOMAIN user : Arrives(u)
  PROVE  IInv'
<1>0. /\ queue \in Seq({"live", "stale"}) /\ tasks \in Nat /\ tasks + 1 \in Nat /\ events \in Nat
      /\ "reader" \in DOMAIN user
  BY DEF IInv, TypeOK
<1>1. CASE ReaderCancelled
  <2>1. UNCHANGED <<main, resume, signalled, memory, linked, queue, pool, cancelled, tasks, events>>
    BY <1>1 DEF ReaderCancelled, mqueue, bounds
  <2> QED BY <1>0, <1>1, <2>1, UserGoesOn DEF ReaderCancelled
<1>2. ASSUME NEW u \in DOMAIN user, Put(u)
      PROVE  IInv'
  <2>1. CASE Crash
    <3>1. /\ main' = "crashed"
          /\ UNCHANGED <<resume, signalled, memory, linked, queue, pool, user, cancelled, tasks, events>>
      BY <2>1 DEF Crash, mqueue, bounds
    <3> QED BY <1>0, <3>1, CrashKeeps
  <2>2. CASE ~Crash
    <3>1. /\ UNCHANGED <<main, resume, signalled, memory, linked, pool, cancelled, tasks, events>>
          /\ user[u] # "none" /\ user' = [user EXCEPT ![u] = "idle"]
          /\ queue' = queue \/ ("mq" \in held /\ queue' = Append(queue, "live"))
      BY <1>2, <2>2 DEF Put, bounds
    <3>2. queue' \in Seq({"live", "stale"})
      BY <1>0, <3>1, AppendProperties
    <3> QED BY <1>0, <3>1, <3>2, UserGoesOn
  <2> QED BY <2>1, <2>2
<1>3. ASSUME NEW u \in DOMAIN user, Arrives(u)
      PROVE  IInv'
  <2>1. /\ UNCHANGED <<main, resume, signalled, memory, linked, queue, pool, cancelled, events>>
        /\ user[u] # "none" /\ user' = [user EXCEPT ![u] = "use"] /\ tasks' = tasks + 1
    BY <1>3 DEF Arrives, mqueue
  <2> QED BY <1>0, <2>1, UserGoesOn
<1> QED BY <1>1, <1>2, <1>3 DEF Use

------------------------------------------------------------------------------
(* The bring-up *)

(* A step of the main thread in a bring-up no signal interrupted: what it    *)
(* has to show of the step it goes to.                                       *)
LEMMA BringUpGoesOn ==
  ASSUME IInv, main \in BringUp,
         UNCHANGED <<resume, signalled, queue, mutex, joined, cancelled, tasks, events>>,
         main' \in BringUp \cup Up \cup {"mq_close", "failed"},
         held' \in SUBSET {"device", "fd", "pool", "mq", "client"},
         blocks' \in SUBSET ({"up", "down"} \X Blocks),
         linked' \in BOOLEAN,
         worker' \in [Workers -> WorkerSteps],
         user' \in [{"reader", "callback"} -> {"none", "idle", "use", "ended"}],
         user'["reader"] # "none" => main' \in Up,
         \A w \in Workers : worker[w] = "ended" => worker'[w] = "ended",
         Holdings', Created', FailedHoldsNothing',
         main' = "failed" => PoolIncomplete', BuffersOutlast'
  PROVE  IInv'
<1>1. signalled = "no" /\ resume = "none"
  BY DEF IInv, TypeOK, Interrupted, BringUp, Handler, Destroying, Up
<1>2. TypeOK'
  <2>1. main' \in Steps
    BY DEF Steps, Dead, Destroying
  <2> QED BY <2>1 DEF IInv, TypeOK
<1>3. Interrupted'
  BY <1>1 DEF Interrupted, BringUp, Up, Handler
<1>4. QueueClosed'
  BY <1>1 DEF QueueClosed, Closed, BringUp, Up
<1>5. JoinedEnded'
  <2>1. \A w \in 1..joined : w \in Workers
    BY Constants DEF IInv, TypeOK, Workers
  <2> QED BY <2>1 DEF IInv, JoinedEnded, BringUp, Up
<1> QED BY <1>2, <1>3, <1>4, <1>5 DEF IInv

LEMMA BeforeWorkers ==
  ASSUME IInv, main \in {"off", "alloc", "open", "buffers", "pool"}
  PROVE  /\ \A w \in Workers : worker[w] = "none"
         /\ PoolIncomplete
BY Constants DEF IInv, Created, PoolIncomplete, Workers

(* Until the workers are created, the holdings are all there is to show.     *)
LEMMA BringUpEarly ==
  ASSUME IInv, main \in {"alloc", "open", "buffers", "pool"},
         UNCHANGED <<resume, signalled, queue, pool, user, cancelled, tasks, events>>,
         main' \in {"alloc", "open", "buffers", "pool", "threads", "failed"},
         held' \in SUBSET {"device", "fd", "pool", "mq"},
         blocks' \in SUBSET ({"up", "down"} \X Blocks),
         linked' \in BOOLEAN,
         Holdings',
         main' = "failed" => blocks' = {} /\ held' = {}
  PROVE  IInv'
<1>0. UNCHANGED <<worker, mutex, joined>>
  BY DEF pool
<1>1. (\A w \in Workers : worker[w] = "none") /\ PoolIncomplete /\ PoolIncomplete'
  BY <1>0, BeforeWorkers DEF PoolIncomplete
<1>2. Created'
  <2>1. 0 \in 0..(NumWorkers - 1) /\ \A w \in Workers : worker'[w] = "none" <=> w > 0
    BY <1>0, <1>1, Constants DEF Workers
  <2> QED BY <1>0, <1>1, <2>1 DEF Created
<1>3. FailedHoldsNothing' /\ BuffersOutlast'
  BY <1>1 DEF FailedHoldsNothing, BuffersOutlast
<1>4. user["reader"] = "none"
  BY DEF IInv, TypeOK, Interrupted, Up, Handler, Destroying
<1>5. /\ worker \in [Workers -> WorkerSteps]
      /\ user \in [{"reader", "callback"} -> {"none", "idle", "use", "ended"}]
  BY DEF IInv, TypeOK
<1>6. main \in BringUp /\ main' \in BringUp \cup Up \cup {"mq_close", "failed"}
  BY DEF BringUp
<1>7. held' \in SUBSET {"device", "fd", "pool", "mq", "client"}
  OBVIOUS
<1> QED BY <1>0, <1>1, <1>2, <1>3, <1>4, <1>5, <1>6, <1>7, BringUpGoesOn

(* app_buffer_init has released what it allocated when it fails, whichever   *)
(* allocation failed.                                                        *)
LEMMA BufferInitFails == \A i \in 1..7 : BufferInit(i) = {}
<1> TAKE i \in 1..7
<1>1. \A j \in 1..(i - 1) : Allocations[j] \in Cleanup(i)
  BY DEF Cleanup, Allocations, CleanupBuffer, CleanupSub0, CleanupSub1, CleanupReadMutex
<1> QED BY <1>1 DEF BufferInit

LEMMA BuffersBlocks ==
  /\ BufferInit(0) = Blocks
  /\ \A name \in {"up", "down"} : Buffer(name, Blocks) \in SUBSET ({"up", "down"} \X Blocks)
  /\ Buffer("down", BufferInit(0)) # {}
  /\ \A name : Buffer(name, {}) = {}
<1>1. BufferInit(0) = Blocks
  BY DEF BufferInit
<1>2. "buffer" \in Blocks
  <2>1. Allocations[1] = "buffer" /\ 1 \in 1..7
    BY DEF Allocations
  <2> QED BY <2>1 DEF Blocks
<1>3. <<"down", "buffer">> \in Buffer("down", Blocks)
  BY <1>2 DEF Buffer
<1> QED BY <1>1, <1>3 DEF Buffer

LEMMA AllocKeeps == IInv /\ Alloc => IInv'
<1> SUFFICES ASSUME IInv, Alloc PROVE IInv'
  OBVIOUS
<1>1. /\ main = "alloc" /\ held = {} /\ blocks = {} /\ linked \in BOOLEAN
      /\ UNCHANGED <<resume, signalled, blocks, queue, linked, pool, user, cancelled, tasks, events>>
  BY DEF Alloc, Goto, mqueue, bounds, IInv, Holdings, TypeOK
<1>2. \/ main' = "open" /\ held' = {"device"}
      \/ main' = "failed" /\ held' = {}
  BY <1>1 DEF Alloc, Goto
<1>3. Holdings'
  BY <1>1, <1>2 DEF Holdings, Destroying
<1> QED BY <1>1, <1>2, <1>3, BringUpEarly

LEMMA OpenKeeps == IInv /\ Open => IInv'
<1> SUFFICES ASSUME IInv, Open PROVE IInv'
  OBVIOUS
<1>1. /\ main = "open" /\ held = {"device"} /\ blocks = {} /\ linked \in BOOLEAN
      /\ UNCHANGED <<resume, signalled, blocks, queue, linked, pool, user, cancelled, tasks, events>>
  BY DEF Open, Goto, mqueue, bounds, IInv, Holdings, TypeOK
<1>2. \/ main' = "buffers" /\ held' = {"device", "fd"}
      \/ main' = "failed" /\ held' = {}
  BY <1>1 DEF Open, Goto
<1>3. Holdings'
  BY <1>1, <1>2 DEF Holdings, Destroying
<1> QED BY <1>1, <1>2, <1>3, BringUpEarly

LEMMA BuffersKeeps == IInv /\ Buffers => IInv'
<1> SUFFICES ASSUME IInv, Buffers PROVE IInv'
  OBVIOUS
<1>1. /\ main = "buffers" /\ held = {"device", "fd"} /\ linked \in BOOLEAN
      /\ UNCHANGED <<resume, signalled, queue, linked, pool, user, cancelled, tasks, events>>
  BY DEF Buffers, Goto, mqueue, bounds, IInv, Holdings, TypeOK
<1>2. \/ main' = "pool" /\ held' = {"device", "fd"}
         /\ blocks' = Buffer("down", BufferInit(0)) \cup Buffer("up", BufferInit(0))
      \/ main' = "failed" /\ held' = {} /\ blocks' = {}
  <2> PICK i \in 0..7, j \in 0..7 :
        IF i = 0 /\ j = 0
        THEN /\ Goto("buffers", "pool")
             /\ blocks' = Buffer("down", BufferInit(0)) \cup Buffer("up", BufferInit(0))
             /\ UNCHANGED held
        ELSE /\ Goto("buffers", "failed")
             /\ blocks' = (IF i = 0 THEN {} ELSE Buffer("down", BufferInit(i)))
                    \cup (IF j = 0 THEN {} ELSE Buffer("up", BufferInit(j)))
             /\ held' = {}
    BY DEF Buffers
  <2>1. i # 0 => BufferInit(i) = {}
    BY BufferInitFails
  <2>2. j # 0 => BufferInit(j) = {}
    BY BufferInitFails
  <2> QED BY <1>1, <2>1, <2>2, BuffersBlocks DEF Goto
<1>3. blocks' \in SUBSET ({"up", "down"} \X Blocks) /\ (main' = "pool" => blocks' # {})
  BY <1>2, BuffersBlocks
<1>4. Holdings'
  BY <1>1, <1>2, <1>3 DEF Holdings, Destroying
<1> QED BY <1>1, <1>2, <1>3, <1>4, BringUpEarly

LEMMA PoolAllocKeeps == IInv /\ PoolAlloc => IInv'
<1> SUFFICES ASSUME IInv, PoolAlloc PROVE IInv'
  OBVIOUS
<1>1. /\ main = "pool" /\ held = {"device", "fd"} /\ blocks # {} /\ linked \in BOOLEAN
      /\ blocks \in SUBSET ({"up", "down"} \X Blocks)
      /\ UNCHANGED <<resume, signalled, queue, pool, user, cancelled, tasks, events>>
  BY DEF PoolAlloc, Goto, bounds, IInv, Holdings, TypeOK
<1>2. /\ linked' \in BOOLEAN
      /\ \/ /\ main' = "threads" /\ blocks' = blocks
            /\ held' \in {{"device", "fd", "pool", "mq"}, {"device", "fd", "pool"}}
         \/ main' = "failed" /\ blocks' = {} /\ held' = {}
  BY <1>1 DEF PoolAlloc, Goto, ReleaseDevice
<1>3. Holdings'
  BY <1>1, <1>2 DEF Holdings, Destroying
<1> QED BY <1>1, <1>2, <1>3, BringUpEarly

(* The worker that is created next is the first that is not there.          *)
LEMMA CreateWorkerKeeps == IInv /\ CreateWorker => IInv'
<1> SUFFICES ASSUME IInv, CreateWorker PROVE IInv'
  OBVIOUS
<1>1. /\ main = "threads" /\ blocks # {} /\ linked \in BOOLEAN
      /\ "device" \in held /\ held \subseteq {"device", "fd", "pool", "mq"}
      /\ blocks \in SUBSET ({"up", "down"} \X Blocks)
      /\ worker \in [Workers -> WorkerSteps]
      /\ user \in [{"reader", "callback"} -> {"none", "idle", "use", "ended"}]
      /\ user["reader"] = "none"
      /\ UNCHANGED <<resume, signalled, linked, queue, mutex, joined, user, cancelled, tasks, events>>
  BY DEF CreateWorker, mqueue, bounds, IInv, Holdings, TypeOK, Interrupted, Handler, Destroying, Up
<1> PICK n \in 0..(NumWorkers - 1) : \A w \in Workers : worker[w] = "none" <=> w > n
  BY <1>1 DEF IInv, Created
<1> DEFINE First(v) == worker[v] = "none" /\ \A u \in 1..(v - 1) : worker[u] # "none"
<1>2. n + 1 \in Workers /\ NumWorkers \in Workers /\ n \in Nat
  BY Constants DEF Workers
<1>3. First(n + 1)
  <2>1. \A u \in 1..n : u \in Workers /\ ~(u > n)
    BY Constants DEF Workers
  <2>2. worker[n + 1] = "none"
    BY <1>2
  <2> QED BY <1>2, <2>1, <2>2
<1>4. \A v \in Workers : First(v) => v = n + 1
  <2> SUFFICES ASSUME NEW v \in Workers, First(v), v # n + 1 PROVE FALSE
    OBVIOUS
  <2>1. v > n /\ v \in Nat
    BY DEF Workers
  <2>2. n + 1 \in 1..(v - 1)
    BY <1>2, <2>1
  <2> QED BY <1>3, <2>2
<1>5. (CHOOSE v \in Workers : First(v)) = n + 1
  BY <1>2, <1>3, <1>4
<1>6. \/ /\ worker' = [worker EXCEPT ![n + 1] = "receive"]
         /\ main' = IF n + 1 = NumWorkers THEN "mqtt" ELSE "threads"
         /\ held' = held /\ blocks' = blocks
      \/ main' = "failed" /\ ReleaseDevice /\ UNCHANGED worker
  BY <1>5 DEF CreateWorker, memory
<1>7. CASE /\ worker' = [worker EXCEPT ![n + 1] = "receive"]
           /\ main' = IF n + 1 = NumWorkers THEN "mqtt" ELSE "threads"
           /\ held' = held /\ blocks' = blocks
  <2>1. \A w \in Workers : worker'[w] = "none" <=> w > n + 1
    BY <1>1, <1>2, <1>7 DEF Workers
  <2>2. worker' \in [Workers -> WorkerSteps] /\ \A w \in Workers : worker[w] = "ended" => worker'[w] = "ended"
    BY <1>1, <1>2, <1>7 DEF WorkerSteps
  <2>3. Holdings'
    BY <1>1, <1>7 DEF Holdings, Destroying
  <2>4. Created'
    <3>1. main' = "threads" => n + 1 \in 0..(NumWorkers - 1)
      BY <1>2, <1>7, Constants
    <3> QED BY <1>7, <2>1, <3>1 DEF Created
  <2>5. FailedHoldsNothing' /\ BuffersOutlast'
    BY <1>1, <1>7 DEF FailedHoldsNothing, BuffersOutlast, BuffersThere
  <2>6. main \in BringUp /\ main' \in BringUp /\ main' # "failed"
    BY <1>1, <1>7 DEF BringUp
  <2>7. held' \in SUBSET {"device", "fd", "pool", "mq", "client"}
    BY <1>1, <1>7
  <2> QED BY <1>1, <1>7, <2>2, <2>3, <2>4, <2>5, <2>6, <2>7, BringUpGoesOn
<1>8. CASE main' = "failed" /\ ReleaseDevice /\ UNCHANGED worker
  <2>1. blocks' = {} /\ held' = held \ {"device", "fd"}
    BY <1>8 DEF ReleaseDevice
  <2>2. PoolIncomplete'
    <3>1. worker[NumWorkers] = "none"
      BY <1>2, Constants
    <3> QED BY <1>8, <3>1 DEF PoolIncomplete
  <2>3. Holdings' /\ Created'
    BY <1>8 DEF Holdings, Created, Destroying
  <2>4. FailedHoldsNothing' /\ BuffersOutlast'
    BY <1>1, <2>1, <2>2 DEF FailedHoldsNothing, BuffersOutlast
  <2>5. main \in BringUp /\ held' \in SUBSET {"device", "fd", "pool", "mq", "client"}
    BY <1>1, <2>1 DEF BringUp
  <2> QED BY <1>1, <1>8, <2>1, <2>2, <2>3, <2>4, <2>5, BringUpGoesOn
<1> QED BY <1>6, <1>7, <1>8

(* The steps once the workers are there. *)
LEMMA LateKeeps ==
  ASSUME IInv, Mqtt \/ Start \/ CreateReader
  PROVE  IInv'
<1>1. /\ main \in {"mqtt", "bt", "thread"}
      /\ main' \in {"bt", "thread", "register", "mq_close"}
      /\ held' \in {held, held \cup {"client"}} /\ (main' = "mq_close" => main = "mqtt" /\ held' = held)
      /\ UNCHANGED <<resume, signalled, blocks, linked, queue, worker, mutex, joined, cancelled, tasks, events>>
      /\ user' = user \/ (main' = "register" /\ user' = [user EXCEPT !["reader"] = "idle"])
  BY DEF Mqtt, Start, CreateReader, Goto, mqueue, pool, bounds, memory
<1>2. /\ worker \in [Workers -> WorkerSteps] /\ linked \in BOOLEAN
      /\ user \in [{"reader", "callback"} -> {"none", "idle", "use", "ended"}]
      /\ blocks \in SUBSET ({"up", "down"} \X Blocks)
      /\ held \in SUBSET {"device", "fd", "pool", "mq", "client"}
  BY DEF IInv, TypeOK
<1>3. user["reader"] = "none"
  BY <1>1 DEF IInv, TypeOK, Interrupted, Up, Handler, Destroying
<1>4. Holdings' /\ Created'
  BY <1>1 DEF IInv, Holdings, Created, Destroying
<1>5. FailedHoldsNothing'
  BY <1>1 DEF FailedHoldsNothing
<1>6. BuffersOutlast'
  BY <1>1 DEF IInv, BuffersOutlast, BuffersThere, PoolIncomplete
<1>7. main \in BringUp /\ main' \in BringUp \cup Up \cup {"mq_close", "failed"} /\ main' # "failed"
  BY <1>1 DEF BringUp, Up
<1>8. /\ user' \in [{"reader", "callback"} -> {"none", "idle", "use", "ended"}]
      /\ user'["reader"] # "none" => main' \in Up
      /\ held' \in SUBSET {"device", "fd", "pool", "mq", "client"}
  BY <1>1, <1>2, <1>3 DEF Up
<1> QED BY <1>1, <1>2, <1>4, <1>5, <1>6, <1>7, <1>8, BringUpGoesOn

------------------------------------------------------------------------------
(* The end of a bring-up that failed, and the end of the application *)

(* A step of the main thread after which the process has not failed.         *)
LEMMA EndGoesOn ==
  ASSUME IInv,
         UNCHANGED <<signalled, worker, mutex, tasks>>,
         main' \in Up \cup Destroying \cup Handler \cup {"release", "ended"},
         resume' \in Steps \cup {"none"},
         held' \in SUBSET held, blocks' \in SUBSET blocks,
         linked' \in BOOLEAN, queue' \in Seq({"live", "stale"}),
         user' \in [{"reader", "callback"} -> {"none", "idle", "use", "ended"}],
         cancelled' \in SUBSET (0..NumWorkers),
         joined' \in 0..NumWorkers, events' \in Nat,
         Holdings', Interrupted', QueueClosed', JoinedEnded',
         signalled = "no" => held' \ {"mq", "pool"} = held \ {"mq", "pool"} /\ blocks' = blocks
  PROVE  IInv'
<1>1. TypeOK'
  <2>1. main' \in Steps
    BY DEF Steps, Dead
  <2> QED BY <2>1 DEF IInv, TypeOK
<1>2. Created' /\ FailedHoldsNothing'
  BY DEF Created, FailedHoldsNothing, Up, Destroying, Handler
<1>3. BuffersOutlast'
  <2>1. signalled = "no" => (BuffersThere' <=> BuffersThere)
    BY DEF BuffersThere
  <2>2. PoolIncomplete' <=> PoolIncomplete
    BY DEF PoolIncomplete
  <2> QED BY <2>1, <2>2 DEF IInv, BuffersOutlast
<1> QED BY <1>1, <1>2, <1>3 DEF IInv

(* While no signal was handled, resume is "none" at the steps a bring-up     *)
(* that fails shares with the handler; otherwise there is a step to resume.  *)
LEMMA Resumes ==
  ASSUME IInv
  PROVE  /\ main \in BringUp \cup {"release"} => signalled = "no" /\ resume = "none"
         /\ main \in Destroying =>
              \/ signalled = "no" /\ resume = "none"
              \/ signalled = "running" /\ resume \in Up
         /\ main \in {"join_reader", "mqtt_close"} => signalled = "running" /\ resume \in Up
         /\ main \in Handler => signalled # "no"
         /\ main \in Up => resume = "none"
BY DEF IInv, TypeOK, Interrupted, BringUp, Destroying, Handler, Up

LEMMA MqCloseKeeps == IInv /\ MqClose => IInv'
<1> SUFFICES ASSUME IInv, MqClose PROVE IInv'
  OBVIOUS
<1>1. /\ main = "mq_close" /\ main' = "join"
      /\ held' = held \ {"mq"} /\ linked' = FALSE /\ queue' = <<>>
      /\ UNCHANGED <<resume, signalled, blocks, worker, mutex, joined, user, cancelled, tasks, events>>
  BY DEF MqClose, Goto, pool, bounds
<1>2. /\ resume \in Steps \cup {"none"} /\ joined \in 0..NumWorkers /\ events \in Nat
      /\ user \in [{"reader", "callback"} -> {"none", "idle", "use", "ended"}]
      /\ cancelled \in SUBSET (0..NumWorkers)
      /\ <<>> \in Seq({"live", "stale"})
  BY EmptySeq DEF IInv, TypeOK
<1>3. Holdings'
  BY <1>1 DEF IInv, Holdings, Destroying
<1>4. Interrupted'
  BY <1>1, Resumes DEF IInv, Interrupted, Destroying, Handler, Up
<1>5. QueueClosed' /\ JoinedEnded'
  BY <1>1 DEF IInv, QueueClosed, JoinedEnded
<1>6. main' \in Destroying
  BY <1>1 DEF Destroying
<1> QED BY <1>1, <1>2, <1>3, <1>4, <1>5, <1>6, EndGoesOn

LEMMA JoinWorkerKeeps == IInv /\ JoinWorker => IInv'
<1> SUFFICES ASSUME IInv, JoinWorker PROVE IInv'
  OBVIOUS
<1>1. /\ main = "join"
      /\ UNCHANGED <<resume, signalled, blocks, linked, queue, worker, mutex, user, tasks, events>>
      /\ "mq" \notin held /\ queue = <<>>
  BY DEF JoinWorker, mqueue, bounds, IInv, QueueClosed, Closed
<1>2. /\ resume \in Steps \cup {"none"} /\ joined \in 0..NumWorkers /\ events \in Nat
      /\ user \in [{"reader", "callback"} -> {"none", "idle", "use", "ended"}]
      /\ cancelled \in SUBSET (0..NumWorkers) /\ linked \in BOOLEAN
      /\ <<>> \in Seq({"live", "stale"})
  BY EmptySeq DEF IInv, TypeOK
<1>3. CASE joined = NumWorkers
  <2>1. /\ held' = held \ {"pool"} /\ cancelled' = cancelled /\ joined' = joined
        /\ \/ resume = "none" /\ signalled = "no" /\ main' = "release"
           \/ resume \in Up /\ signalled = "running" /\ main' = "mqtt_close"
    BY <1>1, <1>3, Resumes DEF JoinWorker, Destroying, Up
  <2>2. Holdings'
    BY <1>1, <2>1 DEF IInv, Holdings, Destroying
  <2>3. Interrupted'
    BY <1>1, <2>1 DEF IInv, Interrupted, Destroying, Handler, Up
  <2>4. QueueClosed' /\ JoinedEnded'
    BY <1>1, <1>3, <2>1 DEF IInv, QueueClosed, JoinedEnded
  <2>5. main' \in Handler \cup {"release"}
    BY <2>1 DEF Handler
  <2> QED BY <1>1, <1>2, <2>1, <2>2, <2>3, <2>4, <2>5, EndGoesOn
<1>4. CASE joined # NumWorkers
  <2>1. /\ main' = main /\ held' = held
        /\ \/ worker[joined + 1] = "ended" /\ joined' = joined + 1 /\ cancelled' = cancelled
           \/ cancelled' = cancelled \cup {joined + 1} /\ joined' = joined
    BY <1>1, <1>4 DEF JoinWorker
  <2>2. joined' \in 0..NumWorkers /\ cancelled' \in SUBSET (0..NumWorkers)
    <3>1. joined + 1 \in 0..NumWorkers
      BY <1>2, <1>4, Constants
    <3>2. cancelled \cup {joined + 1} \in SUBSET (0..NumWorkers)
      BY <1>2, <3>1
    <3> QED BY <1>2, <2>1, <3>1, <3>2
  <2>3. JoinedEnded'
    BY <1>1, <1>2, <2>1 DEF IInv, JoinedEnded
  <2>4. Holdings' /\ Interrupted' /\ QueueClosed'
    BY <1>1, <2>1 DEF IInv, Holdings, Interrupted, QueueClosed
  <2>5. main' \in Destroying
    BY <1>1, <2>1 DEF Destroying
  <2> QED BY <1>1, <1>2, <2>1, <2>2, <2>3, <2>4, <2>5, EndGoesOn
<1> QED BY <1>3, <1>4

(* All workers have ended when the buffers go, and the queue is empty.       *)
LEMMA ReleaseKeeps == IInv /\ Release => IInv'
<1> SUFFICES ASSUME IInv, Release PROVE IInv'
  OBVIOUS
<1>1. /\ main = "release" /\ main' = "failed" /\ blocks' = {} /\ held' = held \ {"device", "fd"}
      /\ UNCHANGED <<resume, signalled, linked, queue, worker, mutex, joined, user, cancelled, tasks, events>>
  BY DEF Release, Goto, ReleaseDevice, mqueue, pool, bounds
<1>2. held' = {} /\ queue = <<>> /\ joined = NumWorkers /\ signalled = "no" /\ resume = "none"
  BY <1>1, Resumes DEF IInv, Holdings, QueueClosed, Closed, JoinedEnded
<1>3. \A w \in Workers : worker[w] = "ended"
  BY <1>2 DEF IInv, JoinedEnded, Workers
<1>4. TypeOK'
  BY <1>1, <1>2 DEF IInv, TypeOK, Steps, Dead
<1>5. Holdings' /\ Created'
  BY <1>1 DEF Holdings, Created, Destroying
<1>6. Interrupted'
  BY <1>1, <1>2 DEF IInv, Interrupted, Handler, Up
<1>7. QueueClosed' /\ JoinedEnded'
  BY <1>1, <1>2 DEF IInv, QueueClosed, Closed, JoinedEnded, Up
<1>8. BuffersOutlast' /\ FailedHoldsNothing'
  BY <1>1, <1>2, <1>3 DEF BuffersOutlast, FailedHoldsNothing
<1> QED BY <1>4, <1>5, <1>6, <1>7, <1>8 DEF IInv

(* The loop, and what precedes it. *)
LEMMA UpKeeps ==
  ASSUME IInv, Register \/ LoopEnds
  PROVE  IInv'
<1>1. /\ UNCHANGED <<resume, signalled, held, blocks, linked, queue, worker, mutex, joined, cancelled, tasks, events>>
      /\ \/ main = "register" /\ main' = "loop" /\ user' = [user EXCEPT !["callback"] = "idle"]
         \/ main = "loop" /\ main' = "ended" /\ signalled # "no" /\ user' = user
  BY DEF Register, LoopEnds, Goto, memory, mqueue, pool, bounds
<1>2. /\ resume \in Steps \cup {"none"} /\ joined \in 0..NumWorkers /\ events \in Nat
      /\ user \in [{"reader", "callback"} -> {"none", "idle", "use", "ended"}]
      /\ cancelled \in SUBSET (0..NumWorkers) /\ linked \in BOOLEAN
      /\ queue \in Seq({"live", "stale"}) /\ signalled \in {"no", "early", "running"}
  BY DEF IInv, TypeOK
<1>3. resume = "none" /\ (signalled # "no" => signalled = "running")
  BY <1>1, <1>2, Resumes DEF IInv, Interrupted, Up
<1>4. /\ user' \in [{"reader", "callback"} -> {"none", "idle", "use", "ended"}]
      /\ user'["reader"] = user["reader"]
  BY <1>1, <1>2
<1>5. Holdings'
  BY <1>1 DEF Holdings, Destroying
<1>6. Interrupted'
  BY <1>1, <1>2, <1>3, <1>4 DEF Interrupted, Handler, Destroying, Up
<1>7. QueueClosed' /\ JoinedEnded'
  BY <1>1, <1>2, <1>3 DEF IInv, QueueClosed, Closed, JoinedEnded, Up
<1>8. main' \in Up \cup {"ended"}
  BY <1>1 DEF Up
<1> QED BY <1>1, <1>2, <1>4, <1>5, <1>6, <1>7, <1>8, EndGoesOn

(* A signal finds the read thread only where the application is up.          *)
LEMMA SignalKeeps == IInv /\ Running /\ Signal => IInv'
<1> SUFFICES ASSUME IInv, Running, Signal PROVE IInv'
  OBVIOUS
<1>1. /\ resume = "none" /\ signalled = "no"
      /\ resume' = main /\ main' = "close" /\ events' = events + 1
      /\ signalled' = IF user["reader"] = "none" THEN "early" ELSE "running"
      /\ UNCHANGED <<held, blocks, linked, queue, worker, mutex, joined, user, cancelled, tasks>>
  BY DEF Signal, memory, mqueue, pool
<1>2. user["reader"] # "none" => main \in Up
  BY <1>1 DEF IInv, Interrupted, Running, Dead
<1>3. TypeOK'
  BY <1>1 DEF IInv, TypeOK, Steps, Handler
<1>4. Holdings' /\ Created' /\ FailedHoldsNothing'
  BY <1>1 DEF Holdings, Created, FailedHoldsNothing, Destroying
<1>5. Interrupted'
  BY <1>1, <1>2 DEF Interrupted, Handler
<1>6. QueueClosed' /\ JoinedEnded' /\ BuffersOutlast'
  BY <1>1 DEF IInv, QueueClosed, Closed, JoinedEnded, BuffersOutlast, Up
<1> QED BY <1>3, <1>4, <1>5, <1>6 DEF IInv

(* The handler crashes when the signal came too early. *)
LEMMA HandlerKeeps ==
  ASSUME IInv, CloseFd \/ FreeBuffers \/ CancelReader \/ JoinReader \/ MqttClose
  PROVE  IInv'
<1>0. /\ resume \in Steps \cup {"none"} /\ joined \in 0..NumWorkers /\ events \in Nat
      /\ user \in [{"reader", "callback"} -> {"none", "idle", "use", "ended"}]
      /\ cancelled \in SUBSET (0..NumWorkers) /\ linked \in BOOLEAN
      /\ queue \in Seq({"live", "stale"}) /\ signalled \in {"no", "early", "running"}
      /\ 0 \in 0..NumWorkers
  BY Constants DEF IInv, TypeOK
<1>1. CASE Crash
  <2>1. UNCHANGED <<resume, signalled, memory, linked, queue, pool, user, cancelled, tasks, events>> /\ main' = "crashed"
    BY <1>1 DEF Crash, mqueue, bounds
  <2> QED BY <1>0, <2>1, CrashKeeps
<1>2. CASE ~Crash
  <2>1. /\ UNCHANGED <<signalled, linked, queue, worker, mutex, joined, user, tasks, events>>
        /\ held' \in SUBSET held /\ blocks' \in SUBSET blocks
        /\ cancelled' \in {cancelled, cancelled \cup {0}}
        /\ \/ main = "close" /\ main' = "free" /\ resume' = resume
           \/ main = "free" /\ main' = "cancel" /\ resume' = resume
           \/ main = "cancel" /\ main' = "join_reader" /\ resume' = resume /\ user["reader"] # "none"
           \/ main = "join_reader" /\ main' = "mq_close" /\ resume' = resume
           \/ main = "mqtt_close" /\ main' = resume /\ resume' = "none"
    BY <1>2 DEF CloseFd, FreeBuffers, CancelReader, JoinReader, MqttClose, Goto, memory, mqueue, pool, bounds
  <2>2. main \in Handler /\ signalled # "no"
    BY <2>1, Resumes DEF Handler
  <2>3. main = "mqtt_close" => signalled = "running" /\ resume \in Up
    BY Resumes
  <2>4. main' \in Up \cup Destroying \cup Handler /\ main' # "release"
    BY <2>1, <2>3 DEF Up, Destroying, Handler
  <2>5. Holdings'
    BY <2>1, <2>2, <2>3 DEF Holdings, Destroying, Up
  <2>6. Interrupted'
    BY <1>0, <2>1, <2>2, <2>3 DEF IInv, Interrupted, Handler, Destroying, Up
  <2>7. QueueClosed' /\ JoinedEnded'
    BY <2>1, <2>3 DEF IInv, QueueClosed, Closed, JoinedEnded, Up
  <2>8. resume' \in Steps \cup {"none"} /\ cancelled' \in SUBSET (0..NumWorkers)
    BY <1>0, <2>1
  <2> QED BY <1>0, <2>1, <2>2, <2>4, <2>5, <2>6, <2>7, <2>8, EndGoesOn
<1> QED BY <1>1, <1>2

------------------------------------------------------------------------------
(* The process *)

LEMMA ProcessKeeps ==
  ASSUME IInv, (Running /\ Dies) \/ ProcessEnds \/ ProcessStarts
  PROVE  IInv'
<1>1. CASE Running /\ Dies
  <2>1. /\ UNCHANGED <<resume, signalled, memory, linked, queue, pool, user, cancelled, tasks>>
        /\ main' = "killed" /\ events' = events + 1
        /\ queue \in Seq({"live", "stale"}) /\ events \in Nat
    BY <1>1 DEF Dies, mqueue, IInv, TypeOK
  <2> QED BY <2>1, CrashKeeps
<1>2. CASE ProcessEnds
  <2>1. /\ main' = "off" /\ resume' = "none" /\ signalled' = "no" /\ held' = {} /\ blocks' = {}
        /\ worker' = [w \in Workers |-> "none"] /\ mutex' = 0 /\ joined' = 0
        /\ user' = [u \in {"reader", "callback"} |-> "none"] /\ cancelled' = {}
        /\ UNCHANGED <<linked, tasks, events>>
    BY <1>2 DEF ProcessEnds, bounds, IInv, TypeOK
  <2>2. queue' \in Seq({"live", "stale"})
    <3> DEFINE n == Len(queue)
    <3>1. n \in Nat /\ DOMAIN queue = 1..n
      BY LenProperties DEF IInv, TypeOK
    <3>2. queue' \in [1..n -> {"live", "stale"}]
      BY <1>2, <3>1 DEF ProcessEnds
    <3> HIDE DEF n
    <3> QED BY <3>1, <3>2, SeqDef
  <2>3. TypeOK'
    <3>1. worker' \in [Workers -> WorkerSteps] /\ 0 \in 0..NumWorkers
      BY <2>1, Constants DEF WorkerSteps
    <3> QED BY <2>1, <2>2, <3>1 DEF IInv, TypeOK, Steps, Dead
  <2>4. PoolIncomplete'
    BY <2>1, Constants DEF PoolIncomplete, Workers
  <2>5. Holdings' /\ Created' /\ FailedHoldsNothing'
    BY <2>1 DEF Holdings, Created, FailedHoldsNothing, Destroying
  <2>6. Interrupted'
    BY <2>1 DEF Interrupted, Handler
  <2>7. QueueClosed' /\ JoinedEnded' /\ BuffersOutlast'
    BY <2>1, <2>4 DEF QueueClosed, Closed, JoinedEnded, BuffersOutlast, Up
  <2> QED BY <2>3, <2>5, <2>6, <2>7 DEF IInv
<1>3. CASE ProcessStarts
  <2>1. /\ main = "off" /\ main' = "alloc"
        /\ UNCHANGED <<resume, signalled, held, blocks, linked, queue, worker, mutex, joined, user, cancelled, tasks, events>>
    BY <1>3 DEF ProcessStarts, Goto, memory, mqueue, pool, bounds
  <2>2. signalled = "no" /\ resume = "none" /\ user["reader"] = "none"
    BY <2>1 DEF IInv, TypeOK, Interrupted, Handler, Destroying, Up
  <2>3. TypeOK'
    BY <2>1 DEF IInv, TypeOK, Steps, BringUp
  <2>4. Holdings' /\ Created' /\ FailedHoldsNothing'
    BY <2>1 DEF IInv, Holdings, Created, FailedHoldsNothing, Destroying
  <2>5. Interrupted'
    BY <2>1, <2>2 DEF Interrupted, Handler
  <2>6. QueueClosed' /\ JoinedEnded' /\ BuffersOutlast'
    BY <2>1, <2>2 DEF IInv, QueueClosed, Closed, JoinedEnded, BuffersOutlast, BuffersThere, PoolIncomplete, Up
  <2> QED BY <2>3, <2>4, <2>5, <2>6 DEF IInv
<1> QED BY <1>1, <1>2, <1>3

LEMMA NextInvariant == IInv /\ [Next]_vars => IInv'
<1> SUFFICES ASSUME IInv, [Next]_vars PROVE IInv'
  OBVIOUS
<1>1. CASE Main
  BY <1>1, AllocKeeps, OpenKeeps, BuffersKeeps, PoolAllocKeeps, CreateWorkerKeeps, LateKeeps,
     MqCloseKeeps, JoinWorkerKeeps, ReleaseKeeps, UpKeeps, HandlerKeeps DEF Main
<1>2. CASE UNCHANGED vars
  BY <1>2 DEF vars, memory, mqueue, pool, bounds, IInv, TypeOK, Holdings, Created, Interrupted, QueueClosed,
     Closed, JoinedEnded, BuffersOutlast, BuffersThere, PoolIncomplete, FailedHoldsNothing
<1> QED BY <1>1, <1>2, SignalKeeps, UseKeeps, WorkKeeps, ProcessKeeps DEF Next

------------------------------------------------------------------------------
(* The theorems *)

(* In every reachable state: what the main thread holds at each step, who is *)
(* where, and what is left in the queue (app_runner_init, app_device_init,   *)
(* app_pool_init, their failing, and the handler of the signals).            *)
THEOREM Invariance == Spec => []IInv
BY InitInvariant, NextInvariant, PTL DEF Spec

(* The steps of main, of the workers and of the callback, what is held and   *)
(* what is in the queue have their types (app_runner.c, app_device.c).       *)
THEOREM TypeCorrect == Spec => []TypeOK
<1>1. IInv => TypeOK
  BY DEF IInv
<1> QED BY Invariance, <1>1, PTL

(* A bring-up that failed has released everything, except pool and queue     *)
(* when a worker could not be created, whichever of the allocations failed   *)
(* (app_device.c:12-61, app_buffer.c:66-76, app_pool.c:54-58).               *)
THEOREM FailureReleases == Spec => []FailedHoldsNothing
<1>1. IInv => FailedHoldsNothing
  BY DEF IInv
<1> QED BY Invariance, <1>1, PTL

(* No worker is in a buffer that is not there, until a signal was handled or *)
(* a worker could not be created (app_device.c:51-60).                       *)
THEOREM WorkersFindBuffers == Spec => []WorkersInBuffers
<1>1. IInv => WorkersInBuffers
  BY DEF IInv, BuffersOutlast, WorkersInBuffers
<1> QED BY Invariance, <1>1, PTL

(* A process whose pool was up and that ends by itself leaves no task to the *)
(* next one: its queue was closed before, and nobody added to it afterwards  *)
(* (app_pool.c:69-70, app_runner.c:30-43).                                   *)
THEOREM NoTasksLeft == Spec => LeavesNoTasks
<1>1. IInv /\ [Next]_vars =>
        [main' = "off" /\ main \in {"failed", "ended"} /\ ~PoolIncomplete => queue' = <<>>]_vars
  <2> SUFFICES ASSUME IInv, Next, main' = "off", main \in {"failed", "ended"}, ~PoolIncomplete
               PROVE  queue' = <<>>
    OBVIOUS
  <2>1. queue = <<>>
    BY DEF IInv, QueueClosed, Closed
  <2>2. ProcessEnds
    BY DEF Next, Running, Dead, ProcessStarts, Goto
  <2>3. DOMAIN queue = {}
    BY <2>1
  <2>4. queue' = [i \in {} |-> "stale"]
    BY <2>2, <2>3 DEF ProcessEnds
  <2> QED BY <2>4
<1> QED BY Invariance, <1>1, PTL DEF Spec, LeavesNoTasks

(* The workers are created one after the other: the next is n + 1. *)
LEMMA NextWorker ==
  ASSUME IInv, CreateWorker
  PROVE  \E n \in 0..(NumWorkers - 1) :
           /\ n + 1 \in Workers
           /\ \A w \in Workers : worker[w] = "none" <=> w > n
           /\ \/ /\ worker' = [worker EXCEPT ![n + 1] = "receive"]
                 /\ main' = IF n + 1 = NumWorkers THEN "mqtt" ELSE "threads"
                 /\ held' = held /\ blocks' = blocks
              \/ main' = "failed" /\ ReleaseDevice /\ UNCHANGED worker
<1>1. main = "threads"
  BY DEF CreateWorker
<1> PICK n \in 0..(NumWorkers - 1) : \A w \in Workers : worker[w] = "none" <=> w > n
  BY <1>1 DEF IInv, Created
<1> DEFINE First(v) == worker[v] = "none" /\ \A u \in 1..(v - 1) : worker[u] # "none"
<1>2. n + 1 \in Workers /\ n \in Nat
  BY Constants DEF Workers
<1>3. First(n + 1)
  <2>1. \A u \in 1..n : u \in Workers /\ ~(u > n)
    BY Constants DEF Workers
  <2>2. worker[n + 1] = "none"
    BY <1>2
  <2> QED BY <1>2, <2>1, <2>2
<1>4. \A v \in Workers : First(v) => v = n + 1
  <2> SUFFICES ASSUME NEW v \in Workers, First(v), v # n + 1 PROVE FALSE
    OBVIOUS
  <2>1. v > n /\ v \in Nat
    BY DEF Workers
  <2>2. n + 1 \in 1..(v - 1)
    BY <1>2, <2>1
  <2> QED BY <1>3, <2>2
<1>5. (CHOOSE v \in Workers : First(v)) = n + 1
  BY <1>2, <1>3, <1>4
<1>6. \/ /\ worker' = [worker EXCEPT ![n + 1] = "receive"]
         /\ main' = IF n + 1 = NumWorkers THEN "mqtt" ELSE "threads"
         /\ held' = held /\ blocks' = blocks
      \/ main' = "failed" /\ ReleaseDevice /\ UNCHANGED worker
  BY <1>5 DEF CreateWorker, memory
<1> HIDE DEF First
<1> QED BY <1>2, <1>6

------------------------------------------------------------------------------
(* Whom app_pool_destroy waits for *)

(* From app_mqtt_init on the pool has all of its workers.                    *)
PoolUp == main \in {"mqtt", "bt", "thread"} \cup Up \cup Destroying \/ resume \in Up

AllCreated == PoolUp => \A w \in Workers : worker[w] # "none"

(* The mutex is held by a worker that is in the buffer or ended there.       *)
LockHeldInside == mutex = 0 \/ worker[mutex] \in {"inside", "ended"}

PoolInv == AllCreated /\ LockHeldInside

(* w has a step to take that waits for nobody. *)
CanWork(w) ==
  \/ worker[w] = "receive" /\ w \in cancelled
  \/ worker[w] = "inside"
  \/ worker[w] = "lock" /\ (BuffersThere => mutex = 0)

(* The worker that is joined has ended, can go on, or waits for the mutex of *)
(* one that can.                                                             *)
JoinComesBack ==
  main = "join" /\ joined < NumWorkers /\ joined + 1 \in cancelled /\ ~Hung =>
    \/ worker[joined + 1] = "ended"
    \/ CanWork(joined + 1)
    \/ worker[joined + 1] = "lock" /\ mutex \in Workers /\ CanWork(mutex)

(* A worker's step leaves the others where they are. *)
LEMMA WorkKeepsPool ==
  ASSUME IInv, PoolInv, NEW w \in Workers, Work(w)
  PROVE  PoolInv'
<1> USE DEF pool, memory, PoolUp
<1>0. worker \in [Workers -> WorkerSteps] /\ mutex \in 0..NumWorkers /\ w # 0
  BY Constants DEF IInv, TypeOK, Workers
<1>1. ASSUME main' = "crashed", UNCHANGED <<worker, mutex, resume>>
      PROVE  PoolInv'
  BY <1>1 DEF PoolInv, AllCreated, LockHeldInside, Up, Destroying
<1>2. ASSUME NEW step \in WorkerSteps \ {"none"}, To(w, step), worker[w] \notin {"none", "ended"},
             \/ mutex' = mutex /\ worker[w] # "inside"
             \/ mutex' = mutex /\ step = "ended"
             \/ mutex' = w /\ step = "inside"
             \/ mutex' = 0
      PROVE  PoolInv'
  <2>1. /\ worker' = [worker EXCEPT ![w] = step] /\ UNCHANGED <<main, resume>>
        /\ \A v \in Workers : v # w => worker'[v] = worker[v]
        /\ worker'[w] = step
    BY <1>0, <1>2 DEF To
  <2>2. AllCreated'
    BY <1>2, <2>1 DEF PoolInv, AllCreated
  <2>3. mutex = w => worker[w] \in {"inside", "ended"}
    BY <1>0 DEF PoolInv, LockHeldInside
  <2>4. LockHeldInside'
    BY <1>0, <1>2, <2>1, <2>3 DEF PoolInv, LockHeldInside, Workers
  <2> QED BY <2>2, <2>4 DEF PoolInv
<1>3. CASE Receive(w)
  BY <1>1, <1>2, <1>3 DEF Receive, WorkerSteps
<1>4. CASE Lock(w)
  BY <1>1, <1>2, <1>4 DEF Lock, Crash, WorkerSteps
<1>5. CASE Unlock(w)
  BY <1>1, <1>2, <1>5 DEF Unlock, Crash, WorkerSteps
<1>6. CASE Cancelled(w)
  BY <1>2, <1>6 DEF Cancelled, WorkerSteps
<1> QED BY <1>3, <1>4, <1>5, <1>6 DEF Work

LEMMA MainKeepsPool ==
  ASSUME IInv, PoolInv, Main
  PROVE  PoolInv'
<1> USE DEF pool
<1>1. CASE CreateWorker
  <2>1. PICK n \in 0..(NumWorkers - 1) :
           /\ n + 1 \in Workers
           /\ \A w \in Workers : worker[w] = "none" <=> w > n
           /\ \/ /\ worker' = [worker EXCEPT ![n + 1] = "receive"]
                 /\ main' = IF n + 1 = NumWorkers THEN "mqtt" ELSE "threads"
                 /\ held' = held /\ blocks' = blocks
              \/ main' = "failed" /\ ReleaseDevice /\ UNCHANGED worker
    BY <1>1, NextWorker
  <2>2. /\ main = "threads" /\ resume = "none" /\ UNCHANGED <<resume, mutex>>
        /\ worker \in [Workers -> WorkerSteps] /\ mutex \in 0..NumWorkers
    BY <1>1, Resumes DEF CreateWorker, BringUp, IInv, TypeOK
  <2>3. \A w \in Workers : worker'[w] = worker[w] \/ (worker'[w] = "receive" /\ worker[w] = "none")
    BY <2>1, <2>2
  <2>4. LockHeldInside'
    <3>1. mutex # 0 => mutex \in Workers
      BY <2>2 DEF Workers
    <3> QED BY <2>2, <2>3, <3>1 DEF PoolInv, LockHeldInside
  <2>5. AllCreated'
    <3>1. CASE main' = "mqtt"
      <4>1. n + 1 = NumWorkers /\ worker' = [worker EXCEPT ![n + 1] = "receive"]
        BY <2>1, <3>1
      <4>2. \A w \in Workers : w > n => w = n + 1
        BY <4>1, Constants DEF Workers
      <4> QED BY <2>1, <2>2, <4>1, <4>2 DEF AllCreated
    <3>2. CASE main' # "mqtt"
      BY <2>1, <2>2, <3>2 DEF AllCreated, PoolUp, Up, Destroying
    <3> QED BY <3>1, <3>2
  <2> QED BY <2>4, <2>5 DEF PoolInv
<1>2. CASE Main /\ ~CreateWorker
  <2>1. UNCHANGED <<worker, mutex>>
    BY <1>2 DEF Main, Alloc, Open, Buffers, PoolAlloc, Mqtt, Release, Start, CreateReader,
       Register, LoopEnds, MqClose, JoinWorker, CloseFd, FreeBuffers, CancelReader, JoinReader,
       MqttClose, Crash
  <2>2. PoolUp' => PoolUp
    <3>1. CASE Alloc \/ Open \/ Buffers \/ PoolAlloc \/ Release
      BY <3>1, Resumes DEF Alloc, Open, Buffers, PoolAlloc, Release, Goto, PoolUp, Up, Destroying
    <3>2. CASE Mqtt \/ Start \/ CreateReader \/ Register \/ LoopEnds
      BY <3>2 DEF Mqtt, Start, CreateReader, Register, LoopEnds, Goto, PoolUp, Up, Destroying
    <3>3. CASE MqClose \/ JoinWorker
      BY <3>3 DEF MqClose, JoinWorker, Goto, PoolUp, Up, Destroying
    <3>4. CASE CloseFd \/ FreeBuffers \/ CancelReader
      BY <3>4 DEF CloseFd, FreeBuffers, CancelReader, Crash, Goto, PoolUp, Up, Destroying
    <3>5. CASE JoinReader \/ MqttClose
      BY <3>5, Resumes DEF JoinReader, MqttClose, Goto, PoolUp, Up, Destroying
    <3> QED BY <1>2, <3>1, <3>2, <3>3, <3>4, <3>5 DEF Main
  <2> QED BY <2>1, <2>2 DEF PoolInv, AllCreated, LockHeldInside
<1> QED BY <1>1, <1>2

LEMMA ProcessKeepsPool ==
  ASSUME IInv, PoolInv,
         Signal \/ Use \/ Dies \/ ProcessEnds \/ ProcessStarts \/ \E u \in DOMAIN user : Arrives(u)
  PROVE  PoolInv'
<1> USE DEF pool, PoolUp, Up, Destroying
<1>1. CASE ProcessEnds
  BY <1>1 DEF ProcessEnds, PoolInv, AllCreated, LockHeldInside
<1>2. CASE ProcessStarts \/ Dies
  BY <1>2 DEF ProcessStarts, Dies, Goto, PoolInv, AllCreated, LockHeldInside
<1>3. CASE Signal
  BY <1>3 DEF Signal, PoolInv, AllCreated, LockHeldInside
<1>4. CASE Use
  BY <1>4 DEF Use, ReaderCancelled, Put, Crash, PoolInv, AllCreated, LockHeldInside
<1>5. CASE \E u \in DOMAIN user : Arrives(u)
  BY <1>5 DEF Arrives, PoolInv, AllCreated, LockHeldInside
<1> QED BY <1>1, <1>2, <1>3, <1>4, <1>5

(* app_pool_destroy, in a bring-up that fails as in the handler of a signal, *)
(* comes back unless it hangs as Hung says: the worker it joins, which has   *)
(* been cancelled, has ended, can take a step, or waits for the mutex of a   *)
(* worker that can, whatever tasks and whichever processes there were before *)
(* (app_pool.c:18-30, 67-79).  ComesUp rests on it.                          *)
THEOREM DestroyComesBack == Spec => []JoinComesBack
<1>1. Init => PoolInv
  BY DEF Init, PoolInv, AllCreated, PoolUp, LockHeldInside, Up, Destroying
<1>2. IInv /\ PoolInv /\ [Next]_vars => PoolInv'
  <2> SUFFICES ASSUME IInv, PoolInv, [Next]_vars PROVE PoolInv'
    OBVIOUS
  <2>1. CASE UNCHANGED vars
    BY <2>1 DEF vars, pool, PoolInv, AllCreated, PoolUp, LockHeldInside
  <2> QED BY <2>1, WorkKeepsPool, MainKeepsPool, ProcessKeepsPool DEF Next
<1>3. IInv /\ PoolInv => JoinComesBack
  <2> SUFFICES ASSUME IInv, PoolInv, main = "join", joined < NumWorkers,
                      joined + 1 \in cancelled, ~Hung,
                      worker[joined + 1] # "ended", ~CanWork(joined + 1)
               PROVE  worker[joined + 1] = "lock" /\ mutex \in Workers /\ CanWork(mutex)
    BY DEF JoinComesBack
  <2>1. joined + 1 \in Workers /\ worker \in [Workers -> WorkerSteps] /\ mutex \in 0..NumWorkers
    BY Constants DEF IInv, TypeOK, Workers
  <2>2. worker[joined + 1] \notin {"none", "stuck"}
    BY <2>1 DEF PoolInv, AllCreated, PoolUp, Destroying, Hung
  <2>3. worker[joined + 1] = "lock" /\ mutex # 0
    BY <2>1, <2>2 DEF CanWork, WorkerSteps
  <2>4. worker[mutex] = "inside"
    BY <2>3 DEF PoolInv, LockHeldInside, Hung
  <2> QED BY <2>1, <2>3, <2>4 DEF CanWork, Workers
<1> QED BY <1>1, <1>2, <1>3, Invariance, PTL DEF Spec

==============================================================================
