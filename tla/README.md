# Verification of the gateway

TLA+ models of the gateway in `src/`, checked with TLC on small instances and,
where a result matters for every size, proved with TLAPS. The modules follow the
code: an action is a step other threads or processes can observe, its guard is
the code's condition, and `PROJECT.json` maps every definition to the lines it
stands for.

* [1. The system](#1-the-system)
* [2. The modules and the code](#2-the-modules-and-the-code)
* [3. The runs](#3-the-runs)
* [4. Fairness](#4-fairness)
* [5. What is proved](#5-what-is-proved)
* [6. Where code and documentation disagree](#6-where-code-and-documentation-disagree)
* [7. What is not modelled](#7-what-is-not-modelled)
* [8. Plan](#8-plan)

## 1. The system

The gateway is one executable that plays three roles, chosen by its argument
(`main.c`). `daemon` forks and supervises the other two, `app` and `ota`.

```
  bluetooth   serial   +------------------- app -------------------+   MQTT
   module   <========> | read thread -> up_buffer   -+             | <=====> broker
                       |                              > queue,     |
                       | callback    -> down_buffer  -+ 6 workers  |
                       +-------------------------------------------+
                            ^ fork, waitpid, SIGKILL
                       +-- daemon --+   fork ...   +------ ota ------+   HTTP
                       |   patrol   | -----------> | version check   | <=====> server
                       +------------+              +-----------------+
                            | reboot()                    | reboot()
```

| component | state it keeps | operations | interacts with | hard about it |
|---|---|---|---|---|
| **app_buffer** (`app/app_buffer.c`) | two sub-buffers with `used_size`, `read_index`, `write_index`, two mutexes | `init`, `write`, `read`, `free` | called by the read thread, the MQTT callback and every worker | two locks, of which the reader's look at `used_size` holds only one; roles of the sub-buffers are exchanged while writers run |
| **app_pool** (`app/app_pool.c`) | a POSIX message queue of at most 10 tasks, 6 threads | `init`, `add_task`, `destroy` | runs the task functions of app_device | a bounded queue shared by both directions; the queue outlives the process |
| **app_device** (`app/app_device.c`) | `up_buffer`, `down_buffer`, the read thread, the current connection | `init`, `start`, `destroy`, the read thread, the MQTT callback, two task functions | all of the app parts | a task carries no message: it takes whatever is oldest when it runs; results that nobody looks at |
| **app_bt framing** (`app/app_bt.c`, `app_bt_postRead`) | the static `read_buffer`, `read_len` | one call per `read()` | hooks of app_device | frames arrive in pieces cut anywhere, after noise |
| **app_bt bring-up** and **app_serial** | baud rate, parity, raw and blocking mode of the port; speed and addresses of the module, which outlive the program | `app_bt_init`, `init_bt`, AT commands | the bluetooth module | a dialogue with a partner that may be silent, late or at another speed, started again from wherever a killed run left it |
| **app_mqtt** (`app/app_mqtt.c`) | client, connection, registered callback | `init`, `send`, `register_recv_callback`, `close`, `msgarrvd`, `connlost` | broker; app_device's callback | callbacks of library threads race each other, `init` and `close` |
| **app_message**, **app_common**, `app_bt_preWrite` | none | bytes, hex and JSON into each other | app_device | lengths, signedness, malformed input |
| **cJSON** (`thirdparty/cJSON`) | none | parse, look up, print | app_message, ota | lengths that are counted in one loop and written in another |
| **app_runner** (`app/app_runner.c`) | the device | start, signal handler | app_device, app_pool, app_mqtt | every step of the bring-up may fail; tear-down in a signal handler; a queue that outlives the process |
| **daemon** (`daemon/*.c`) | `is_running`, `SubProcess.pid`, `fail_count` for each child | `run`, `checkStart`, `exit` | kernel process table, signals, `reboot` | pids outlive processes; failures of every kind at every step |
| **ota** (`ota/*.c`) | the announcement, the downloaded file | daily check | HTTP server; `reboot` | announcement and firmware are separate requests; every one may fail |

What makes each part correct, in a sentence:

* **app_buffer**: to its callers it is a first-in first-out queue whose calls
  take effect at one instant, whatever the interleaving; nobody touches a
  sub-buffer another thread is using; the count of bytes is exact and bounded;
  threads do not block each other for good.
* **app_device over app_pool**: a message that was stored has a task that will
  fetch it; each message is in exactly one place, delivered at most once; order is
  lost only in the workers' hands; neither direction starves the other.
* **app_bt framing**: what comes out does not depend on where the pieces end.
* **daemon**: never two processes of one kind (there is one serial port); never a
  `waitpid` or `kill` on a stranger's pid; every failure counted; nobody left
  behind; dead children come back.
* **ota**: the board reboots only into the complete, newer firmware that was
  decided on; a new release gets installed sooner or later.
* **app_mqtt**: a connection without its subscription is somebody's work in
  progress; a lost connection comes back; after the close there is none.
* **app_runner**, with the `init` and `destroy` of the others: a bring-up that fails has released
  what it took; nobody uses what was released; a process does not run the tasks of the one before it.
* **app_bt bring-up**: from whatever an earlier run left, port and module end at
  the same speed, and no read waits for ever.
* **app_message**, **app_common**, **cJSON**: what goes in at one end comes out at the
  other, and nothing is written behind the memory that was counted.

The list of hazards, each at its line, is in `PROJECT.json`; every hazard names
the properties that guard against it, or says why there is none.

## 2. The modules and the code

| module | models | composed from / by |
|---|---|---|
| `AppBuffer` | `app_buffer_write`, `app_buffer_read`, one action per lock, test, copy and exchange | implements `FifoQueue` and `AtomicBuffer` |
| `FifoQueue` | what the buffer promises: a linearizable queue | abstract specification |
| `AtomicBuffer` | what its callers rely on: each call one step of `DoubleBuffer` | abstract specification, over `DoubleBuffer` |
| `AppBuffer_proofs` | theorems about `AppBuffer` | |
| `DoubleBuffer` | the same calls as single steps, for callers | used by `AppDevice`, `AtomicBuffer` |
| `AppDevice` | read thread, MQTT callback, task queue, workers | `DoubleBuffer`, twice |
| `AppDevice_proofs` | theorems about `AppDevice` | |
| `BtFraming` | `app_bt_postRead` | |
| `BtFraming_proofs` | theorems about `BtFraming`, and about the bytes of a message | `MessageBytes` |
| `Daemon` | the daemon over the kernel's process table | |
| `Daemon_proofs` | theorems about `Daemon` | |
| `OtaUpdate` | the check of the ota process | |
| `OtaDaemon` | daemon and ota together | `Daemon`, `OtaUpdate` |
| `OtaDaemon_proofs` | theorems about `OtaDaemon` | `Daemon_proofs` |
| `AppMqtt` | `app_mqtt.c` over the Paho library | |
| `AppMqtt_proofs` | theorems about `AppMqtt` | |
| `AppLifecycle` | `app_runner.c`, and `init`, `start`, `destroy` of device, pool and buffer | |
| `AppLifecycle_proofs` | theorems about `AppLifecycle` | |
| `BtBringUp` | `init_bt` over `app_serial.c` and the bluetooth module | |
| `BtBringUp_proofs` | theorems about `BtBringUp` | |
| `HexDigits` | `app_common.c`: bytes and hexadecimal digits | used by `CJson`, `MessageBytes` |
| `MessageBytes` | the fields of a message (`app_message.c`), `app_bt_preWrite` | used by `MessageCodec` |
| `CJson` | parser, lookup and printer of `cJSON.c` | used by `MessageCodec` |
| `JsonText` | the grammar of JSON | the reference for `CJson` |
| `MessageCodec` | `app_message.c`: bytes to JSON and back | `CJson`, `MessageBytes` |
| `MC*` | instances for TLC | |

**AppBuffer.** `pc[t]` is where thread `t` is between two steps another thread
could observe; `sub[t]` is the C local `write_buffer` or `read_buffer`, the
sub-buffer the thread chose and keeps using after the indices may have changed.
The bytes of a sub-buffer are the sequence `msgs[i]` of the messages they
encode, while `used[i]` is computed exactly as the code computes `used_size`
(the length byte first, then the data), so that `UsedIsExact` has something to
say. `-1` has several reasons in the code; `ret` keeps them apart. The
instants at which calls take effect, for the refinement: a write at its `memcpy`
or when it finds no room, a read when it moves the rest left, when it finds both
sub-buffers empty, or when it finds its array small. For `ImplementsCalls` a read takes effect
earlier, when it has found its sub-buffer: `Whole` is the buffer without the message it is about to take.

**AppDevice.** Messages are numbers in order of arrival. A frame goes
`FrameArrives`, `PutFrame`, `SubmitSend`, and in a worker `Receive`, `SendRead`,
`Publish`; a command takes the mirror path. Two asymmetries of the code are kept:
the read thread ignores the result of `app_buffer_write` and submits a task even for a
frame that was dropped, the callback does not (`PutFrame`, `PutCommand`). A read of the
buffer that fails still exchanges the sub-buffers (`DoubleBuffer!Turned`), which are records
of the messages and of `used_size`, counted as the code counts it. What
happens between two accesses to shared state (conversion to JSON, publishing)
is one step that either delivers or loses the message. `mq_fd` is chosen at the start: `app_pool_init` only logs that
`mq_open` failed (`app_pool.c:46-50`), and the read thread and the callback do not look at what `app_pool_add_task` returns, so
that in such a process `AddTask` goes on without a task and `mq` stays empty.

**BtFraming.** `wire` is every byte the module has sent, frames with noise in front
of each (`Send`), `taken` how many of them were read; `Read(n)` is one turn of the read loop. `starts`
is auxiliary: the place of each header on the wire, which the properties refer to. Bytes are numbers,
because the framing is about their values.

**Daemon.** `pc` is the step of the patrol or of the exit loop with the loop
index, `AtStep(step, s)` that it is working on sub-process `s`. The kernel keeps
`owner[p]` and `state[p]` for each pid: a dead child stays a zombie until it is
waited for, a pid that is free is given to anyone who forks, foreign processes
included. `waitpid` and `kill` are modelled on that table, so a stale pid would
hit a stranger. `sleep(3)` is the time `Loop` takes. `subProcess[0]` is `NULL` in
test mode (`Supervised`). `execve` failing is one way for a child to fail.

**OtaUpdate.** A release is its index in the list of version triples; the
hand-written comparison of the three numbers is `UpToDate`. The announcement
(`server.announced`) and the firmware (`server.offered`) change independently,
between any two steps. Identical hashes are identical releases.

**OtaDaemon.** A fork of `ota` is `Begin`; `FetchFails` and `VerifyCrashes` are null pointers that are
followed (`ota_version.c:99`, and `135` when `get_file_sha` returns `NULL`): a child ended by a signal, so the daemon counts it; either party's reboot
ends both.

**AppMqtt.** `pc["main"]` goes through `app_mqtt_init`, `app_mqtt_register_callback`
and `app_mqtt_close`; each `pc[h]` is a thread in `connlost`, of which the library starts one
for every loss. `app_mqtt_connect_and_subscribe` is shared, as in the code. The library is
external: the session is clean (`MQTTCLIENT_PERSISTENCE_NONE`), so `SessionEnds` drops the
subscription, the inbox and the frames that were not acknowledged. A message for
which `msgarrvd` returns 0 stays at the head of the inbox, marked `freed`, and what
comes of it then is open.

**AppLifecycle.** `main` is the step of the main thread, which the signal handler
borrows (`resume` is where it returns). `held` and `blocks` are what is acquired and not
released; a failing step takes the branch of its own `goto` or list of
`free`s. Workers run from the moment they are created, on a queue that may hold the tasks of a
dead process (`"stale"`: pointers into another address space). Cancelling takes
effect at a cancellation point: in `mq_receive`, and in a buffer call that logs.

**BtBringUp.** One action per function of `app_serial.c` and `app_bt.c` that
`init_bt` calls, in its order. Port and module keep their state over restarts
(`Dies`, `Starts`); a setting of the module counts from its next reset. `input`
holds the answers nobody read; a read takes what has arrived, which may belong to an earlier
command. What a read returns, and what `memcmp` makes of it or of a stack nobody wrote, are
the outcomes of `IsAck`.

**HexDigits, MessageBytes, CJson and MessageCodec.** Pure operators over sequences of bytes, named after the C functions.
A parse function takes the buffer and a position and returns the position
behind the value, and the item. A print function returns pieces: for each call of
`ensure`, the bytes asked for, the text and how many bytes are written, so that an overrun is a
difference of two numbers. The sign of `char` is a parameter, because the compilers of the host and the
board may differ. `Unknown` is a byte nobody wrote. The parser is recursive and stays with TLC; digits, fields and
frame are not, and stand in `HexDigits` and `MessageBytes`, so that there are theorems about them.

## 3. The runs

Every property of a passing run has a mutant in `PROJECT.json`: a plausible slip in the code
that the run then reports.

| run | states | what it shows |
|---|---|---|
| `buffer` | 148,000 | `ExclusiveAccess`: no data race. `ImplementsFifo`: it is the queue of `FifoQueue`. `ImplementsCalls`: each call is a step of `DoubleBuffer`. `WedgeIsPermanent`: once the backlog exceeds the readers' array, the buffer is never read again. `SomeCallReturns`: no deadlock between the two locks. `IInv` is the inductive invariant of the proofs, exact accounting included. |
| `buffer_small` | - | violated: `SmallMeansMessageTooLong`, see section 6. |
| `device` | 183,000 | `EachInOnePlace`: nothing silently lost or duplicated. `TakenInOrder`: order is kept up to the workers' hands. In a process that has its queue, `NoOrphans`: no stored message without a task, and `BuffersDrain`: stored messages leave their buffer unless it wedges. |
| `bt_framing` | 6,700 | `NothingLost`: cutting the stream elsewhere changes nothing; only noise is dropped. `KeepsUp`, `AllStored`: reads of up to eight bytes never leave a complete frame waiting: every frame read to its last byte has been returned. |
| `daemon` | 146,000 | `PidIsChild`, `NoStrayChild`, `NoStartAfterReboot`, `NoChildLeft`; `CountsEveryFailure`: in no step does a count change but by one, for a failure that a patrol collects; `Restarted` (README.md:113 of the repository) and `SigtermEnds`. |
| `ota_daemon` | 362,000 | `OneOta`; `RebootsIntoNewer`, against a server that changes at every step; `NewReleaseInstalled`. |
| `ota_daily` | - | violated: `ChecksOnceADay`, see section 6. |
| `mqtt` | 335,000 | `SubscribedOrWorkedOn`, `SomebodyReconnects`, `NoConnectionAfterClose`, `AcceptedInOrder`, with two threads in `connlost`; `Reconnects` and `HandlersEnd`. |
| `lifecycle` | 51,000 | `FailedHoldsNothing`, `WorkersInBuffers`, `LeavesNoTasks` over several processes; `ComesUp`: tasks left by a dead process do no lasting harm, unless `app_pool_destroy` hangs (`Hung`). |
| `signal_running` | - | violated: `RunningSignalReleases`, see section 6. |
| `bt_bringup` | 83,000 | `ReadyAt115200`: a start whose answers come in time ends with both sides at 115200 whatever went before. `BringUpEnds`: none waits for ever. |
| `codec` | 569,000 | `ParsesGrammar`, `PrintParses`, `NoOverrun` for cJSON; `MessageRoundTrip` and `CommandIsFramed` for the way of a message. |

The bounds, and why the interesting cases happen within them:

* **Buffer.** One writer, as in the program, where the read thread writes `up_buffer` and the
  callback `down_buffer`, and two readers, which contend with each other and with
  the writer for both locks; a reader
  exchanges sub-buffers while the writer is between its check and its copy. Lengths
  1, 2 and 4 with a largest length of 3: two messages that fit, of different
  lengths, and one that does not. `TotalSize` 6 is reached exactly (2+2+2, 3+3) and
  missed by one; `BufferSize` 5 lies between one message and a full sub-buffer,
  as 125 does below 1024. Threads call for ever; nothing else is bounded. The
  proofs cover every other size, and any number of writers and readers.
* **Device.** Three workers can hold two messages while a third reads; a queue of two
  fills; four frames against `TotalSize` 6 overflow a sub-buffer, against `BufferSize` 5 wedge
  one, while two commands go the other way.
* **Framing.** Three frames, sent while the program reads: one complete, one following in the same read, one more
  behind it. Messages contain the header bytes; noise is empty, a lone first
  header byte, or the remains of a frame longer than the seven bytes that are
  kept. The reads of a behaviour are of 1 to 30 bytes, more than a frame, or of at most 8 (`pace`).
* **Daemon.** `fail_count` is compared with `MAX_FAIL_COUNT` and nothing else, so it
  is kept up to the first value above it. The limit 1, here and in the next run, stands for 6: the
  count passes through below, at and above it. Four pids for two children: two are left to be taken
  by strangers (`MaxForeign` 2) while both run, and every pid is reused.
* **Ota.** Four releases around the running one, which differ from it in each of the three
  numbers, one of them older.
* **Mqtt.** Two threads in `connlost` at once, from two losses, are the fewest that can disconnect each
  other. Two commands have an order; one frame can be sent, lost or acknowledged.
  `RECONNECT_MAX_DELAY_SECONDS` is the code's.
* **Life cycle.** Three workers: one holds the mutex, one waits for it, one receives. Three tasks against a
  queue of two fill it. Three signals or deaths: two processes may die
  and leave tasks before a third comes up and is signalled.
* **Bring-up.** Every state of the port and of the module as the start; one failing `tcsetattr`, two
  deaths at any step. The second start begins where the first left off, and the third where
  that one did.
* **Codec.** Texts of up to five of thirteen pieces (brackets, comma, quotes, digits, sign, a member's
  name, `null`, the byte order mark), the inside of strings of up to five of ten (backslashes,
  quotes, `\u`, halves of surrogate pairs, a control character), messages of up to
  six bytes, commands of up to four members with the fields repeated, missing and of wrong type.
  `NestingLimit` 2, `default_buffer_size` 4 and `DataSize` 17 stand for 1000, 256 and 125, so that each
  is reached and passed: commands of 12 and of 13 bytes lie on either side.

Deadlock is checked unless the program really stops: in `lifecycle` the application may
hang or crash with nobody to start it again within the bounds, in `bt_bringup` a
read may wait for ever after `tcsetattr` failed, in `codec` the input is complete. Elsewhere the
daemon and the ota process stop on purpose, and a line may fall silent; the disjuncts
`Terminated`, `board # "up"` and `Silent` say where. In `device` the connection can always
change, so that there it is `BuffersDrain`, not the deadlock check, that shows the threads do
not block each other.

## 4. Fairness

* `AppBuffer!FairSpec`: weak fairness for each thread inside a call, which is what the
  scheduler gives. Mutexes are not fair, hence `SomeCallReturns` promises
  that some call returns, not each: a thread may lose every race.
* `AppDevice!FairSpec`: weak fairness for the read thread and the callback once
  they hold a message, and for each worker. Messages need not arrive and the
  connection need not come back.
* `BtFraming!FairSpec`: bytes on the line are read; the module need not send.
* `Daemon!FairSpec`: the daemon runs, SIGKILL takes effect. `Restarted` assumes
  in addition that `fork` does not fail every time it is tried (strong
  fairness): the code retries for ever and nothing else helps.
* `OtaDaemon!FairSpec`: both processes run; a fork, a fetch and a download do
  not fail every time they are tried. `NewReleaseInstalled` says that what fails
  in between, in any order, does no lasting harm.
* `AppMqtt!FairSpec`: every thread runs; connecting and subscribing do not fail every time they
  are tried, which is what a retry loop without end counts on. An application that crashed, or closes, is
  excused.
* `AppLifecycle!FairSpec`: every thread runs, the daemon starts the application
  again, and no step of the bring-up fails every time it is tried.
* `BtBringUp!FairSpec`: the program runs and is started again, and the module comes back from its reset.
  Its answers need not come.

## 5. What is proved

Theorems hold for every value of the constants that satisfies the module's
`ASSUME`. The assumptions are typing ones: sizes are naturals, the control words the
modules use are not messages or sub-processes, there is at least one sub-process.

**AppBuffer_proofs** (assumption `BufferAssumption`; any number of threads, any
messages, any sizes).

* `TypeCorrect`, `AccountingCorrect` (`UsedIsExact`), `MutualExclusion`
  (`ExclusiveAccess`), `WedgeTheorem` (`WedgeIsPermanent`) and `Refinement`
  (`ImplementsFifo`), all from `Invariance` (`IInv`).
* The properties are not inductive: that `used_size` is exact after a copy needs that
  the sub-buffer in the thread's local is still the one under its lock. `IInv`
  therefore adds: the two indices are opposite; a mutex is held by exactly the one thread
  between its lock and unlock (`LocksHeld`); and a thread's locals agree with
  the shared fields they were read from until it releases its lock
  (`WriterLocals`, `ReaderLocals`).
* The layout of messages in bytes is stated by offsets (`IsLayout`) and not by a
  sum over the sequence, which keeps it within first-order reasoning: appending
  extends the offsets by one, taking the first shifts them.
* `Refinement` maps each step to the step of `FifoQueue` of that instant, or to a stutter.
* `CallsAreSteps` (`ImplementsCalls`): each call is a single step of `DoubleBuffer`, which is what `AppDevice` takes it for,
  with its failures and the bytes left in use. A read takes effect when it has found its sub-buffer: from then on it
  holds `read_mutex`, and a write cannot touch what it is about to take; the mapping therefore shows the sub-buffer
  without the message while the copy and the move are still to come. A write takes effect at its `memcpy` or its refusal.
* `NoLockCycle`: whoever waits for a mutex waits for a thread that can go on, or for a reader that waits for such a one.
  It is what `SomeCallReturns` rests on, and what an exchange of the locks' order would break.

**Daemon_proofs** (assumption `DaemonAssumption`; any list of sub-processes, any pids, any
failure limit).

* `TypeCorrect`, `OwnChildrenOnly` (`PidIsChild`), `NoStrays` (`NoStrayChild`),
  `RebootInstead` (`NoStartAfterReboot`), `CleanExit` (`NoChildLeft`),
  `FailuresCounted` (`CountsEveryFailure`), from `Invariance` (`IInv`).
* `NoChildLeft` needs to know that the exit loop has dealt with everyone it passed and that
  no child exists whose pid is not held: `LoopProgress` and `NoStrayChild`.
* `FailuresCounted` speaks of every step, not of those of the patrol only: that a collected process was the child whose count
  rises is `PidIsChild`, and that nobody else's count does needs that a patrol collects no other (`CollectsOwn`).
* Two theorems hold what `SigtermEnds` needs besides fairness: `SigtermCountsDown`, that each step after SIGTERM takes the
  daemon nearer to its end by a number (`StepsLeft`) which nothing else changes, and `WaitsForTheKilled`, that the one step
  which may not be possible waits for a child that was killed or has ended.
* `PatrolRestarts`: a patrol is done with a sub-process only when it runs or fork has failed, whatever ended it and whoever was
  given its pid meanwhile. `Restarted` adds that the daemon comes round and that fork succeeds in the end. It needs that
  nobody is killed before the exit loop (`Unkilled`): a child that is dying would be taken for a running one.
* `NoStartAfterReboot` needs `WithinFailures`: only the sub-process the daemon is about
  to reboot over exceeds the limit.

**AppDevice_proofs** (assumption `DeviceAssumption`: a message has the 1 to 255 bytes its length byte can
say, the queue holds at least one task, the workers are finitely many; any number of workers, any
queue, any frames and commands, any sizes).

* `TypeCorrect`, `NoneStranded` (`NoOrphans`), `OnePlace` (`EachInOnePlace`), `OldestFirst`
  (`TakenInOrder`), from `Invariance` (`IInv`).
* Each direction has three parts. `UpInOrder`: what a buffer holds is in order, younger than all that left it and
  older than what the read thread is about to store; only with the last two do an exchange of the sub-buffers
  and a late write keep `TakenInOrder`. `UpOnce`: `EachInOnePlace` counts the places of the messages that
  arrived, and a step that adds one needs to know that the others are nowhere. `UpServed`: as many tasks as
  messages, counting the one whose task the read thread has still to submit; `NoOrphans` alone does not survive
  the worker that takes the last task.
* Most lemmas are about counting: `Occurrences` of a message in a sequence that grows at one end and shrinks at the
  other, and `InHand`, of workers of whom one moves.
* Two theorems hold what `BuffersDrain` needs besides fairness. `TasksDrain`: a task that is carried out takes the oldest
  message, unless there is none or the buffer is wedged, which with `NoneStranded` is a task for every message.
  `WorkedOff`: in a process that has its queue there is work left while a message waits in a buffer that can be read; while there is, somebody has a step to
  take that waits for nobody, although a full queue holds up those who submit; and every step but an arrival lowers the work
  left by a number (`WorkLeft`: the steps each task and each message in hand can still cause).
* `NoOrphans`, `BuffersDrain` and the first part of `WorkedOff` are conditional on the queue, because the code is:
  `WithoutQueue` proves that a process for which `mq_open` failed never publishes a frame nor writes a command. Each waits in
  its buffer, was lost for want of room there, or is about to be stored.

**OtaDaemon_proofs** (assumptions `OtaAssumption`: the releases are listed from the oldest to the newest, as an index
stands for a release; `SupervisionAssumption`: the typing of `Daemon`'s constants; any releases, pids, failure limit).

* `UpdatesToNewer` (`RebootsIntoNewer`), `RunsOnce` (`OneOta`), `SupervisionHolds`, `RebootInstead`
  (`Daemon`'s `NoStartAfterReboot`) and `FailuresOfOtaCounted`, from `Invariance` (`IInv`).
* The module uses `Daemon_proofs` through `INSTANCE`: each step of the composition is a step of `Daemon`
  with `app` and `ota` as its children, leaves the daemon alone, or is the reboot ota makes, for which
  the invariant is shown again. So what is proved of the daemon alone holds of the daemon that runs ota. `CountsEveryFailure`
  does not hold of it word for word, since the reboot ota makes takes its process away uncounted, and a patrol may be under way
  then: `FailuresOfOtaCounted` says of every step of the composition what it does to the count.
* `Decided` says what ota relies on between its steps, whatever the server publishes meanwhile; `Alike` that ota is at
  a step of its own just when a child of that name runs.
* `OffersFollowed`: while a newer release stays on the server, a check that has found it at each place it has looked keeps
  to it; every step takes it nearer to the reboot (`StepsLeft`), and `CutShort` lists the ways it ends otherwise. The
  next check begins at the fetch, whatever the last one left. `NewReleaseInstalled` adds that the steps are taken and do not
  fail for ever.

**AppMqtt_proofs** (assumption `MqttAssumption`; any number of threads in `connlost`, of commands and of frames).

* `TypeCorrect`, `SubscriptionFollows` (`SubscribedOrWorkedOn`), `ReconnectGoesOn` (`SomebodyReconnects`),
  `ClosedStaysClosed` (`NoConnectionAfterClose`), `TakenOnceInOrder` (`AcceptedInOrder`), from `Invariance` (`IInv`).
* The first two are inductive with the types; that no connection follows the close needs that a closed client is
  destroyed (`ClosedIsGone`), and the order of what was taken needs that of what waits (`InboxInOrder`).
* `ClosingWindsDown`: once `mqtt_closing` is set, each step of a thread in `connlost` takes it nearer to its return
  (`StepsLeft`), and one starts only for a connection that is lost, of which there is a number left that never grows
  (`ConnectionsLeft`), although threads that looked at the flag earlier may each connect once more. `HandlersEnd` adds
  that they take their steps.

**AppLifecycle_proofs** (assumption `LifecycleAssumption`; any number of workers, tasks, signals and deaths).

* `TypeCorrect`, `FailureReleases` (`FailedHoldsNothing`), `WorkersFindBuffers` (`WorkersInBuffers`), and the action
  property `NoTasksLeft` (`LeavesNoTasks`), from `Invariance` (`IInv`).
* `Holdings` is the table of what the main thread holds at each step, from which a failing step frees the right things;
  `Interrupted` says where a signal can have come in, `QueueClosed` and `JoinedEnded` that from `mq_close` on the queue
  stays empty and that a worker that was joined has ended; `BuffersOutlast` is `WorkersInBuffers` without the worker.
* `DestroyComesBack`: the worker that `app_pool_destroy` joins has ended, can take a step, or waits for the mutex of one that
  can, unless it hangs as `Hung` says; what `ComesUp` needs of the shutdown besides fairness. It needs that all workers were
  created before the pool is up (`AllCreated`) and that the mutex belongs to a worker in the buffer or ended there
  (`LockHeldInside`).

**BtBringUp_proofs** (assumption `BringUpAssumption`: the bounds are naturals; any number of deaths and failures).

* `TypeCorrect`, `PromptStartSucceeds` (`ReadyAt115200`), from `Invariance` (`IInv`), and `NoReadWaits`: while `tcsetattr`
  succeeds the port that is read for an answer returns without one, which `BringUpEnds` rests on.
* For a start that was prompt so far the invariant tabulates, step by step, the settings of the port (`PortAt`), the answers
  left to read (`InputAt`) and the speed the module has or will take from its next reset (`ModuleAt`). Of other starts it
  says only that the module resets between the command and the end of the pause (`AwakeOtherwise`).

**BtFraming_proofs** (assumption `FramingAssumption`: frames as the module builds them, with messages of 1 to 12 bytes, after
noise of any length without a header; reads of any size).

* `TypeCorrect`, `FramesSurvive` (`NothingLost`), `ShortReadsKeepUp` (`KeepsUp`), from `Invariance` (`IInv`).
* The buffer is a stretch of the wire that begins behind the last frame returned and not behind the next header
  (`BufferInv`). `FirstHead` shows that the search finds that header and no earlier one, `PostReads` that a call
  returns this frame or drops no byte of it; `NotBehind` is the first part of `KeepsUp`, that of the next frame a byte is
  still to be read, and the second, the length of the buffer, follows from it and `BufferInv`. The length alone would not do:
  once the noise is dropped, a complete frame fits into it.
* `SilenceMeansStored`, from the same: with reads of at most eight bytes every frame is stored when every byte was read.
* Bytes and digits (`HexDigits`, `MessageBytes`; any bytes of any length): `HexRoundTrip`, `DigitsRoundTrip`, `FieldsOfMessage`,
  `FrameOfCommand`. They are of the parts of `MessageRoundTrip` and `CommandIsFramed` outside of JSON. That `FrameOfCommand`
  holds of every length says nothing of the array it is copied to, see section 6.
* `FramesReachTheBroker` joins the two: each message the framing stores is the id and the text of its frame on the wire, as
  `app_message.c` takes it apart and as the digits in its JSON, and would be the frame back to its sender.

Only model-checked: every liveness property (`SomeCallReturns`, `BuffersDrain`,
`AllStored`, `Restarted`, `SigtermEnds`, `NewReleaseInstalled`, `Reconnects`, `HandlersEnd`, `ComesUp`, `BringUpEnds`), because the proof
system has neither fairness nor `ENABLED`. Of each, the part about single steps that it mainly rests on, an invariant or an
action property, is proved: `NoLockCycle`, `TasksDrain` and `WorkedOff`, `SilenceMeansStored`, `PatrolRestarts`, `SigtermCountsDown` and
`WaitsForTheKilled`, `OffersFollowed`, `ReconnectGoesOn`, `ClosingWindsDown`, `DestroyComesBack`, `NoReadWaits`, in the order of that
list. The step from these and fairness to the properties themselves is TLC's. Only model-checked is also the codec
(`ParsesGrammar`, `PrintParses`, `NoOverrun`, `MessageRoundTrip`, `CommandIsFramed`), whose JSON operators are recursive: that text is printed and read back is not proved, what happens to the bytes
before and after is. Every other property of a passing run is proved.
`UsedIsExact` and the type invariants need no
run of their own: they are parts of the `IInv` that is proved.

## 6. Where code and documentation disagree

* `buffer_small`. `app_buffer.c:179` describes the test of line 180 as "is the buffer
  the user supplied big enough", for the one message a call returns
  (140-144). The test compares with the bytes of all messages waiting. The
  counterexample: two short messages wait and a read with an array that holds either fails.
  As the read consumes nothing, the backlog stays (`WedgeIsPermanent`, proved).
* `ota_daily`. `ota_version.c:162` and `167` say that ota checks once a day. When the
  announcement cannot be fetched, line 99 reads through a null pointer, ota
  ends, and the daemon starts it again at its next patrol, three seconds later.
* `signal_running`. `app_runner.c:14` registers the handler "to release the resources
  before the end". `app_device_destroy` frees the buffers and the device before it stops the read thread, the
  workers and the callback; one of them uses freed memory, and the application crashes
  before the queue is removed and the connection closed.

Also met while modelling; the models contain the behaviour, and no run singles it out:

* `app_pool_init` reports success when `mq_open` failed (`app_pool.c:46-62`), and the results of `app_pool_add_task` are
  dropped (`app_device.c:120`, `245`): the application then runs and delivers nothing in either direction (`AppDevice`,
  `AddTask`; `WithoutQueue`).
* `app_pool_destroy` hangs when a worker was cancelled while it logged inside a buffer call and another waits for its mutex
  (`app_pool.c:72-76`; `AppLifecycle`, `Hung`, which `ComesUp` excuses).
* The results of `init_bt` and of every `tcsetattr` are dropped (`app_bt.c:64`): after one that failed a bring-up may end at
  another speed or wait for ever (`BtBringUp`; `BringUpEnds` excuses it).
* A file that cannot be hashed is a null pointer that `strcmp` follows (`ota_version.c:132-135`): ota dies as it does when the
  announcement cannot be fetched, and the firmware that was not verified stays (`OtaUpdate`, `VerifyCrashes`).
* A signal during the bring-up (`app_runner.c:9`) follows the null pointer `device`, or cancels a read thread
  that was never created, and leaves the queue behind (`AppLifecycle`, `Signal`).
* `msgarrvd` frees a message and returns 0 for one it could not handle
  (`app_mqtt.c:54-56`), which asks the library to deliver it again; the handler of
  `test/mqtt_test.c:26-28` frees and returns 1 (`AppMqtt`, `Refuse`).
* QoS 1 (README.md:155 of the repository) does not cover a frame that was sent when the
  connection is lost before the acknowledgement: the session is clean and keeps nothing (`AppMqtt`,
  `SessionEnds`).
* `app_common_chars2hex` turns each byte from 128 on into `ff` where `char` is signed
  (`app_common.c:30`), and writes six digits behind its array for the last one;
  `test/app_message_test.c` says of hexadecimal that only it can show all characters.
  `MessageRoundTrip` states what arrives.
* `app_bt_preWrite` does not check the 12 bytes its comment allows (`app_bt.c:71`); the frame of a message of
  114 to 120 bytes is longer than the array of the caller.
* `app_bt_status` counts an answer that sorts after `OK`, and an unwritten stack, as an
  acknowledgement (`app_bt.c:190`). `app_bt_setmaddr` and `app_bt_setNetId` come after the last reset,
  although a setting counts from the next one (`app_bt.h:33`).
* The result of `pthread_create` for the read thread is dropped (`app_device.c:259`): the
  application may run without its uplink (`AppLifecycle`, `CreateReader`).
* cJSON reads a `\u` that is not followed by four digits as a NUL, which cuts the string
  (`cJSON.c:642`).

## 7. What is not modelled

* **Ends of the world**: what the boot loader does with the downloaded
  file, and with a partial one if the daemon reboots; a daemon that ends by another signal
  than SIGTERM and leaves its children behind; two incarnations of the daemon.
* **read_buffer beyond 1024 bytes** (`app_bt.c:133`): `BtFraming` leaves the buffer
  unbounded and shows when it stays short (`KeepsUp`).
* **Noise that contains a header** (`app_bt.c:156`): the length byte is then that of no
  frame; the model says what the framing makes of what the module sends.
* **An announcement in two chunks** (`ota_http.c:13`) is a failed fetch.
* **cJSON** beyond what is called: fractions and exponents, editing, duplication,
  comparison, minification; allocations that fail. **log**, the MQTT and HTTP libraries:
  third-party code, used through the outcomes the callers distinguish. **Tests** and build files are
  read as statements of intent.
* What freed memory holds: a thread that uses it crashes, sooner than it may in reality.
* **app_bt_rename** and `app_common_getCurrentTime`, which nothing in the application calls.

## 8. Plan

Done: every component of the program, in the order of importance: the buffer both directions rest on and its proofs, the
data paths, the daemon, ota and its composition with the daemon, the framing, MQTT, the life cycle, the
bring-up of the module, the codec; the proofs of every safety property outside the codec; that the calls of the buffer are
the steps its callers take them for; and what can be proved of the codec without its recursion.

Left, modelling: two incarnations of the daemon after a SIGKILL; `AppMqtt` under `AppDevice` in place of its
connection flag; `BtFraming` feeding `AppDevice`.

Left, proving: what the steps above would add. What the tools do not reach stays with TLC: liveness under fairness, and
the recursive part of the codec.
