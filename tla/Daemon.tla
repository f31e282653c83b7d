------------------------------- MODULE Daemon -------------------------------
(***************************************************************************)
(* The supervisor of daemon/daemon_runner.c and                            *)
(* daemon/daemon_sub_process.c: one process that starts app and ota,       *)
(* patrols them every three seconds, restarts what died, reboots the board *)
(* after too many failures, and kills its children when it receives        *)
(* SIGTERM.  The kernel's process table is part of the model: pids are     *)
(* reused, by the daemon's own children and by foreign processes, and a    *)
(* child stays a zombie until it is waited for.                            *)
(***************************************************************************)
EXTENDS Integers, Sequences, FiniteSets

CONSTANTS
  params,           (* the sub-processes in patrol order: <<"app", "ota">>   *)
  Pids,             (* the pids the kernel hands out                         *)
  MaxForeign,       (* bound: foreign processes at any moment                *)
  MAX_FAIL_COUNT    (* failures that are tolerated (6)                       *)

SubProcesses == {params[i] : i \in DOMAIN params}

ASSUME DaemonAssumption ==
  /\ params \in Seq(SubProcesses) /\ params # <<>>
  /\ "nobody" \notin SubProcesses /\ "foreign" \notin SubProcesses
  /\ Pids \subseteq Nat \ {0}
  /\ MaxForeign \in Nat
  /\ MAX_FAIL_COUNT \in Nat

VARIABLES
  pc,           (* the step the daemon is at and its loop index             *)
  is_running,   (* cleared by exit_handler                                  *)
  test_mode,    (* GATEWAY_TEST_MODE = 1: app is not supervised             *)
  root,         (* whether reboot() is permitted                            *)
  pid,          (* pid[s]: SubProcess.pid, -1 for none                      *)
  fail_count,   (* fail_count[s], up to the first value that means too many *)
  owner,        (* owner[p]: the process p runs "app", "ota" or is foreign  *)
  state         (* state[p]: running, killed, or how the zombie p ended     *)

kernel == <<owner, state>>
vars == <<pc, is_running, test_mode, root, pid, fail_count, owner, state>>

NoPid == -1

Init ==
  /\ pc = [at |-> "init", i |-> 1]
  /\ is_running = TRUE
  /\ test_mode \in BOOLEAN
  /\ root \in BOOLEAN
  /\ pid = [s \in SubProcesses |-> NoPid]
  /\ fail_count = [s \in SubProcesses |-> 0]
  /\ owner = [p \in Pids |-> "nobody"]
  /\ state = [p \in Pids |-> "none"]

(* The entry of subProcess that is not NULL. *)
Supervised(s) == ~(test_mode /\ s = "app")

------------------------------------------------------------------------------
(* Control flow *)

AtStep(step, s) == pc.at = step /\ params[pc.i] = s

Goto(step) == pc' = [pc EXCEPT !.at = step]

(* On to the next sub-process of the loop over step, or past the loop. *)
Continue(step, after) ==
  pc' = IF pc.i < Len(params) THEN [at |-> step, i |-> pc.i + 1]
                              ELSE [at |-> after, i |-> 1]

(* daemon_runner_run up to the main loop; any failure on the way ends it     *)
(* before a child exists.                                                    *)
Start ==
  /\ pc.at = "init"
  /\ \/ Goto("loop")
     \/ Goto("done")
  /\ UNCHANGED <<is_running, test_mode, root, pid, fail_count, kernel>>

(* while (is_running): a patrol, or the way out.  The sleep(3) after each    *)
(* patrol is the time this step waits.                                       *)
Loop ==
  /\ pc.at = "loop"
  /\ Goto(IF is_running THEN "check" ELSE "exit")
  /\ UNCHANGED <<is_running, test_mode, root, pid, fail_count, kernel>>

(* exit_handler: SIGTERM arrives at any moment. *)
Sigterm ==
  /\ is_running
  /\ pc.at \notin {"done", "rebooted"}
  /\ is_running' = FALSE
  /\ UNCHANGED <<pc, test_mode, root, pid, fail_count, kernel>>

------------------------------------------------------------------------------
(* daemon_sub_process_checkStart *)

IsChild(p) == p \in Pids /\ owner[p] \in SubProcesses

(* Mutant: WIFSIGNALED is forgotten. *)
ZombieExited(p) == state[p] \in {"exited", "failed"}

Zombie(p) == state[p] \in {"exited", "failed", "signaled"}

(* A waited-for child leaves the process table. *)
Reap(p) ==
  /\ owner' = [owner EXCEPT ![p] = "nobody"]
  /\ state' = [state EXCEPT ![p] = "none"]

(* A NULL entry is passed over, and so is one that is still running. *)
CheckRunning(s) ==
  /\ AtStep("check", s)
  /\ ~Supervised(s) \/ (IsChild(pid[s]) /\ ~Zombie(pid[s]))
  /\ Continue("check", "loop")
  /\ UNCHANGED <<is_running, test_mode, root, pid, fail_count, kernel>>

(* Mutant: waitpid returning 0 is taken for a child that is gone. *)
CheckAbsentNotEnded(s) ==
  /\ AtStep("check", s)
  /\ Supervised(s)
  /\ ~(IsChild(pid[s]) /\ Zombie(pid[s]))
  /\ Goto("fork")
  /\ UNCHANGED <<is_running, test_mode, root, pid, fail_count, kernel>>

(* No pid, or one that waitpid does not know as a child. *)
CheckAbsent(s) ==
  /\ AtStep("check", s)
  /\ Supervised(s)
  /\ ~IsChild(pid[s])
  /\ Goto("fork")
  /\ UNCHANGED <<is_running, test_mode, root, pid, fail_count, kernel>>

Saturated(n) == IF n > MAX_FAIL_COUNT THEN n ELSE n + 1

(* Mutant: only exit codes are looked at. *)
CheckEndedBySignalIgnored(s) ==
  /\ AtStep("check", s)
  /\ Supervised(s)
  /\ IsChild(pid[s]) /\ Zombie(pid[s])
  /\ Reap(pid[s])
  /\ fail_count' = IF state[pid[s]] = "failed"
                   THEN [fail_count EXCEPT ![s] = Saturated(@)] ELSE fail_count
  /\ Goto(IF fail_count'[s] > MAX_FAIL_COUNT THEN "reboot" ELSE "fork")
  /\ UNCHANGED <<is_running, test_mode, root, pid>>

(* Mutant: the count is compared only where a signal is handled. *)
CheckEndedComparesOnSignal(s) ==
  /\ AtStep("check", s)
  /\ Supervised(s)
  /\ IsChild(pid[s]) /\ Zombie(pid[s])
  /\ Reap(pid[s])
  /\ fail_count' = IF state[pid[s]] = "exited"
                   THEN fail_count ELSE [fail_count EXCEPT ![s] = Saturated(@)]
  /\ Goto(IF state[pid[s]] = "signaled" /\ fail_count'[s] > MAX_FAIL_COUNT
          THEN "reboot" ELSE "fork")
  /\ UNCHANGED <<is_running, test_mode, root, pid>>

(* waitpid(WNOHANG) collects the child; anything but exit(0) counts.  The    *)
(* stored pid stays until fork returns.                                      *)
CheckEnded(s) ==
  /\ AtStep("check", s)
  /\ Supervised(s)
  /\ IsChild(pid[s]) /\ Zombie(pid[s])
  /\ Reap(pid[s])
  /\ fail_count' = IF state[pid[s]] = "exited"
                   THEN fail_count ELSE [fail_count EXCEPT ![s] = Saturated(@)]
  /\ Goto(IF fail_count'[s] > MAX_FAIL_COUNT THEN "reboot" ELSE "fork")
  /\ UNCHANGED <<is_running, test_mode, root, pid>>

(* reboot(RB_AUTOBOOT) takes the whole process table with it; without the    *)
(* privilege it returns and the sub-process is started again.                *)
Reboot(s) ==
  /\ AtStep("reboot", s)
  /\ IF root
     THEN /\ Goto("rebooted")
          /\ owner' = [p \in Pids |-> "nobody"]
          /\ state' = [p \in Pids |-> "none"]
     ELSE /\ Goto("fork")
          /\ UNCHANGED kernel
  /\ UNCHANGED <<is_running, test_mode, root, pid, fail_count>>

ForkSucceeds(s) ==
  /\ AtStep("fork", s)
  /\ \E p \in Pids :
       /\ owner[p] = "nobody"
       /\ owner' = [owner EXCEPT ![p] = s]
       /\ state' = [state EXCEPT ![p] = "running"]
       /\ pid' = [pid EXCEPT ![s] = p]
  /\ Continue("check", "loop")
  /\ UNCHANGED <<is_running, test_mode, root, fail_count>>

(* Mutant: the result of fork is stored only when it is a pid. *)
ForkFailsPidKept(s) ==
  /\ AtStep("fork", s)
  /\ Continue("check", "loop")
  /\ UNCHANGED <<is_running, test_mode, root, pid, fail_count, kernel>>

(* fork returns -1, which is stored; the next patrol tries again. *)
ForkFails(s) ==
  /\ AtStep("fork", s)
  /\ pid' = [pid EXCEPT ![s] = NoPid]
  /\ Continue("check", "loop")
  /\ UNCHANGED <<is_running, test_mode, root, fail_count, kernel>>

------------------------------------------------------------------------------
(* daemon_sub_process_exit *)

ExitNone(s) ==
  /\ AtStep("exit", s)
  /\ pid[s] = NoPid
  /\ Continue("exit", "done")
  /\ UNCHANGED <<is_running, test_mode, root, pid, fail_count, kernel>>

(* Mutant: the child is waited for but not killed. *)
ExitKillForgotten(s) ==
  /\ AtStep("exit", s)
  /\ pid[s] # NoPid
  /\ Goto("wait")
  /\ UNCHANGED <<is_running, test_mode, root, pid, fail_count, kernel>>

(* kill(pid, SIGKILL): whatever process has that pid; a zombie stays what it *)
(* is.                                                                       *)
ExitKill(s) ==
  /\ AtStep("exit", s)
  /\ pid[s] # NoPid
  /\ state' = IF state[pid[s]] = "running" THEN [state EXCEPT ![pid[s]] = "killed"] ELSE state
  /\ Goto("wait")
  /\ UNCHANGED <<is_running, test_mode, root, pid, fail_count, owner>>

(* Mutant: waitpid(pid, NULL, WNOHANG) *)
ExitWaitNohang(s) ==
  /\ AtStep("wait", s)
  /\ IF IsChild(pid[s]) /\ Zombie(pid[s]) THEN Reap(pid[s]) ELSE UNCHANGED kernel
  /\ pid' = [pid EXCEPT ![s] = NoPid]
  /\ Continue("exit", "done")
  /\ UNCHANGED <<is_running, test_mode, root, fail_count>>

(* waitpid(pid, NULL, 0) blocks until that child is a zombie; it fails at    *)
(* once for a pid that is not a child.                                       *)
ExitWait(s) ==
  /\ AtStep("wait", s)
  /\ IsChild(pid[s]) => Zombie(pid[s])
  /\ IF IsChild(pid[s]) THEN Reap(pid[s]) ELSE UNCHANGED kernel
  /\ pid' = [pid EXCEPT ![s] = NoPid]
  /\ Continue("exit", "done")
  /\ UNCHANGED <<is_running, test_mode, root, fail_count>>

------------------------------------------------------------------------------
(* The other processes *)

(* A child ends by itself, by a crash or by a signal from elsewhere.  execve *)
(* failing is one way to fail.                                               *)
ChildEnds(p) ==
  /\ IsChild(p)
  /\ state[p] = "running"
  /\ \E how \in {"exited", "failed", "signaled"} : state' = [state EXCEPT ![p] = how]
  /\ UNCHANGED <<pc, is_running, test_mode, root, pid, fail_count, owner>>

(* SIGKILL takes effect. *)
Dies(p) ==
  /\ IsChild(p)
  /\ state[p] = "killed"
  /\ state' = [state EXCEPT ![p] = "signaled"]
  /\ UNCHANGED <<pc, is_running, test_mode, root, pid, fail_count, owner>>

ForeignStarts(p) ==
  /\ owner[p] = "nobody"
  /\ pc.at # "rebooted"
  /\ Cardinality({q \in Pids : owner[q] = "foreign"}) < MaxForeign
  /\ owner' = [owner EXCEPT ![p] = "foreign"]
  /\ state' = [state EXCEPT ![p] = "running"]
  /\ UNCHANGED <<pc, is_running, test_mode, root, pid, fail_count>>

ForeignEnds(p) ==
  /\ owner[p] = "foreign"
  /\ Reap(p)
  /\ UNCHANGED <<pc, is_running, test_mode, root, pid, fail_count>>

(* The main loop, and what other processes and the kernel do. *)
CheckStart(s) ==
  \/ CheckRunning(s) \/ CheckAbsent(s) \/ CheckEnded(s)
  \/ Reboot(s) \/ ForkSucceeds(s) \/ ForkFails(s)

Exit(s) == ExitNone(s) \/ ExitKill(s) \/ ExitWait(s)

Run == Start \/ Loop \/ \E s \in SubProcesses : CheckStart(s) \/ Exit(s)

Terminated == pc.at \in {"done", "rebooted"} /\ UNCHANGED vars

Next ==
  \/ Run
  \/ Sigterm
  \/ \E p \in Pids : ChildEnds(p) \/ Dies(p) \/ ForeignStarts(p) \/ ForeignEnds(p)
  \/ Terminated

Spec == Init /\ [][Next]_vars

(* The daemon runs, SIGKILL works, and fork does not fail for ever.          *)
FairSpec ==
  /\ Spec
  /\ WF_vars(Run)
  /\ \A s \in SubProcesses : SF_vars(ForkSucceeds(s))
  /\ \A p \in Pids : WF_vars(Dies(p))

------------------------------------------------------------------------------
(* Properties *)

States == {"none", "running", "killed", "exited", "failed", "signaled"}

(* The type invariant. *)
TypeOK ==
  /\ pc \in [at : {"init", "loop", "check", "reboot", "fork", "exit", "wait", "done", "rebooted"},
             i : DOMAIN params]
  /\ is_running \in BOOLEAN /\ test_mode \in BOOLEAN /\ root \in BOOLEAN
  /\ pid \in [SubProcesses -> Pids \cup {NoPid}]
  /\ fail_count \in [SubProcesses -> 0..(MAX_FAIL_COUNT + 1)]
  /\ owner \in [Pids -> SubProcesses \cup {"nobody", "foreign"}]
  /\ state \in [Pids -> States]

(* Between waitpid and fork the stored pid belongs to nobody the daemon      *)
(* knows.                                                                    *)
Collected(s) == pc.at \in {"reboot", "fork"} /\ params[pc.i] = s

(* A stored pid is that of a living or unwaited child which runs this very   *)
(* sub-process, whatever the kernel did with old pids: the daemon never      *)
(* waits for, or kills, a stranger (daemon_sub_process.c:43, 136).           *)
PidIsChild ==
  pc.at # "rebooted" =>
    \A s \in SubProcesses :
      pid[s] # NoPid /\ ~Collected(s) => owner[pid[s]] = s

(* Every process that runs app or ota is the one whose pid the daemon holds: *)
(* there are never two of them on the one serial port, none is started for a *)
(* sub-process that is not supervised, and no zombie is forgotten            *)
(* (daemon_sub_process.c:43-83).                                             *)
NoStrayChild ==
  \A p \in Pids : IsChild(p) =>
    /\ pid[owner[p]] = p
    /\ Supervised(owner[p])
    /\ ~Collected(owner[p])

(* With the privilege to reboot, a sub-process that failed too often is not  *)
(* started once more, however its failures were spread over exit codes and   *)
(* signals and over the life of the daemon (daemon_sub_process.c:52-77).     *)
NoStartAfterReboot ==
  root => \A p \in Pids : IsChild(p) /\ state[p] = "running" =>
            fail_count[owner[p]] <= MAX_FAIL_COUNT

(* A patrol collects a process of s that did not exit with 0. *)
FailureCollected(s) ==
  /\ pc.at = "check"
  /\ \E p \in Pids : owner[p] = s /\ owner'[p] = "nobody" /\ state[p] # "exited"

(* A failure is counted when, and only when, a child that did not exit with  *)
(* 0 is collected by a patrol, and as one: in every step of the daemon, of a *)
(* child, of the kernel or of a signal the count of each sub-process rises   *)
(* by one then (the model counts no further than one above the limit), and   *)
(* otherwise stays what it is.  No successful run, restart, failed reboot or *)
(* SIGTERM takes it back (daemon_sub_process.c:52-77;                        *)
(* daemon_sub_process.h:11).                                                 *)
CountsEveryFailure ==
  [][\A s \in SubProcesses :
       fail_count'[s] = IF FailureCollected(s) /\ fail_count[s] <= MAX_FAIL_COUNT
                        THEN fail_count[s] + 1
                        ELSE fail_count[s]]_vars

(* When the daemon ends of its own accord no child of it is left, neither    *)
(* running nor as a zombie, and whoever was started during the last patrol,  *)
(* after SIGTERM arrived, is gone too (daemon_runner.c:100-107).             *)
NoChildLeft ==
  pc.at = "done" => \A p \in Pids : ~IsChild(p)

(* Where the daemon is in its loops, and what that says of the pids: none is *)
(* held before the first patrol and at the end, and none of the sub-processes*)
(* the exit loop has passed.                                                 *)
LoopProgress ==
  /\ pc.at \in {"init", "loop"} => pc.i = 1
  /\ pc.at \in {"init", "done"} => \A s \in SubProcesses : pid[s] = NoPid
  /\ pc.at \in {"exit", "wait"} => \A j \in 1..(pc.i - 1) : pid[params[j]] = NoPid

(* With the privilege to reboot, only the sub-process over which the daemon  *)
(* is about to reboot has used up its failures; a reboot leaves no child.    *)
WithinFailures ==
  /\ root /\ pc.at # "rebooted" =>
       \A s \in SubProcesses :
         fail_count[s] <= MAX_FAIL_COUNT \/ (pc.at = "reboot" /\ s = params[pc.i])
  /\ pc.at = "rebooted" => \A p \in Pids : ~IsChild(p)

(* The inductive invariant: only supervised sub-processes are ever checked   *)
(* past their NULL entry, and what the daemon has stored agrees with the     *)
(* process table at every step of its loops (daemon_runner.c:88-107,         *)
(* daemon_sub_process.c:35-147).                                             *)
IInv ==
  /\ TypeOK
  /\ PidIsChild
  /\ NoStrayChild
  /\ LoopProgress
  /\ WithinFailures
  /\ pc.at \in {"reboot", "fork"} => Supervised(params[pc.i])

Runs(s) == \E p \in Pids : owner[p] = s /\ state[p] = "running"

(* "After a sub-process exits the daemon restarts it at the next patrol"     *)
(* (README.md:113), unless the daemon is told to stop, never started, or the *)
(* board is rebooted.                                                        *)
Restarted ==
  \A s \in SubProcesses :
    (Supervised(s) /\ ~Runs(s)) ~>
      (Runs(s) \/ ~is_running \/ pc.at \in {"done", "rebooted"})

(* SIGTERM ends the daemon, however many children are still running, unless  *)
(* a reboot comes first (daemon_runner.c:21-24, 88-107).                     *)
SigtermEnds == ~is_running ~> pc.at \in {"done", "rebooted"}
==============================================================================
