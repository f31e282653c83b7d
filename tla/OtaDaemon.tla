------------------------------ MODULE OtaDaemon ------------------------------
(***************************************************************************)
(* The daemon supervising the ota process: Daemon composed with OtaUpdate. *)
(* A fork of ota is the start of OtaUpdate; a crash of ota is a child that *)
(* was ended by a signal, which the daemon counts; either of them reboots  *)
(* the board and takes the other with it.  The composition runs in test    *)
(* mode (GATEWAY_TEST_MODE = 1), where the daemon supervises ota alone.    *)
(***************************************************************************)
EXTENDS OtaUpdate, Integers, FiniteSets

CONSTANTS Pids, MaxForeign, MAX_FAIL_COUNT

ASSUME SupervisionAssumption ==
  /\ Pids \subseteq Nat \ {0}
  /\ MaxForeign \in Nat
  /\ MAX_FAIL_COUNT \in Nat

VARIABLES pc, is_running, test_mode, root, pid, fail_count, owner, state

D == INSTANCE Daemon WITH params <- <<"app", "ota">>

daemonVars == <<pc, is_running, test_mode, root, pid, fail_count, owner, state>>
vars == <<otaVars, daemonVars>>

Init ==
  /\ OtaInit
  /\ D!Init
  /\ test_mode = TRUE

Alive(p) == owner[p] = "ota" /\ state[p] = "running"

------------------------------------------------------------------------------
(* Steps of the ota process *)

(* ota runs while its process does. *)
OtaRuns(A) ==
  /\ A
  /\ \E p \in Pids : Alive(p)
  /\ UNCHANGED daemonVars

OtaCrashes ==
  /\ FetchFails \/ VerifyCrashes
  /\ \E p \in Pids : D!ChildEnds(p) /\ state'[p] = "signaled"

OtaReboots ==
  /\ root
  /\ \E p \in Pids : Alive(p)
  /\ Reboot
  /\ pc' = [pc EXCEPT !.at = "rebooted"]
  /\ owner' = [p \in Pids |-> "nobody"]
  /\ state' = [p \in Pids |-> "none"]
  /\ UNCHANGED <<is_running, test_mode, root, pid, fail_count>>

(* Somebody kills ota, or the daemon's SIGKILL takes effect. *)
OtaKilled ==
  /\ Killed
  /\ \E p \in Pids : \/ D!ChildEnds(p) /\ state'[p] = "signaled"
                     \/ D!Dies(p)

------------------------------------------------------------------------------
(* Steps of the daemon *)

DaemonForks ==
  /\ D!ForkSucceeds("ota")
  /\ Begin

DaemonReboots ==
  /\ D!Reboot("ota")
  /\ root
  /\ board' = "failed"
  /\ ota' = "off"
  /\ UNCHANGED <<info, file, server>>

DaemonRuns ==
  /\ D!Run
  /\ pc'.at # "rebooted"
  /\ ~\E p \in Pids : owner[p] = "nobody" /\ owner'[p] = "ota"
  /\ UNCHANGED otaVars

Daemon == DaemonForks \/ DaemonReboots \/ DaemonRuns

Next ==
  \/ OtaRuns(CheckUpdate /\ ota' # "crashed")
  \/ OtaRuns(RebootFails /\ ~root)
  \/ OtaCrashes \/ OtaReboots \/ OtaKilled
  \/ Daemon
  \/ D!Sigterm /\ UNCHANGED otaVars
  \/ Publish /\ UNCHANGED daemonVars
  \/ D!Terminated /\ UNCHANGED otaVars

Spec == Init /\ [][Next]_vars

(* Both processes run; the day passes; a fork, a fetch and a download do not *)
(* fail every time they are tried.                                           *)
FairSpec ==
  /\ Spec
  /\ WF_vars(Daemon)
  /\ WF_vars(OtaRuns(CheckUpdate /\ ota' # "crashed"))
  /\ WF_vars(OtaReboots)
  /\ SF_vars(DaemonForks)
  /\ SF_vars(OtaRuns(Fetch))
  /\ SF_vars(OtaRuns(Downloaded))

------------------------------------------------------------------------------
(* Properties *)

(* The process of ota and what it does belong together: ota is at a step of  *)
(* its own exactly as long as a child of the daemon runs it, and never twice *)
(* (daemon_sub_process.c:43-83, ota_version.c:165-178).                      *)
OneOta ==
  /\ ota \in {"off", "crashed", "killed"} <=>
       ~\E p \in Pids : owner[p] = "ota" /\ state[p] \in {"running", "killed"}
  /\ Cardinality({p \in Pids : owner[p] = "ota"}) <= 1

Offers(r) == server = [announced |-> r, offered |-> r]

(* A newer release that stays on the server gets the board rebooted, into it *)
(* or, when ota keeps failing, by the daemon: a crash, a kill, a failed      *)
(* download or a failed fork never leaves the board on its old firmware for  *)
(* good while the daemon is up and may reboot it.                            *)
NewReleaseInstalled ==
  \A r \in (Current + 1)..Len(Releases) :
    (root /\ [](is_running /\ pc.at # "done") /\ <>[]Offers(r)) => <>(board # "up")

(* "ota checks once a day" (ota_version.c:162, 167): a check begins when ota *)
(* was first started, after a day of sleep, or when somebody else had killed *)
(* it.                                                                       *)
ChecksOnceADay ==
  [][(ota' = "fetch" /\ ota # "fetch") => ota \in {"off", "sleep", "killed"}]_vars
==============================================================================
