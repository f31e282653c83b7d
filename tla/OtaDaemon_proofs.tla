--------------------------- MODULE OtaDaemon_proofs ---------------------------
(***************************************************************************)
(* Theorems about OtaDaemon, for any releases, any process table and any   *)
(* number of tolerated failures.  What Daemon_proofs proves of the daemon  *)
(* alone is used here for the daemon that supervises ota: every step of    *)
(* the composition is one of Daemon's, leaves the daemon alone, or is the  *)
(* reboot ota makes, which Daemon does not know.                           *)
(***************************************************************************)
EXTENDS OtaDaemon, SequenceTheorems, FiniteSetTheorems, TLAPS

DP == INSTANCE Daemon_proofs WITH params <- <<"app", "ota">>

OtaSteps == {"off", "fetch", "compare", "download", "transfer", "verify", "reboot",
             "sleep", "crashed", "killed"}

OtaTypeOK ==
  /\ ota \in OtaSteps
  /\ info \in DOMAIN Releases \cup {0}
  /\ file \in [has : {"nothing", "part", "all"}, release : DOMAIN Releases \cup {0}]
  /\ server \in [announced : DOMAIN Releases, offered : DOMAIN Releases]
  /\ board \in {"up", "updated", "failed"}

(* What ota has decided on and what it has on disk, at each of its steps:    *)
(* the announcement is a release once it was fetched, a newer one past the   *)
(* comparison, and what is verified is a complete firmware.                  *)
Decided ==
  /\ ota = "compare" => info \in DOMAIN Releases
  /\ ota \in {"download", "transfer", "verify", "reboot"} => info > Current
  /\ ota \in {"verify", "reboot"} => file = AllOf(file.release)
  /\ ota = "reboot" => file.release = info
  /\ board = "updated" => ota = "off"
  /\ RebootsIntoNewer

HasChild == \E p \in Pids : owner[p] = "ota" /\ state[p] \in {"running", "killed"}

Alike == ota \in {"off", "crashed", "killed"} <=> ~HasChild

(* The inductive invariant: that of the daemon, what ota relies on between   *)
(* its steps, and that there is a process of ota just when ota is at one of  *)
(* them.                                                                     *)
IInv ==
  /\ OtaTypeOK
  /\ Decided
  /\ Alike
  /\ test_mode = TRUE
  /\ D!IInv

------------------------------------------------------------------------------
(* The daemon in the composition *)

LEMMA Supervises == DP!DaemonAssumption
<1>1. DP!SubProcesses = {"app", "ota"}
  BY DEF DP!SubProcesses
<1>2. <<"app", "ota">> \in Seq({"app", "ota"}) /\ <<"app", "ota">> # <<>>
  OBVIOUS
<1> QED BY <1>1, <1>2, SupervisionAssumption DEF DP!DaemonAssumption

(* The two instances of Daemon have one invariant and one next-state         *)
(* relation.                                                                 *)
LEMMA SameInvariant == D!IInv <=> DP!IInv
BY DEF D!IInv, D!TypeOK, D!PidIsChild, D!NoStrayChild, D!LoopProgress, D!WithinFailures,
       D!Supervised, D!Collected, D!IsChild, D!SubProcesses, D!NoPid, D!States,
       DP!IInv, DP!TypeOK, DP!PidIsChild, DP!NoStrayChild, DP!LoopProgress,
       DP!WithinFailures, DP!Supervised, DP!Collected, DP!IsChild, DP!SubProcesses,
       DP!NoPid, DP!States

LEMMA SameInvariantNext == D!IInv' <=> DP!IInv'
BY SameInvariant, PTL

LEMMA SameSteps ==
  /\ D!Run => DP!Run
  /\ D!Sigterm => DP!Sigterm
  /\ \A p \in Pids : D!ChildEnds(p) \/ D!Dies(p) => DP!ChildEnds(p) \/ DP!Dies(p)
BY DEF D!Run, D!Start, D!Loop, D!CheckStart, D!Exit, D!CheckRunning, D!CheckAbsent,
       D!CheckEnded, D!Reboot, D!ForkSucceeds, D!ForkFails, D!ExitNone, D!ExitKill,
       D!ExitWait, D!Sigterm, D!ChildEnds, D!Dies, D!Goto, D!Continue, D!AtStep,
       D!Supervised, D!IsChild, D!Zombie, D!Reap, D!Saturated, D!SubProcesses, D!NoPid,
       D!kernel,
       DP!Run, DP!Start, DP!Loop, DP!CheckStart, DP!Exit, DP!CheckRunning, DP!CheckAbsent,
       DP!CheckEnded, DP!Reboot, DP!ForkSucceeds, DP!ForkFails, DP!ExitNone, DP!ExitKill,
       DP!ExitWait, DP!Sigterm, DP!ChildEnds, DP!Dies, DP!Goto, DP!Continue, DP!AtStep,
       DP!Supervised, DP!IsChild, DP!Zombie, DP!Reap, DP!Saturated, DP!SubProcesses, DP!NoPid,
       DP!kernel

------------------------------------------------------------------------------
(* ota on its own *)

(* Only a release after the current one is not up to date. *)
LEMMA NewerThanCurrent ==
  ASSUME NEW r \in DOMAIN Releases, ~UpToDate(r)
  PROVE  r > Current
<1>1. DOMAIN Releases = 1..Len(Releases) /\ Len(Releases) \in Nat
  BY OtaAssumption
<1>2. /\ Releases[r] \in Nat \X Nat \X Nat
      /\ Releases[Current] \in Nat \X Nat \X Nat
  BY <1>1, OtaAssumption
<1>3. r # Current
  BY <1>2 DEF UpToDate
<1>4. ~(r < Current)
  <2> SUFFICES ASSUME r < Current PROVE FALSE
    OBVIOUS
  <2>1. Older(Releases[r], Releases[Current])
    BY OtaAssumption
  <2>2. UpToDate(r)
    BY <1>2, <2>1 DEF UpToDate, Older
  <2> QED BY <2>2
<1> QED BY <1>1, <1>3, <1>4, OtaAssumption

OtaInv == OtaTypeOK /\ Decided

(* What ota decided on is kept by each of its steps, and by a release that   *)
(* is published in between.                                                  *)
LEMMA CheckUpdateDecides ==
  ASSUME OtaInv, CheckUpdate
  PROVE  OtaInv'
<1> USE DEF OtaInv, OtaTypeOK, OtaSteps, Decided, RebootsIntoNewer
<1>1. CASE Fetch
  BY <1>1 DEF Fetch
<1>2. CASE FetchFails
  BY <1>2 DEF FetchFails
<1>3. CASE Compare
  <2>1. ota' = "download" => info > Current
    BY <1>3, NewerThanCurrent DEF Compare
  <2>2. ota' \in {"download", "sleep"} /\ ota = "compare" /\ UNCHANGED <<info, file, server, board>>
    BY <1>3 DEF Compare
  <2> QED BY <2>1, <2>2
<1>4. CASE Download
  <2>1. file' \in [has : {"nothing", "part", "all"}, release : DOMAIN Releases \cup {0}]
    BY <1>4 DEF Download, PartOf
  <2> QED BY <1>4, <2>1 DEF Download
<1>5. CASE Downloaded
  <2>1. file' = AllOf(file.release) /\ file'.release = file.release
    BY <1>5 DEF Downloaded, AllOf
  <2>2. file' \in [has : {"nothing", "part", "all"}, release : DOMAIN Releases \cup {0}]
    BY <2>1 DEF AllOf
  <2> QED BY <1>5, <2>1, <2>2 DEF Downloaded
<1>6. CASE DownloadFails
  BY <1>6 DEF DownloadFails
<1>7. CASE Verify
  <2>1. CASE file.release = info
    BY <1>7, <2>1 DEF Verify
  <2>2. CASE file.release # info
    <3>1. file' \in [has : {"nothing", "part", "all"}, release : DOMAIN Releases \cup {0}]
      BY <1>7, <2>2 DEF Verify, NoFile
    <3> QED BY <1>7, <2>2, <3>1 DEF Verify
  <2> QED BY <2>1, <2>2
<1>8. CASE VerifyCrashes
  BY <1>8 DEF VerifyCrashes
<1>9. CASE DayPasses
  BY <1>9 DEF DayPasses
<1> QED BY <1>1, <1>2, <1>3, <1>4, <1>5, <1>6, <1>7, <1>8, <1>9 DEF CheckUpdate

LEMMA AroundItDecides ==
  ASSUME OtaInv,
         Begin \/ Reboot \/ RebootFails \/ Killed \/ FetchFails \/ VerifyCrashes \/ Publish
  PROVE  OtaInv'
<1> USE DEF OtaInv, OtaTypeOK, OtaSteps, Decided, RebootsIntoNewer
<1>1. CASE Begin
  BY <1>1 DEF Begin
<1>2. CASE Reboot
  <2>1. info' > Current /\ file' = AllOf(info')
    BY <1>2 DEF Reboot
  <2> QED BY <1>2, <2>1 DEF Reboot
<1>3. CASE RebootFails
  BY <1>3 DEF RebootFails
<1>4. CASE Killed
  BY <1>4 DEF Killed
<1>5. CASE FetchFails \/ VerifyCrashes
  BY <1>5 DEF FetchFails, VerifyCrashes
<1>6. CASE Publish
  <2>1. server' \in [announced : DOMAIN Releases, offered : DOMAIN Releases]
    BY <1>6 DEF Publish
  <2> QED BY <1>6, <2>1 DEF Publish
<1> QED BY <1>1, <1>2, <1>3, <1>4, <1>5, <1>6

(* The board that the daemon reboots is not one that ota has updated. *)
LEMMA DaemonRebootDecides ==
  ASSUME OtaInv, DaemonReboots
  PROVE  OtaInv'
BY DEF OtaInv, OtaTypeOK, OtaSteps, Decided, RebootsIntoNewer, DaemonReboots

LEMMA UnchangedDecides ==
  ASSUME OtaInv, UNCHANGED otaVars
  PROVE  OtaInv'
BY DEF OtaInv, OtaTypeOK, Decided, RebootsIntoNewer, otaVars

LEMMA NextDecides ==
  ASSUME OtaInv, [Next]_vars
  PROVE  OtaInv'
<1>1. CASE OtaRuns(CheckUpdate /\ ota' # "crashed")
  BY <1>1, CheckUpdateDecides DEF OtaRuns
<1>2. CASE OtaRuns(RebootFails /\ ~root) \/ OtaCrashes \/ OtaReboots \/ OtaKilled
  BY <1>2, AroundItDecides DEF OtaRuns, OtaCrashes, OtaReboots, OtaKilled
<1>3. CASE Daemon
  BY <1>3, AroundItDecides, DaemonRebootDecides, UnchangedDecides DEF Daemon, DaemonForks, DaemonRuns
<1>4. CASE (D!Sigterm \/ D!Terminated) /\ UNCHANGED otaVars
  BY <1>4, UnchangedDecides
<1>5. CASE Publish
  BY <1>5, AroundItDecides
<1>6. CASE UNCHANGED vars
  BY <1>6, UnchangedDecides DEF vars
<1> QED BY <1>1, <1>2, <1>3, <1>4, <1>5, <1>6 DEF Next

------------------------------------------------------------------------------
(* The daemon and the process table *)

LEMMA OnlyOta ==
  ASSUME D!IInv, test_mode = TRUE
  PROVE  /\ \A p \in Pids : D!IsChild(p) <=> owner[p] = "ota"
         /\ \A p, q \in Pids : owner[p] = "ota" /\ owner[q] = "ota" => p = q
<1>1. \A p \in Pids : D!IsChild(p) => owner[p] = "ota" /\ pid["ota"] = p
  BY DEF D!IInv, D!NoStrayChild, D!IsChild, D!Supervised, D!SubProcesses
<1>2. \A p \in Pids : owner[p] = "ota" => D!IsChild(p)
  BY DEF D!IsChild, D!SubProcesses
<1> QED BY <1>1, <1>2

(* A step of Daemon keeps the invariant of Daemon. *)
LEMMA DaemonStep ==
  ASSUME D!IInv,
         \/ D!Run \/ D!Sigterm
         \/ \E p \in Pids : D!ChildEnds(p) \/ D!Dies(p)
         \/ UNCHANGED daemonVars
  PROVE  D!IInv'
<1>1. DP!IInv
  BY SameInvariant
<1>2. [DP!Next]_DP!vars
  BY SameSteps DEF DP!Next, DP!vars, daemonVars
<1>3. DP!IInv'
  BY <1>1, <1>2, Supervises, DP!NextInvariant
<1> QED BY <1>3, SameInvariantNext

(* So does the reboot that ota makes. *)
LEMMA OtaRebootStep ==
  ASSUME D!IInv, OtaReboots
  PROVE  D!IInv'
<1>1. pc' = [pc EXCEPT !.at = "rebooted"] /\ pc'.at = "rebooted" /\ pc'.i = pc.i
  BY DEF OtaReboots, D!IInv, D!TypeOK
<1>2. \A p \in Pids : owner'[p] = "nobody"
  BY DEF OtaReboots
<1>3. \A p \in Pids : ~D!IsChild(p)'
  BY <1>2 DEF D!IsChild, D!SubProcesses
<1>4. D!TypeOK'
  <2>1. pc' \in [at : {"init", "loop", "check", "reboot", "fork", "exit", "wait", "done",
                       "rebooted"}, i : DOMAIN <<"app", "ota">>]
    BY <1>1 DEF D!IInv, D!TypeOK
  <2>2. /\ owner' \in [Pids -> D!SubProcesses \cup {"nobody", "foreign"}]
        /\ state' \in [Pids -> D!States]
    BY DEF OtaReboots, D!States
  <2> QED BY <2>1, <2>2 DEF OtaReboots, D!IInv, D!TypeOK
<1>5. D!PidIsChild' /\ D!NoStrayChild' /\ D!LoopProgress' /\ D!WithinFailures'
  BY <1>1, <1>3 DEF D!PidIsChild, D!NoStrayChild, D!LoopProgress, D!WithinFailures
<1> QED BY <1>1, <1>4, <1>5 DEF D!IInv

LEMMA NextSupervises ==
  ASSUME D!IInv, [Next]_vars
  PROVE  D!IInv'
<1>1. CASE OtaReboots
  BY <1>1, OtaRebootStep
<1>2. CASE DaemonForks
  <2>1. D!Run
    BY <1>2 DEF DaemonForks, D!Run, D!CheckStart, D!SubProcesses
  <2> QED BY <2>1, DaemonStep
<1>3. CASE DaemonReboots
  <2>1. D!Run
    BY <1>3 DEF DaemonReboots, D!Run, D!CheckStart, D!SubProcesses
  <2> QED BY <2>1, DaemonStep
<1>4. CASE DaemonRuns
  BY <1>4, DaemonStep DEF DaemonRuns
<1>5. CASE OtaCrashes \/ OtaKilled
  BY <1>5, DaemonStep DEF OtaCrashes, OtaKilled
<1>6. CASE D!Sigterm
  BY <1>6, DaemonStep
<1>7. CASE UNCHANGED daemonVars
  BY <1>7, DaemonStep
<1>8. CASE D!Terminated
  BY <1>7, <1>8 DEF D!Terminated, D!vars, daemonVars
<1> QED BY <1>1, <1>2, <1>3, <1>4, <1>5, <1>6, <1>7, <1>8
        DEF Next, OtaRuns, Daemon, vars, daemonVars

LEMMA TestMode ==
  ASSUME [Next]_vars
  PROVE  test_mode' = test_mode
BY DEF Next, vars, daemonVars, OtaRuns, OtaCrashes, OtaReboots, OtaKilled, Daemon, DaemonForks,
       DaemonReboots, DaemonRuns, D!Run, D!Start, D!Loop, D!CheckStart, D!Exit,
       D!CheckRunning, D!CheckAbsent, D!CheckEnded, D!Reboot, D!ForkSucceeds, D!ForkFails,
       D!ExitNone, D!ExitKill, D!ExitWait, D!Sigterm, D!ChildEnds, D!Dies, D!Terminated, D!vars

------------------------------------------------------------------------------
(* ota and its process *)

(* A patrol or the exit loop leaves a child that runs or is being killed as  *)
(* it is, and makes none but by fork.                                        *)
LEMMA RunKeepsChild ==
  ASSUME D!IInv, test_mode = TRUE, DaemonRuns
  PROVE  HasChild' <=> HasChild
<1>0. D!TypeOK
  BY DEF D!IInv
<1>1. \A p \in Pids : owner'[p] = "ota" => owner[p] # "nobody"
  BY DEF DaemonRuns
<1>2. SUFFICES \A p \in Pids :
        (owner'[p] = "ota" /\ state'[p] \in {"running", "killed"})
          <=> (owner[p] = "ota" /\ state[p] \in {"running", "killed"})
  BY DEF HasChild
<1> USE DEF D!kernel
<1>3. CASE D!Start \/ D!Loop
  BY <1>3 DEF D!Start, D!Loop
<1>4. ASSUME NEW s \in D!SubProcesses, D!CheckStart(s)
      PROVE  \A p \in Pids :
        (owner'[p] = "ota" /\ state'[p] \in {"running", "killed"})
          <=> (owner[p] = "ota" /\ state[p] \in {"running", "killed"})
  <2>1. CASE D!CheckRunning(s) \/ D!CheckAbsent(s) \/ D!ForkFails(s)
    BY <2>1 DEF D!CheckRunning, D!CheckAbsent, D!ForkFails
  <2>2. CASE D!CheckEnded(s)
    BY <1>0, <2>2 DEF D!CheckEnded, D!Reap, D!Zombie, D!TypeOK
  <2>3. CASE D!Reboot(s)
    <3>1. ~root
      BY <2>3, <1>0 DEF D!Reboot, D!Goto, DaemonRuns, D!TypeOK
    <3> QED BY <2>3, <3>1 DEF D!Reboot
  <2>4. CASE D!ForkSucceeds(s)
    BY <1>0, <1>1, <2>4 DEF D!ForkSucceeds, D!TypeOK
  <2> QED BY <1>4, <2>1, <2>2, <2>3, <2>4 DEF D!CheckStart
<1>5. ASSUME NEW s \in D!SubProcesses, D!Exit(s)
      PROVE  \A p \in Pids :
        (owner'[p] = "ota" /\ state'[p] \in {"running", "killed"})
          <=> (owner[p] = "ota" /\ state[p] \in {"running", "killed"})
  <2>1. CASE D!ExitNone(s)
    BY <2>1 DEF D!ExitNone
  <2>2. CASE D!ExitKill(s)
    BY <1>0, <2>2 DEF D!ExitKill, D!TypeOK
  <2>3. CASE D!ExitWait(s)
    BY <1>0, <2>3 DEF D!ExitWait, D!Reap, D!Zombie, D!TypeOK
  <2> QED BY <1>5, <2>1, <2>2, <2>3 DEF D!Exit
<1> QED BY <1>3, <1>4, <1>5 DEF DaemonRuns, D!Run

(* A child that ends was the only one. *)
LEMMA EndLeavesNone ==
  ASSUME D!IInv, test_mode = TRUE, NEW p \in Pids, state'[p] = "signaled",
         D!ChildEnds(p) \/ D!Dies(p)
  PROVE  ~HasChild'
<1>1. owner' = owner /\ D!IsChild(p)
  BY DEF D!ChildEnds, D!Dies
<1>2. owner[p] = "ota" /\ \A q \in Pids : owner[q] = "ota" => q = p
  BY <1>1, OnlyOta
<1> QED BY <1>1, <1>2 DEF HasChild

LEMMA NextAlike ==
  ASSUME IInv, [Next]_vars
  PROVE  Alike'
<1> USE DEF IInv, Alike
<1>1. CASE OtaRuns(CheckUpdate /\ ota' # "crashed") \/ OtaRuns(RebootFails /\ ~root)
  <2>1. HasChild' <=> HasChild
    BY <1>1 DEF OtaRuns, HasChild, daemonVars
  <2>2. ota \notin {"off", "crashed", "killed"} /\ ota' \notin {"off", "crashed", "killed"}
    BY <1>1 DEF OtaRuns, CheckUpdate, Fetch, FetchFails, Compare, Download, Downloaded,
                DownloadFails, Verify, VerifyCrashes, DayPasses, RebootFails
  <2> QED BY <2>1, <2>2
<1>2. CASE OtaCrashes
  <2>1. PICK p \in Pids : D!ChildEnds(p) /\ state'[p] = "signaled"
    BY <1>2 DEF OtaCrashes
  <2>2. ota' = "crashed"
    BY <1>2 DEF OtaCrashes, FetchFails, VerifyCrashes
  <2>3. ~HasChild'
    BY <2>1, EndLeavesNone
  <2> QED BY <2>2, <2>3
<1>3. CASE OtaReboots
  BY <1>3 DEF OtaReboots, Reboot, HasChild
<1>4. CASE OtaKilled
  <2>1. PICK p \in Pids : (D!ChildEnds(p) /\ state'[p] = "signaled") \/ D!Dies(p)
    BY <1>4 DEF OtaKilled
  <2>2. state'[p] = "signaled"
    BY <2>1 DEF D!Dies, D!IInv, D!TypeOK
  <2> QED BY <1>4, <2>1, <2>2, EndLeavesNone DEF OtaKilled, Killed
<1>5. CASE DaemonForks
  <2>1. PICK p \in Pids : /\ owner' = [owner EXCEPT ![p] = "ota"]
                          /\ state' = [state EXCEPT ![p] = "running"]
    BY <1>5 DEF DaemonForks, D!ForkSucceeds
  <2>2. owner'[p] = "ota" /\ state'[p] = "running"
    BY <2>1 DEF D!IInv, D!TypeOK
  <2> QED BY <1>5, <2>2 DEF DaemonForks, Begin, HasChild
<1>6. CASE DaemonReboots
  BY <1>6 DEF DaemonReboots, D!Reboot, HasChild
<1>7. CASE DaemonRuns
  <2>1. ota' = ota
    BY <1>7 DEF DaemonRuns, otaVars
  <2> QED BY <1>7, <2>1, RunKeepsChild
<1>8. CASE ota' = ota /\ UNCHANGED <<owner, state>>
  BY <1>8 DEF HasChild
<1>9. CASE D!Sigterm /\ UNCHANGED otaVars
  BY <1>8, <1>9 DEF D!Sigterm, D!kernel, otaVars
<1>10. CASE D!Terminated /\ UNCHANGED otaVars
  BY <1>8, <1>10 DEF D!Terminated, D!vars, otaVars
<1>11. CASE Publish /\ UNCHANGED daemonVars
  BY <1>8, <1>11 DEF Publish, daemonVars
<1>12. CASE UNCHANGED vars
  BY <1>8, <1>12 DEF vars, daemonVars, otaVars
<1> QED BY <1>1, <1>2, <1>3, <1>4, <1>5, <1>6, <1>7, <1>9, <1>10, <1>11, <1>12
        DEF Next, Daemon

------------------------------------------------------------------------------
(* The inductive invariant *)

LEMMA InitInvariant == Init => IInv
<1> SUFFICES ASSUME Init PROVE IInv
  OBVIOUS
<1>1. OtaTypeOK /\ Decided
  BY DEF Init, OtaInit, OtaTypeOK, OtaSteps, NoFile, Decided, RebootsIntoNewer
<1>2. Alike
  BY DEF Init, OtaInit, D!Init, Alike, HasChild
<1>3. DP!Init
  BY DEF Init, D!Init, DP!Init, D!SubProcesses, DP!SubProcesses, D!NoPid, DP!NoPid
<1>4. D!IInv
  BY <1>3, Supervises, DP!InitInvariant, SameInvariant
<1> QED BY <1>1, <1>2, <1>4 DEF IInv, Init

LEMMA NextInvariant == IInv /\ [Next]_vars => IInv'
<1> SUFFICES ASSUME IInv, [Next]_vars PROVE IInv'
  OBVIOUS
<1>1. OtaTypeOK' /\ Decided'
  BY NextDecides DEF IInv, OtaInv
<1>2. D!IInv'
  BY NextSupervises DEF IInv
<1> QED BY <1>1, <1>2, NextAlike, TestMode DEF IInv

(* What the daemon knows of its children, what ota has decided on and the    *)
(* child there is agree in every state.                                      *)
THEOREM Invariance == Spec => []IInv
BY InitInvariant, NextInvariant, PTL DEF Spec

(* ota reboots the board only into a complete firmware of the newer release  *)
(* it decided on, whatever is published, killed and started again in between *)
(* (ota_version.c:109-156).                                                  *)
THEOREM UpdatesToNewer == Spec => []RebootsIntoNewer
<1>1. IInv => RebootsIntoNewer
  BY DEF IInv, Decided
<1> QED BY <1>1, Invariance, PTL

LEMMA AtMostOne ==
  ASSUME D!IInv, test_mode = TRUE
  PROVE  Cardinality({p \in Pids : owner[p] = "ota"}) <= 1
<1>1. CASE \E p \in Pids : owner[p] = "ota"
  <2>1. PICK p \in Pids : owner[p] = "ota"
    BY <1>1
  <2>2. {q \in Pids : owner[q] = "ota"} = {p}
    BY <2>1, OnlyOta
  <2>3. Cardinality({p}) = 1
    BY FS_Singleton
  <2> QED BY <2>2, <2>3
<1>2. CASE ~\E p \in Pids : owner[p] = "ota"
  <2>1. {q \in Pids : owner[q] = "ota"} = {}
    BY <1>2
  <2> QED BY <2>1, FS_EmptySet
<1> QED BY <1>1, <1>2

(* ota is at a step of its own exactly as long as a child of the daemon runs *)
(* it, and there are never two such children: what the daemon stores, what   *)
(* the kernel reuses and how ota ends never start it twice or lose it        *)
(* (daemon_sub_process.c:43-83, ota_version.c:165-178).                      *)
THEOREM RunsOnce == Spec => []OneOta
<1>1. IInv => OneOta
  BY AtMostOne DEF IInv, Alike, HasChild, OneOta
<1> QED BY <1>1, Invariance, PTL

(* The daemon that supervises ota keeps what it keeps of any sub-processes:  *)
(* it never waits for a stranger, forgets no child, and leaves none when it  *)
(* ends, although ota reboots the board on its own                           *)
(* (daemon_runner.c:88-107, daemon_sub_process.c:35-147).                    *)
THEOREM SupervisionHolds == Spec => [](D!PidIsChild /\ D!NoStrayChild /\ D!NoChildLeft)
<1>1. D!IInv => D!NoChildLeft
  <2> SUFFICES ASSUME D!IInv, pc.at = "done", NEW p \in Pids, D!IsChild(p) PROVE FALSE
    BY DEF D!NoChildLeft
  <2>1. owner[p] \in D!SubProcesses /\ pid[owner[p]] = p
    BY DEF D!IInv, D!NoStrayChild, D!IsChild
  <2>2. pid[owner[p]] = D!NoPid
    BY <2>1 DEF D!IInv, D!LoopProgress
  <2> QED BY <2>1, <2>2, SupervisionAssumption DEF D!NoPid
<1>2. IInv => D!PidIsChild /\ D!NoStrayChild /\ D!NoChildLeft
  BY <1>1 DEF IInv, D!IInv
<1> QED BY <1>2, Invariance, PTL

(* With the privilege to reboot, an ota that failed too often is not started *)
(* once more, also when it was ota that failed by crashing on a fetch or was *)
(* killed from elsewhere in the middle of an update                          *)
(* (daemon_sub_process.c:52-77).                                             *)
THEOREM RebootInstead == Spec => []D!NoStartAfterReboot
<1>1. D!IInv => D!NoStartAfterReboot
  <2> SUFFICES ASSUME D!IInv, root, NEW p \in Pids, D!IsChild(p)
               PROVE  fail_count[owner[p]] <= MAX_FAIL_COUNT
    BY DEF D!NoStartAfterReboot
  <2>1. owner[p] \in D!SubProcesses /\ pc.at # "rebooted" /\ ~D!Collected(owner[p])
    BY DEF D!IsChild, D!IInv, D!WithinFailures, D!NoStrayChild
  <2> QED BY <2>1 DEF D!IInv, D!WithinFailures, D!Collected
<1> QED BY <1>1, Invariance, PTL DEF IInv

(* A patrol collects an ota that did not exit with 0, and ota does not       *)
(* reboot the board in this step.                                            *)
OtaFailureCollected == D!FailureCollected("ota") /\ pc'.at # "rebooted"

(* Whatever ota, the daemon, the server or a signal does, the failures the   *)
(* daemon has counted for ota rise by one when a patrol collects an ota that *)
(* did not exit with 0, and stay what they are in every other step: no       *)
(* successful check, day of sleep or new start takes them back, and the      *)
(* reboot that ota makes, which takes the table of processes with it, counts *)
(* nothing (daemon_sub_process.c:52-77, ota_version.c:155).                  *)
THEOREM FailuresOfOtaCounted ==
  Spec => [][fail_count'["ota"] = IF OtaFailureCollected /\ fail_count["ota"] <= MAX_FAIL_COUNT
                                  THEN fail_count["ota"] + 1
                                  ELSE fail_count["ota"]]_vars
<1>1. ASSUME IInv, Next
      PROVE  fail_count'["ota"] = IF OtaFailureCollected /\ fail_count["ota"] <= MAX_FAIL_COUNT
                                  THEN fail_count["ota"] + 1
                                  ELSE fail_count["ota"]
  <2>1. CASE D!Run /\ pc'.at # "rebooted"
    <3>1. DP!IInv /\ DP!Next
      BY <1>1, <2>1, SameInvariant, SameSteps DEF IInv, DP!Next
    <3>2. "ota" \in DP!SubProcesses
      BY DEF DP!SubProcesses
    <3>3. fail_count'["ota"] = IF DP!FailureCollected("ota") /\ fail_count["ota"] <= MAX_FAIL_COUNT
                               THEN fail_count["ota"] + 1
                               ELSE fail_count["ota"]
      BY <3>1, <3>2, Supervises, DP!CountsStep
    <3>4. DP!FailureCollected("ota") <=> OtaFailureCollected
      BY <2>1 DEF DP!FailureCollected, D!FailureCollected, OtaFailureCollected
    <3> QED BY <3>3, <3>4
  <2>2. CASE fail_count' = fail_count /\ (owner' = owner \/ pc.at # "check" \/ pc'.at = "rebooted")
    <3>1. ~OtaFailureCollected
      BY <2>2 DEF OtaFailureCollected, D!FailureCollected
    <3> QED BY <2>2, <3>1
  <2>3. CASE DaemonForks
    BY <2>2, <2>3 DEF DaemonForks, D!ForkSucceeds, D!AtStep
  <2>4. CASE DaemonReboots
    BY <2>2, <2>4 DEF DaemonReboots, D!Reboot, D!AtStep
  <2>5. CASE OtaReboots
    <3>1. pc'.at = "rebooted" /\ fail_count' = fail_count
      BY <1>1, <2>5 DEF OtaReboots, IInv, D!IInv, D!TypeOK
    <3> QED BY <2>2, <3>1
  <2>6. CASE OtaCrashes \/ OtaKilled
    BY <2>2, <2>6 DEF OtaCrashes, OtaKilled, D!ChildEnds, D!Dies
  <2>7. CASE UNCHANGED daemonVars \/ D!Sigterm \/ D!Terminated
    BY <2>2, <2>7 DEF daemonVars, D!Sigterm, D!Terminated, D!kernel, D!vars
  <2> QED BY <1>1, <2>1, <2>3, <2>4, <2>5, <2>6, <2>7 DEF Next, Daemon, DaemonRuns, OtaRuns
<1>2. IInv /\ Next =>
        (fail_count'["ota"] = IF OtaFailureCollected /\ fail_count["ota"] <= MAX_FAIL_COUNT
                              THEN fail_count["ota"] + 1
                              ELSE fail_count["ota"])
  BY <1>1
<1> QED BY <1>2, Invariance, PTL DEF Spec

------------------------------------------------------------------------------
(* A release that stays on the server *)

(* How far a check is from its end. *)
StepsLeft(step) ==
  CASE step = "fetch"    -> 6
    [] step = "compare"  -> 5
    [] step = "download" -> 4
    [] step = "transfer" -> 3
    [] step = "verify"   -> 2
    [] step = "reboot"   -> 1
    [] OTHER             -> 0

(* The check that runs has found r wherever it has looked. *)
OnTheWayTo(r) ==
  /\ StepsLeft(ota) > 0
  /\ ota # "fetch" => info = r
  /\ ota \in {"transfer", "verify", "reboot"} => file.release = r

(* What ends a check of a release that is on offer: the fetch, the transfer  *)
(* or the hash fails, the process is killed, the board goes down, or ota may *)
(* not reboot it.                                                            *)
CutShort ==
  \/ ota \in {"fetch", "verify"} /\ ota' = "crashed"
  \/ ota = "transfer" /\ ota' = "sleep"
  \/ ota' = "killed"
  \/ board' # "up"
  \/ ota = "reboot" /\ ~root

(* A step of ota takes a check nearer to its end or begins one, and as long  *)
(* as r is on offer it keeps to r and ends in the reboot or is cut short.    *)
FollowsOffers ==
  ota' # ota =>
    /\ StepsLeft(ota) > 0 => StepsLeft(ota') < StepsLeft(ota)
    /\ StepsLeft(ota) = 0 => ota' \in {"fetch", "off", "killed"}
    /\ \A r \in (Current + 1)..Len(Releases) :
         Offers(r) /\ OnTheWayTo(r) => OnTheWayTo(r)' \/ CutShort

(* A later release is not taken for an old one. *)
LEMMA LaterIsNewer ==
  ASSUME NEW r \in (Current + 1)..Len(Releases)
  PROVE  r \in DOMAIN Releases /\ ~UpToDate(r)
<1>1. DOMAIN Releases = 1..Len(Releases) /\ Len(Releases) \in Nat
  BY OtaAssumption
<1>2. r \in DOMAIN Releases /\ Current < r
  BY <1>1, OtaAssumption
<1>3. /\ Releases[r] \in Nat \X Nat \X Nat
      /\ Releases[Current] \in Nat \X Nat \X Nat
  BY <1>1, <1>2, OtaAssumption
<1>4. Older(Releases[Current], Releases[r])
  BY <1>2, OtaAssumption
<1>5. ~UpToDate(r)
  BY <1>3, <1>4 DEF UpToDate, Older
<1> QED BY <1>2, <1>5

(* The steps of a check by itself. *)
LEMMA CheckFollows ==
  ASSUME OtaTypeOK, CheckUpdate
  PROVE  FollowsOffers
<1> USE DEF FollowsOffers, StepsLeft
<1>1. CASE Fetch
  BY <1>1 DEF Fetch, Offers, OnTheWayTo
<1>2. CASE FetchFails
  BY <1>2 DEF FetchFails, CutShort
<1>3. CASE Compare
  <2>1. ota = "compare" /\ ota' \in {"sleep", "download"} /\ info' = info
    BY <1>3 DEF Compare
  <2>2. ASSUME NEW r \in (Current + 1)..Len(Releases), OnTheWayTo(r)
        PROVE  OnTheWayTo(r)'
    <3>1. info = r
      BY <2>1, <2>2 DEF OnTheWayTo
    <3>2. ota' = "download"
      BY <1>3, <3>1, LaterIsNewer DEF Compare
    <3> QED BY <2>1, <3>1, <3>2 DEF OnTheWayTo
  <2> QED BY <2>1, <2>2
<1>4. CASE Download
  BY <1>4 DEF Download, PartOf, Offers, OnTheWayTo
<1>5. CASE Downloaded
  BY <1>5 DEF Downloaded, AllOf, OnTheWayTo
<1>6. CASE DownloadFails
  BY <1>6 DEF DownloadFails, CutShort
<1>7. CASE Verify
  BY <1>7 DEF Verify, OnTheWayTo
<1>8. CASE VerifyCrashes
  BY <1>8 DEF VerifyCrashes, CutShort
<1>9. CASE DayPasses
  BY <1>9 DEF DayPasses, OnTheWayTo
<1> QED BY <1>1, <1>2, <1>3, <1>4, <1>5, <1>6, <1>7, <1>8, <1>9 DEF CheckUpdate

(* What else can happen to the process of ota. *)
LEMMA OthersFollow ==
  ASSUME OtaTypeOK,
         \/ FetchFails \/ VerifyCrashes \/ Killed \/ Begin \/ OtaReboots
         \/ (RebootFails /\ ~root) \/ DaemonReboots
  PROVE  FollowsOffers
<1> USE DEF FollowsOffers, StepsLeft
<1>1. CASE FetchFails \/ VerifyCrashes
  BY <1>1 DEF FetchFails, VerifyCrashes, CutShort
<1>2. CASE Killed
  BY <1>2 DEF Killed, CutShort, OtaTypeOK, OtaSteps
<1>3. CASE Begin
  BY <1>3 DEF Begin, OnTheWayTo
<1>4. CASE OtaReboots
  BY <1>4 DEF OtaReboots, Reboot, CutShort
<1>5. CASE RebootFails /\ ~root
  BY <1>5 DEF RebootFails, CutShort
<1>6. CASE DaemonReboots
  BY <1>6 DEF DaemonReboots, CutShort, OtaTypeOK, OtaSteps
<1> QED BY <1>1, <1>2, <1>3, <1>4, <1>5, <1>6

(* While a newer release stays on the server, a check finds it at every step *)
(* and ends in the reboot into it, unless the fetch, the transfer or the     *)
(* hash fails, the process is killed or ota may not reboot; each step takes  *)
(* it nearer to the one or the other, and another check begins then, from its first step, *)
(* whatever an earlier one had stored (ota_version.c:109-178).               *)
(* NewReleaseInstalled says in addition that the steps are taken and do not  *)
(* fail for ever.                                                            *)
THEOREM OffersFollowed == Spec => [][FollowsOffers]_vars
<1>1. ASSUME IInv, Next
      PROVE  FollowsOffers
  <2>0. OtaTypeOK
    BY <1>1 DEF IInv
  <2>1. CASE OtaRuns(CheckUpdate /\ ota' # "crashed")
    BY <2>0, <2>1, CheckFollows DEF OtaRuns
  <2>2. CASE OtaRuns(RebootFails /\ ~root) \/ OtaCrashes \/ OtaReboots \/ OtaKilled
             \/ DaemonForks \/ DaemonReboots
    BY <2>0, <2>2, OthersFollow DEF OtaRuns, OtaCrashes, OtaKilled, DaemonForks
  <2>3. CASE UNCHANGED otaVars \/ Publish
    BY <2>3 DEF otaVars, Publish, FollowsOffers
  <2> QED BY <1>1, <2>1, <2>2, <2>3 DEF Next, Daemon, DaemonRuns
<1>2. IInv /\ Next => FollowsOffers
  BY <1>1
<1> QED BY <1>2, Invariance, PTL DEF Spec

===============================================================================
