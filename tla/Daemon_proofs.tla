---------------------------- MODULE Daemon_proofs ----------------------------
(***************************************************************************)
(* Theorems about Daemon, for any list of sub-processes, any process       *)
(* table, any number of foreign processes and any number of tolerated      *)
(* failures.                                                               *)
(***************************************************************************)
EXTENDS Daemon, TLAPS

Steps == {"init", "loop", "check", "reboot", "fork", "exit", "wait", "done", "rebooted"}

------------------------------------------------------------------------------
(* The loop over the sub-processes *)

(* The index of the loops is always that of a sub-process. *)
LEMMA Indices ==
  /\ DOMAIN params = 1..Len(params)
  /\ Len(params) \in Nat \ {0}
  /\ 1 \in DOMAIN params
  /\ \A i \in DOMAIN params : params[i] \in SubProcesses
<1>1. params \in Seq(SubProcesses) /\ params # <<>>
  BY DaemonAssumption
<1>2. DOMAIN params = 1..Len(params) /\ Len(params) \in Nat \ {0}
  BY <1>1
<1> QED BY <1>2 DEF SubProcesses

(* Continue goes on to the next sub-process, or past the loop after the last *)
(* one.                                                                      *)
LEMMA ContinueSteps ==
  ASSUME TypeOK, NEW step \in Steps, NEW after \in Steps, Continue(step, after)
  PROVE  /\ pc' \in [at : Steps, i : DOMAIN params]
         /\ \/ pc'.at = step /\ pc'.i = pc.i + 1
            \/ pc'.at = after /\ pc'.i = 1 /\ pc.i = Len(params)
<1>1. pc.i \in 1..Len(params)
  BY Indices DEF TypeOK
<1>2. CASE pc.i < Len(params)
  <2>1. pc' = [at |-> step, i |-> pc.i + 1]
    BY <1>2 DEF Continue
  <2>2. pc.i + 1 \in DOMAIN params
    BY <1>1, <1>2, Indices
  <2> QED BY <2>1, <2>2
<1>3. CASE ~(pc.i < Len(params))
  <2>1. pc' = [at |-> after, i |-> 1]
    BY <1>3 DEF Continue
  <2>2. pc.i = Len(params)
    BY <1>1, <1>3, Indices
  <2> QED BY <2>1, <2>2, Indices
<1> QED BY <1>2, <1>3

(* Goto keeps the index. *)
LEMMA GotoSteps ==
  ASSUME TypeOK, NEW step \in Steps, Goto(step)
  PROVE  /\ pc' \in [at : Steps, i : DOMAIN params]
         /\ pc'.at = step /\ pc'.i = pc.i
BY DEF TypeOK, Goto, Steps

------------------------------------------------------------------------------
(* Type correctness *)

(* Counting a failure stays within the type of the count. *)
LEMMA SaturatedType ==
  ASSUME NEW n \in 0..(MAX_FAIL_COUNT + 1)
  PROVE  Saturated(n) \in 0..(MAX_FAIL_COUNT + 1)
BY DaemonAssumption DEF Saturated

LEMMA InitTypes == Init => TypeOK
<1> SUFFICES ASSUME Init PROVE TypeOK
  OBVIOUS
<1>1. pc \in [at : Steps, i : DOMAIN params]
  BY Indices DEF Init, Steps
<1>2. fail_count \in [SubProcesses -> 0..(MAX_FAIL_COUNT + 1)]
  BY DaemonAssumption DEF Init
<1> QED BY <1>1, <1>2 DEF Init, TypeOK, Steps, States

LEMMA NextTypes == TypeOK /\ [Next]_vars => TypeOK'
<1> SUFFICES ASSUME TypeOK, [Next]_vars PROVE TypeOK'
  OBVIOUS
<1> USE DEF vars, kernel
<1>1. CASE UNCHANGED vars
  BY <1>1 DEF TypeOK
<1>2. CASE Start
  BY <1>2, GotoSteps DEF Start, TypeOK, Steps
<1>3. CASE Loop
  <2>1. pc' \in [at : Steps, i : DOMAIN params]
    BY <1>3, GotoSteps DEF Loop, Steps
  <2> QED BY <1>3, <2>1 DEF Loop, TypeOK, Steps
<1>4. ASSUME NEW s \in SubProcesses, CheckStart(s)
      PROVE  TypeOK'
  <2>1. CASE CheckRunning(s)
    BY <2>1, ContinueSteps DEF CheckRunning, TypeOK, Steps
  <2>2. CASE CheckAbsent(s)
    BY <2>2, GotoSteps DEF CheckAbsent, TypeOK, Steps
  <2>3. CASE CheckEnded(s)
    <3>1. pc' \in [at : Steps, i : DOMAIN params]
      BY <2>3, GotoSteps DEF CheckEnded, Steps
    <3>2. fail_count' \in [SubProcesses -> 0..(MAX_FAIL_COUNT + 1)]
      BY <2>3, SaturatedType DEF CheckEnded, TypeOK
    <3>3. owner' \in [Pids -> SubProcesses \cup {"nobody", "foreign"}] /\ state' \in [Pids -> States]
      BY <2>3 DEF CheckEnded, Reap, TypeOK, States
    <3> QED BY <2>3, <3>1, <3>2, <3>3 DEF CheckEnded, TypeOK, Steps
  <2>4. CASE Reboot(s)
    <3>1. pc' \in [at : Steps, i : DOMAIN params]
      BY <2>4, GotoSteps DEF Reboot, Steps
    <3>2. owner' \in [Pids -> SubProcesses \cup {"nobody", "foreign"}] /\ state' \in [Pids -> States]
      BY <2>4 DEF Reboot, TypeOK, States
    <3> QED BY <2>4, <3>1, <3>2 DEF Reboot, TypeOK, Steps
  <2>5. CASE ForkSucceeds(s)
    <3>1. pc' \in [at : Steps, i : DOMAIN params]
      BY <2>5, ContinueSteps DEF ForkSucceeds, Steps
    <3>2. PICK p \in Pids : /\ owner' = [owner EXCEPT ![p] = s]
                            /\ state' = [state EXCEPT ![p] = "running"]
                            /\ pid' = [pid EXCEPT ![s] = p]
      BY <2>5 DEF ForkSucceeds
    <3>3. owner' \in [Pids -> SubProcesses \cup {"nobody", "foreign"}] /\ state' \in [Pids -> States]
      BY <1>4, <3>2 DEF TypeOK, States
    <3>4. pid' \in [SubProcesses -> Pids \cup {NoPid}]
      BY <3>2 DEF TypeOK
    <3> QED BY <2>5, <3>1, <3>3, <3>4 DEF ForkSucceeds, TypeOK, Steps
  <2>6. CASE ForkFails(s)
    BY <2>6, ContinueSteps DEF ForkFails, TypeOK, Steps
  <2> QED BY <1>4, <2>1, <2>2, <2>3, <2>4, <2>5, <2>6 DEF CheckStart
<1>5. ASSUME NEW s \in SubProcesses, Exit(s)
      PROVE  TypeOK'
  <2>1. CASE ExitNone(s)
    BY <2>1, ContinueSteps DEF ExitNone, TypeOK, Steps
  <2>2. CASE ExitKill(s)
    <3>1. pc' \in [at : Steps, i : DOMAIN params]
      BY <2>2, GotoSteps DEF ExitKill, Steps
    <3>2. state' \in [Pids -> States]
      BY <2>2 DEF ExitKill, TypeOK, States
    <3> QED BY <2>2, <3>1, <3>2 DEF ExitKill, TypeOK, Steps
  <2>3. CASE ExitWait(s)
    <3>1. pc' \in [at : Steps, i : DOMAIN params]
      BY <2>3, ContinueSteps DEF ExitWait, Steps
    <3>2. owner' \in [Pids -> SubProcesses \cup {"nobody", "foreign"}] /\ state' \in [Pids -> States]
      BY <2>3 DEF ExitWait, Reap, TypeOK, States
    <3> QED BY <2>3, <3>1, <3>2 DEF ExitWait, TypeOK, Steps
  <2> QED BY <1>5, <2>1, <2>2, <2>3 DEF Exit
<1>6. CASE Sigterm
  BY <1>6 DEF Sigterm, TypeOK
<1>7. ASSUME NEW p \in Pids, ChildEnds(p) \/ Dies(p)
      PROVE  TypeOK'
  <2>1. state' \in [Pids -> States]
    BY <1>7 DEF ChildEnds, Dies, TypeOK, States
  <2> QED BY <1>7, <2>1 DEF ChildEnds, Dies, TypeOK
<1>8. ASSUME NEW p \in Pids, ForeignStarts(p) \/ ForeignEnds(p)
      PROVE  TypeOK'
  <2>1. owner' \in [Pids -> SubProcesses \cup {"nobody", "foreign"}] /\ state' \in [Pids -> States]
    BY <1>8 DEF ForeignStarts, ForeignEnds, Reap, TypeOK, States
  <2> QED BY <1>8, <2>1 DEF ForeignStarts, ForeignEnds, TypeOK
<1>9. CASE Terminated
  BY <1>9 DEF Terminated, TypeOK
<1> QED
  BY <1>1, <1>2, <1>3, <1>4, <1>5, <1>6, <1>7, <1>8, <1>9 DEF Next, Run

(* The variables of the daemon and the entries of the process table have     *)
(* their types, for every list of sub-processes and every process table.     *)
THEOREM TypeCorrect == Spec => []TypeOK
<1>1. Init => TypeOK
  BY InitTypes
<1>2. TypeOK /\ [Next]_vars => TypeOK'
  BY NextTypes
<1> QED BY <1>1, <1>2, PTL DEF Spec

------------------------------------------------------------------------------
(* The inductive invariant *)

(* What the names of the process table and the pids are not. *)
LEMMA Apart ==
  /\ NoPid \notin Pids
  /\ "nobody" \notin SubProcesses /\ "foreign" \notin SubProcesses
BY DaemonAssumption DEF NoPid

(* Steps of the daemon that store no pid and leave the process table alone.  *)
LEMMA PcOnly ==
  ASSUME IInv, TypeOK', LoopProgress',
         UNCHANGED <<pid, owner, test_mode, root, fail_count>>,
         pc.at \notin {"reboot", "fork", "rebooted"},
         pc'.at \notin {"reboot", "fork", "rebooted"}
  PROVE  IInv'
<1>1. PidIsChild'
  BY DEF IInv, PidIsChild, Collected
<1>2. NoStrayChild'
  BY DEF IInv, NoStrayChild, Collected, IsChild, Supervised
<1>3. WithinFailures'
  BY DEF IInv, WithinFailures
<1> QED BY <1>1, <1>2, <1>3 DEF IInv

(* How a running or dying child ends changes nothing the daemon relies on.   *)
LEMMA StateOnly ==
  ASSUME IInv, TypeOK', UNCHANGED <<pc, pid, owner, test_mode, root, fail_count>>
  PROVE  IInv'
BY DEF IInv, PidIsChild, Collected, NoStrayChild, IsChild, Supervised, LoopProgress,
       WithinFailures

LEMMA InitInvariant == Init => IInv
<1> SUFFICES ASSUME Init PROVE IInv
  OBVIOUS
<1>1. TypeOK
  BY InitTypes
<1>2. \A p \in Pids : ~IsChild(p)
  BY Apart DEF Init, IsChild
<1>3. NoStrayChild
  BY <1>2 DEF NoStrayChild
<1>4. PidIsChild /\ LoopProgress
  BY DEF Init, PidIsChild, LoopProgress
<1>5. WithinFailures
  BY <1>2, DaemonAssumption DEF Init, WithinFailures
<1> QED BY <1>1, <1>3, <1>4, <1>5 DEF IInv, Init

LEMMA CheckStartInvariant ==
  ASSUME IInv, TypeOK', NEW s \in SubProcesses, CheckStart(s)
  PROVE  IInv'
<1> USE DEF kernel
<1>0. TypeOK
  BY DEF IInv
<1>1. CASE CheckRunning(s)
  <2>1. pc'.at \in {"check", "loop"} /\ (pc'.at = "loop" => pc'.i = 1)
    BY <1>0, <1>1, ContinueSteps DEF CheckRunning, Steps
  <2>2. LoopProgress'
    BY <2>1 DEF LoopProgress
  <2> QED BY <1>1, <2>1, <2>2, PcOnly DEF CheckRunning, AtStep
<1>2. CASE CheckAbsent(s)
  <2>1. pc'.at = "fork" /\ params[pc'.i] = s
    BY <1>0, <1>2, GotoSteps DEF CheckAbsent, AtStep, Steps
  <2>2. UNCHANGED <<pid, owner, test_mode, root, fail_count>> /\ pc.at = "check"
    BY <1>2 DEF CheckAbsent, AtStep
  <2>3. PidIsChild'
    BY <2>1, <2>2 DEF IInv, PidIsChild, Collected
  <2>4. \A p \in Pids : IsChild(p) => owner[p] # s
    BY <1>2 DEF IInv, NoStrayChild, CheckAbsent
  <2>5. NoStrayChild'
    BY <2>1, <2>2, <2>4 DEF IInv, NoStrayChild, Collected, IsChild, Supervised
  <2>6. LoopProgress' /\ WithinFailures'
    BY <2>1, <2>2 DEF IInv, LoopProgress, WithinFailures
  <2>7. Supervised(params[pc.i])'
    BY <1>2, <2>1 DEF CheckAbsent, Supervised
  <2> QED BY <2>3, <2>5, <2>6, <2>7 DEF IInv
<1>3. CASE CheckEnded(s)
  <2>1. pc'.at \in {"reboot", "fork"} /\ params[pc'.i] = s
    BY <1>0, <1>3, GotoSteps DEF CheckEnded, AtStep, Steps
  <2>2. fail_count'[s] > MAX_FAIL_COUNT => pc'.at = "reboot"
    BY <1>0, <1>3, GotoSteps DEF CheckEnded, AtStep, Steps
  <2>3. UNCHANGED <<pid, test_mode, root>> /\ pc.at = "check"
    BY <1>3 DEF CheckEnded, AtStep
  <2>4. pid[s] \in Pids /\ owner[pid[s]] = s
    BY <1>3, <2>3, Apart DEF CheckEnded, IsChild, IInv, PidIsChild, Collected
  <2>5. /\ owner'[pid[s]] = "nobody"
        /\ \A p \in Pids : p # pid[s] => owner'[p] = owner[p]
    BY <1>0, <1>3, <2>4 DEF CheckEnded, Reap, TypeOK
  <2>6. \A p \in Pids : IsChild(p)' => IsChild(p) /\ owner'[p] = owner[p] /\ owner[p] # s
    BY <2>4, <2>5, Apart DEF IsChild, IInv, NoStrayChild
  <2>7. PidIsChild'
    <3> SUFFICES ASSUME NEW r \in SubProcesses, pid[r] # NoPid, ~Collected(r)'
                 PROVE  owner'[pid[r]] = r
      BY <2>3 DEF PidIsChild
    <3>1. r # s
      BY <2>1 DEF Collected
    <3>2. owner[pid[r]] = r /\ pid[r] \in Pids
      BY <1>0, <2>3 DEF IInv, PidIsChild, Collected, TypeOK
    <3> QED BY <2>4, <2>5, <3>1, <3>2
  <2>8. NoStrayChild'
    BY <2>1, <2>3, <2>6 DEF IInv, NoStrayChild, Collected, Supervised
  <2>9. \A r \in SubProcesses : r # s => fail_count'[r] = fail_count[r]
    BY <1>0, <1>3 DEF CheckEnded, TypeOK
  <2>10. fail_count'[s] \in Nat
    BY DaemonAssumption DEF TypeOK
  <2>11. WithinFailures'
    BY <2>1, <2>2, <2>3, <2>9, <2>10, DaemonAssumption DEF IInv, WithinFailures
  <2>12. LoopProgress'
    BY <2>1 DEF LoopProgress
  <2>13. Supervised(params[pc.i])'
    BY <1>3, <2>1, <2>3 DEF CheckEnded, Supervised
  <2> QED BY <2>7, <2>8, <2>11, <2>12, <2>13 DEF IInv
<1>4. CASE Reboot(s) /\ root
  <2>1. pc'.at = "rebooted"
    BY <1>0, <1>4, GotoSteps DEF Reboot, Steps
  <2>2. \A p \in Pids : ~IsChild(p)'
    BY <1>4, Apart DEF Reboot, IsChild
  <2> QED BY <2>1, <2>2 DEF IInv, PidIsChild, NoStrayChild, LoopProgress, WithinFailures
<1>5. CASE Reboot(s) /\ ~root
  <2>1. pc'.at = "fork" /\ pc'.i = pc.i /\ pc.at = "reboot"
    BY <1>0, <1>5, GotoSteps DEF Reboot, AtStep, Steps
  <2>2. UNCHANGED <<pid, owner, test_mode, root, fail_count>>
    BY <1>5 DEF Reboot
  <2>3. PidIsChild' /\ NoStrayChild'
    BY <2>1, <2>2 DEF IInv, PidIsChild, NoStrayChild, Collected, IsChild, Supervised
  <2>4. LoopProgress' /\ WithinFailures'
    BY <1>5, <2>1, <2>2 DEF LoopProgress, WithinFailures
  <2> QED BY <2>1, <2>2, <2>3, <2>4 DEF IInv, Supervised
<1>6. CASE ForkSucceeds(s)
  <2>1. pc'.at \in {"check", "loop"} /\ (pc'.at = "loop" => pc'.i = 1)
    BY <1>0, <1>6, ContinueSteps DEF ForkSucceeds, Steps
  <2>2. pc.at = "fork" /\ params[pc.i] = s /\ UNCHANGED <<test_mode, root, fail_count>>
    BY <1>6 DEF ForkSucceeds, AtStep
  <2>3. PICK p \in Pids : /\ owner[p] = "nobody"
                          /\ owner' = [owner EXCEPT ![p] = s]
                          /\ pid' = [pid EXCEPT ![s] = p]
    BY <1>6 DEF ForkSucceeds
  <2>4. PidIsChild'
    <3> SUFFICES ASSUME NEW r \in SubProcesses, pid'[r] # NoPid
                 PROVE  owner'[pid'[r]] = r
      BY DEF PidIsChild
    <3>1. CASE r = s
      BY <1>0, <2>3, <3>1 DEF TypeOK
    <3>2. CASE r # s
      <4>1. pid'[r] = pid[r] /\ pid[r] \in Pids
        BY <1>0, <2>3, <3>2 DEF TypeOK
      <4>2. owner[pid[r]] = r
        BY <2>2, <3>2, <4>1 DEF IInv, PidIsChild, Collected
      <4> QED BY <1>0, <2>3, <4>1, <4>2, Apart DEF TypeOK
    <3> QED BY <3>1, <3>2
  <2>5. NoStrayChild'
    <3> SUFFICES ASSUME NEW q \in Pids, IsChild(q)'
                 PROVE  pid'[owner'[q]] = q /\ Supervised(owner[q])'
      BY <2>1 DEF NoStrayChild, Collected, Supervised
    <3>1. CASE q = p
      <4>1. owner'[q] = s /\ pid'[s] = q
        BY <1>0, <2>3, <3>1 DEF TypeOK
      <4> QED BY <2>2, <4>1 DEF IInv, Supervised
    <3>2. CASE q # p
      <4>1. owner'[q] = owner[q] /\ IsChild(q)
        BY <1>0, <2>3, <3>2 DEF TypeOK, IsChild
      <4>2. owner[q] # s /\ pid[owner[q]] = q /\ Supervised(owner[q])
        BY <2>2, <4>1 DEF IInv, NoStrayChild, Collected
      <4>3. pid'[owner[q]] = pid[owner[q]]
        BY <1>0, <2>3, <4>1, <4>2 DEF TypeOK, IsChild
      <4> QED BY <2>2, <4>1, <4>2, <4>3 DEF Supervised
    <3> QED BY <3>1, <3>2
  <2>6. LoopProgress' /\ WithinFailures'
    BY <2>1, <2>2 DEF IInv, LoopProgress, WithinFailures
  <2> QED BY <2>1, <2>4, <2>5, <2>6 DEF IInv
<1>7. CASE ForkFails(s)
  <2>1. pc'.at \in {"check", "loop"} /\ (pc'.at = "loop" => pc'.i = 1)
    BY <1>0, <1>7, ContinueSteps DEF ForkFails, Steps
  <2>2. /\ pc.at = "fork" /\ params[pc.i] = s
        /\ UNCHANGED <<owner, test_mode, root, fail_count>>
        /\ pid' = [pid EXCEPT ![s] = NoPid]
    BY <1>7 DEF ForkFails, AtStep
  <2>3. PidIsChild'
    BY <1>0, <2>2 DEF IInv, PidIsChild, Collected, TypeOK
  <2>4. NoStrayChild'
    BY <1>0, <2>1, <2>2 DEF IInv, NoStrayChild, Collected, IsChild, Supervised, TypeOK
  <2>5. LoopProgress' /\ WithinFailures'
    BY <2>1, <2>2 DEF IInv, LoopProgress, WithinFailures
  <2> QED BY <2>1, <2>3, <2>4, <2>5 DEF IInv
<1> QED BY <1>1, <1>2, <1>3, <1>4, <1>5, <1>6, <1>7 DEF CheckStart

(* The exit loop clears the pid of the sub-process it leaves. *)
LEMMA ExitLoop ==
  ASSUME IInv, NEW s \in SubProcesses, AtStep("exit", s) \/ AtStep("wait", s),
         Continue("exit", "done"), pid'[s] = NoPid,
         \A r \in SubProcesses : r # s => pid'[r] = pid[r]
  PROVE  pc'.at \in {"exit", "done"} /\ LoopProgress'
<1>0. TypeOK /\ params[pc.i] = s /\ pc.at \in {"exit", "wait"} /\ pc.i \in 1..Len(params)
  BY Indices DEF IInv, AtStep, TypeOK
<1>1. \A j \in 1..pc.i : pid'[params[j]] = NoPid
  <2> TAKE j \in 1..pc.i
  <2>1. params[j] \in SubProcesses
    BY <1>0, Indices
  <2>2. CASE j = pc.i
    BY <1>0, <2>2
  <2>3. CASE j # pc.i
    <3>1. pid[params[j]] = NoPid
      BY <1>0, <2>3 DEF IInv, LoopProgress
    <3> QED BY <2>1, <3>1
  <2> QED BY <2>2, <2>3
<1>2. \/ pc'.at = "exit" /\ pc'.i = pc.i + 1
      \/ pc'.at = "done" /\ pc'.i = 1 /\ pc.i = Len(params)
  BY <1>0, ContinueSteps DEF Steps
<1>3. CASE pc'.at = "exit" /\ pc'.i = pc.i + 1
  BY <1>0, <1>1, <1>3 DEF LoopProgress
<1>4. CASE pc'.at = "done" /\ pc.i = Len(params)
  <2>1. \A r \in SubProcesses : \E j \in 1..Len(params) : r = params[j]
    BY Indices DEF SubProcesses
  <2> QED BY <1>1, <1>4, <2>1 DEF LoopProgress
<1> QED BY <1>2, <1>3, <1>4

LEMMA ExitInvariant ==
  ASSUME IInv, TypeOK', NEW s \in SubProcesses, Exit(s)
  PROVE  IInv'
<1> USE DEF kernel
<1>0. TypeOK
  BY DEF IInv
<1>1. CASE ExitNone(s)
  <2>1. pc'.at \in {"exit", "done"} /\ LoopProgress'
    BY <1>1, ExitLoop DEF ExitNone
  <2> QED BY <1>1, <2>1, PcOnly DEF ExitNone, AtStep
<1>2. CASE ExitKill(s)
  <2>1. pc'.at = "wait" /\ pc'.i = pc.i /\ pc.at = "exit" /\ pid' = pid
    BY <1>0, <1>2, GotoSteps DEF ExitKill, AtStep, Steps
  <2>2. LoopProgress'
    BY <2>1 DEF IInv, LoopProgress
  <2> QED BY <1>2, <2>1, <2>2, PcOnly DEF ExitKill
<1>3. CASE ExitWait(s)
  <2>1. pid' = [pid EXCEPT ![s] = NoPid] /\ pc.at = "wait" /\ UNCHANGED <<test_mode, root, fail_count>>
    BY <1>3 DEF ExitWait, AtStep
  <2>2. pc'.at \in {"exit", "done"} /\ LoopProgress'
    BY <1>0, <1>3, <2>1, ExitLoop DEF ExitWait, TypeOK
  <2>3. \A p \in Pids : IsChild(p)' => IsChild(p) /\ owner'[p] = owner[p] /\ owner[p] # s
    <3> SUFFICES ASSUME NEW p \in Pids, IsChild(p)'
                 PROVE  IsChild(p) /\ owner'[p] = owner[p] /\ owner[p] # s
      OBVIOUS
    <3>1. CASE IsChild(pid[s])
      <4>1. owner' = [owner EXCEPT ![pid[s]] = "nobody"]
        BY <1>3, <3>1 DEF ExitWait, Reap
      <4>2. p # pid[s] /\ owner'[p] = owner[p] /\ IsChild(p)
        BY <1>0, <3>1, <4>1, Apart DEF IsChild, TypeOK
      <4> QED BY <4>2 DEF IInv, NoStrayChild
    <3>2. CASE ~IsChild(pid[s])
      <4>1. owner' = owner
        BY <1>3, <3>2 DEF ExitWait
      <4> QED BY <3>2, <4>1 DEF IInv, NoStrayChild, IsChild
    <3> QED BY <3>1, <3>2
  <2>4. NoStrayChild'
    BY <1>0, <2>1, <2>2, <2>3 DEF IInv, NoStrayChild, Collected, Supervised, IsChild, TypeOK
  <2>5. PidIsChild'
    <3> SUFFICES ASSUME NEW r \in SubProcesses, pid'[r] # NoPid
                 PROVE  owner'[pid'[r]] = r
      BY DEF PidIsChild
    <3>1. r # s /\ pid'[r] = pid[r] /\ pid[r] \in Pids
      BY <1>0, <2>1 DEF TypeOK
    <3>2. owner[pid[r]] = r
      BY <2>1, <3>1 DEF IInv, PidIsChild, Collected
    <3>3. CASE IsChild(pid[s])
      <4>1. owner' = [owner EXCEPT ![pid[s]] = "nobody"]
        BY <1>3, <3>3 DEF ExitWait, Reap
      <4>2. owner[pid[s]] = s
        BY <2>1, <3>3, Apart DEF IInv, PidIsChild, Collected, IsChild
      <4> QED BY <1>0, <3>1, <3>2, <4>1, <4>2 DEF TypeOK
    <3>4. CASE ~IsChild(pid[s])
      BY <1>3, <3>1, <3>2, <3>4 DEF ExitWait
    <3> QED BY <3>3, <3>4
  <2>6. WithinFailures'
    BY <2>1, <2>2 DEF IInv, WithinFailures
  <2> QED BY <2>2, <2>4, <2>5, <2>6 DEF IInv
<1> QED BY <1>1, <1>2, <1>3 DEF Exit

LEMMA ForeignInvariant ==
  ASSUME IInv, TypeOK', NEW p \in Pids, ForeignStarts(p) \/ ForeignEnds(p)
  PROVE  IInv'
<1>1. /\ UNCHANGED <<pc, test_mode, root, pid, fail_count>>
      /\ owner[p] \in {"nobody", "foreign"} /\ owner'[p] \in {"nobody", "foreign"}
      /\ \A q \in Pids : q # p => owner'[q] = owner[q]
  BY DEF ForeignStarts, ForeignEnds, Reap, IInv, TypeOK
<1>2. \A q \in Pids : IsChild(q)' => IsChild(q) /\ owner'[q] = owner[q]
  BY <1>1, Apart DEF IsChild
<1>3. PidIsChild'
  <2> SUFFICES ASSUME pc.at # "rebooted", NEW s \in SubProcesses, pid[s] # NoPid, ~Collected(s)
               PROVE  owner'[pid[s]] = s
    BY <1>1 DEF PidIsChild, Collected
  <2>1. owner[pid[s]] = s /\ pid[s] \in Pids
    BY DEF IInv, PidIsChild, TypeOK
  <2> QED BY <1>1, <2>1, Apart
<1>4. NoStrayChild' /\ WithinFailures' /\ LoopProgress'
  BY <1>1, <1>2 DEF IInv, NoStrayChild, WithinFailures, LoopProgress, Collected, Supervised
<1> QED BY <1>1, <1>3, <1>4 DEF IInv, Supervised

LEMMA NextInvariant == IInv /\ [Next]_vars => IInv'
<1> SUFFICES ASSUME IInv, [Next]_vars PROVE IInv'
  OBVIOUS
<1> USE DEF vars, kernel
<1>0. TypeOK /\ TypeOK'
  BY NextTypes DEF IInv
<1>1. CASE UNCHANGED vars
  BY <1>0, <1>1, StateOnly
<1>2. CASE Start
  <2>1. pc'.at \in {"loop", "done"} /\ pc'.i = pc.i /\ pc.at = "init"
    BY <1>0, <1>2, GotoSteps DEF Start, Steps
  <2>2. LoopProgress'
    BY <1>2, <2>1 DEF Start, IInv, LoopProgress
  <2> QED BY <1>0, <1>2, <2>1, <2>2, PcOnly DEF Start
<1>3. CASE Loop
  <2>1. pc'.at \in {"check", "exit"} /\ pc'.i = pc.i /\ pc.at = "loop" /\ pc.i = 1
    BY <1>0, <1>3, GotoSteps DEF Loop, Steps, IInv, LoopProgress
  <2>2. LoopProgress'
    BY <2>1 DEF LoopProgress
  <2> QED BY <1>0, <1>3, <2>1, <2>2, PcOnly DEF Loop
<1>4. CASE Sigterm
  BY <1>0, <1>4, StateOnly DEF Sigterm
<1>5. ASSUME NEW p \in Pids, ChildEnds(p) \/ Dies(p)
      PROVE  IInv'
  BY <1>0, <1>5, StateOnly DEF ChildEnds, Dies
<1>6. CASE Terminated
  BY <1>0, <1>6, StateOnly DEF Terminated
<1> QED
  BY <1>0, <1>1, <1>2, <1>3, <1>4, <1>5, <1>6, CheckStartInvariant, ExitInvariant,
     ForeignInvariant DEF Next, Run

------------------------------------------------------------------------------
(* The theorems *)

(* The pids the daemon stores and the process table agree at every step of   *)
(* its loops.                                                                *)
THEOREM Invariance == Spec => []IInv
<1>1. Init => IInv
  BY InitInvariant
<1>2. IInv /\ [Next]_vars => IInv'
  BY NextInvariant
<1> QED BY <1>1, <1>2, PTL DEF Spec

(* The daemon waits for and kills its own children only, however the kernel  *)
(* reuses pids.                                                              *)
THEOREM OwnChildrenOnly == Spec => []PidIsChild
<1>1. IInv => PidIsChild
  BY DEF IInv
<1> QED BY <1>1, Invariance, PTL

(* There is at most one process of each sub-process, the one the daemon      *)
(* knows; none of an unsupervised one.                                       *)
THEOREM NoStrays == Spec => []NoStrayChild
<1>1. IInv => NoStrayChild
  BY DEF IInv
<1> QED BY <1>1, Invariance, PTL

(* With the privilege to reboot, what failed too often never runs again.     *)
THEOREM RebootInstead == Spec => []NoStartAfterReboot
<1>1. IInv => NoStartAfterReboot
  <2> SUFFICES ASSUME IInv, root, NEW p \in Pids, IsChild(p)
               PROVE  fail_count[owner[p]] <= MAX_FAIL_COUNT
    BY DEF NoStartAfterReboot
  <2>1. owner[p] \in SubProcesses /\ pc.at # "rebooted" /\ ~Collected(owner[p])
    BY DEF IsChild, IInv, WithinFailures, NoStrayChild
  <2> QED BY <2>1 DEF IInv, WithinFailures, Collected
<1> QED BY <1>1, Invariance, PTL

(* A daemon that ends leaves no child behind.                                *)
THEOREM CleanExit == Spec => []NoChildLeft
<1>1. IInv => NoChildLeft
  <2> SUFFICES ASSUME IInv, pc.at = "done", NEW p \in Pids, IsChild(p)
               PROVE  FALSE
    BY DEF NoChildLeft
  <2>1. owner[p] \in SubProcesses /\ pid[owner[p]] = p
    BY DEF IsChild, IInv, NoStrayChild
  <2>2. pid[owner[p]] = NoPid
    BY <2>1 DEF IInv, LoopProgress
  <2> QED BY <2>1, <2>2, Apart
<1> QED BY <1>1, Invariance, PTL

(* Only CheckEnded takes a child from the table of processes in a patrol,    *)
(* and it is that of the sub-process which is checked.                       *)
LEMMA CollectsOwn ==
  ASSUME IInv, [Next]_vars, NEW s \in SubProcesses, NEW p \in Pids,
         owner[p] = s, owner'[p] = "nobody", pc.at = "check"
  PROVE  CheckEnded(s) /\ p = pid[s]
<1>0. TypeOK
  BY DEF IInv
<1>1. PICK r \in SubProcesses : CheckEnded(r)
  <2>1. owner' # owner
    BY Apart
  <2>2. \A q \in Pids : ~ForeignStarts(q) /\ ~ForeignEnds(q)
    BY <1>0, Apart DEF ForeignStarts, ForeignEnds, Reap, TypeOK
  <2>3. \A r \in SubProcesses : ~Exit(r) /\ (CheckStart(r) => CheckEnded(r))
    BY <2>1 DEF Exit, ExitNone, ExitKill, ExitWait, CheckStart, CheckRunning, CheckAbsent,
       Reboot, ForkSucceeds, ForkFails, AtStep, kernel
  <2>4. /\ ~Start /\ ~Loop /\ ~Sigterm /\ ~Terminated /\ vars' # vars
        /\ \A q \in Pids : ~ChildEnds(q) /\ ~Dies(q)
    BY <2>1 DEF Start, Loop, Sigterm, Terminated, ChildEnds, Dies, kernel, vars
  <2> QED BY <2>2, <2>3, <2>4 DEF Next, Run
<1>2. p = pid[r]
  BY <1>0, <1>1, Apart DEF CheckEnded, Reap, TypeOK
<1>3. owner[pid[r]] = r
  BY <1>1, <1>2, Apart DEF IInv, PidIsChild, Collected, CheckEnded, IsChild
<1>4. r = s
  BY <1>2, <1>3
<1> QED BY <1>1, <1>2, <1>4

(* What a step does to the count of a sub-process. *)
LEMMA CountsStep ==
  ASSUME IInv, [Next]_vars, NEW s \in SubProcesses
  PROVE  fail_count'[s] = IF FailureCollected(s) /\ fail_count[s] <= MAX_FAIL_COUNT
                          THEN fail_count[s] + 1
                          ELSE fail_count[s]
<1>0. TypeOK /\ fail_count[s] \in Nat /\ MAX_FAIL_COUNT \in Nat
  BY DaemonAssumption DEF IInv, TypeOK
<1>1. CASE CheckEnded(s)
  <2>1. fail_count'[s] = IF state[pid[s]] = "exited" THEN fail_count[s]
                                                     ELSE Saturated(fail_count[s])
    BY <1>0, <1>1 DEF CheckEnded, TypeOK
  <2>2. pc.at = "check" /\ pid[s] \in Pids /\ owner'[pid[s]] = "nobody"
    BY <1>0, <1>1 DEF CheckEnded, AtStep, IsChild, Reap, TypeOK
  <2>3. owner[pid[s]] = s
    BY <1>1, <2>2, Apart DEF IInv, PidIsChild, Collected, CheckEnded, IsChild
  <2>4. FailureCollected(s) <=> state[pid[s]] # "exited"
    BY <2>2, <2>3, CollectsOwn DEF FailureCollected
  <2> QED BY <1>0, <2>1, <2>4 DEF Saturated
<1>2. CASE ~CheckEnded(s)
  <2>1. ~FailureCollected(s)
    BY <1>2, CollectsOwn DEF FailureCollected
  <2>2. ASSUME NEW r \in SubProcesses, CheckEnded(r)
        PROVE  fail_count'[s] = fail_count[s]
    BY <1>0, <1>2, <2>2 DEF CheckEnded, TypeOK
  <2>3. ASSUME NEW r \in SubProcesses, CheckStart(r) \/ Exit(r), ~CheckEnded(r)
        PROVE  fail_count' = fail_count
    BY <2>3 DEF Exit, ExitNone, ExitKill, ExitWait, CheckStart, CheckRunning, CheckAbsent,
       Reboot, ForkSucceeds, ForkFails
  <2>4. ASSUME \/ Start \/ Loop \/ Sigterm \/ Terminated \/ UNCHANGED vars
               \/ \E p \in Pids : ChildEnds(p) \/ Dies(p) \/ ForeignStarts(p) \/ ForeignEnds(p)
        PROVE  fail_count' = fail_count
    BY <2>4 DEF Start, Loop, Sigterm, Terminated, ChildEnds, Dies, ForeignStarts, ForeignEnds, vars
  <2>5. fail_count'[s] = fail_count[s]
    BY <2>2, <2>3, <2>4 DEF Next, Run
  <2> QED BY <2>1, <2>5
<1> QED BY <1>1, <1>2

(* Failures are counted when a patrol collects them, whatever the way in     *)
(* which a child ended, each as one, as long as the count has not reached    *)
(* its end; and no other step, be it one of the daemon, of the kernel or of  *)
(* another process, changes the count (daemon_sub_process.c:52-77).          *)
THEOREM FailuresCounted == Spec => CountsEveryFailure
<1>1. IInv /\ [Next]_vars =>
        [\A s \in SubProcesses :
           fail_count'[s] = IF FailureCollected(s) /\ fail_count[s] <= MAX_FAIL_COUNT
                            THEN fail_count[s] + 1
                            ELSE fail_count[s]]_vars
  BY CountsStep
<1> QED BY <1>1, Invariance, PTL DEF Spec, CountsEveryFailure

------------------------------------------------------------------------------
(* What SIGTERM leads to, but for the scheduling *)

(* A child is somewhere in its life, and the one that the exit loop waits    *)
(* for has been killed or had ended.                                         *)
Settled ==
  /\ \A p \in Pids : IsChild(p) => state[p] # "none"
  /\ pc.at = "wait" => pid[params[pc.i]] # NoPid /\ state[pid[params[pc.i]]] # "running"

LEMMA SettledStep ==
  ASSUME IInv, Settled, [Next]_vars
  PROVE  Settled'
<1> USE DEF vars, kernel
<1>0. TypeOK /\ IInv'
  BY NextInvariant DEF IInv
<1>1. CASE UNCHANGED <<owner, state>> /\ pc'.at # "wait"
  BY <1>1 DEF Settled, IsChild
<1>2. CASE UNCHANGED <<pc, pid, owner, state>>
  BY <1>2 DEF Settled, IsChild
<1>3. CASE Start \/ Loop
  BY <1>0, <1>1, <1>3, GotoSteps DEF Start, Loop, Steps
<1>4. ASSUME NEW s \in SubProcesses, CheckStart(s)
      PROVE  Settled'
  <2>1. pc'.at # "wait"
    BY <1>0, <1>4, ContinueSteps, GotoSteps
       DEF CheckStart, CheckRunning, CheckAbsent, CheckEnded, Reboot, ForkSucceeds, ForkFails, Steps
  <2>2. CASE CheckRunning(s) \/ CheckAbsent(s) \/ ForkFails(s)
    BY <1>1, <2>1, <2>2 DEF CheckRunning, CheckAbsent, ForkFails
  <2>3. CASE CheckEnded(s)
    BY <1>0, <2>1, <2>3, Apart DEF CheckEnded, Reap, Settled, IsChild, TypeOK
  <2>4. CASE Reboot(s)
    BY <2>1, <2>4, Apart DEF Reboot, Settled, IsChild
  <2>5. CASE ForkSucceeds(s)
    BY <1>0, <2>1, <2>5 DEF ForkSucceeds, Settled, IsChild, TypeOK
  <2> QED BY <1>4, <2>2, <2>3, <2>4, <2>5 DEF CheckStart
<1>5. ASSUME NEW s \in SubProcesses, Exit(s)
      PROVE  Settled'
  <2>1. CASE ExitNone(s)
    <3>1. pc'.at # "wait"
      BY <1>0, <2>1, ContinueSteps DEF ExitNone, Steps
    <3> QED BY <1>1, <2>1, <3>1 DEF ExitNone
  <2>2. CASE ExitKill(s)
    <3>1. pc'.at = "wait" /\ pc'.i = pc.i /\ pid' = pid /\ params[pc.i] = s /\ pid[s] \in Pids
          /\ owner' = owner
      BY <1>0, <2>2, GotoSteps DEF ExitKill, AtStep, Steps, TypeOK
    <3>2. state'[pid[s]] # "running" /\ \A p \in Pids : state[p] # "none" => state'[p] # "none"
      BY <1>0, <2>2, <3>1 DEF ExitKill, TypeOK
    <3> QED BY <3>1, <3>2, Apart DEF Settled, IsChild
  <2>3. CASE ExitWait(s)
    <3>1. pc'.at # "wait"
      BY <1>0, <2>3, ContinueSteps DEF ExitWait, Steps
    <3>2. \A p \in Pids : IsChild(p)' => state'[p] # "none"
      BY <1>0, <2>3, Apart DEF ExitWait, Reap, Settled, IsChild, TypeOK
    <3> QED BY <3>1, <3>2 DEF Settled
  <2> QED BY <1>5, <2>1, <2>2, <2>3 DEF Exit
<1>6. CASE Sigterm \/ Terminated
  BY <1>2, <1>6 DEF Sigterm, Terminated
<1>7. ASSUME NEW p \in Pids, ChildEnds(p) \/ Dies(p)
      PROVE  Settled'
  <2>1. UNCHANGED <<pc, pid, owner>> /\ \A q \in Pids : state'[q] = state[q] \/ state'[q] \in {"exited", "failed", "signaled"}
    BY <1>0, <1>7 DEF ChildEnds, Dies, TypeOK
  <2>2. pc.at = "wait" => pid[params[pc.i]] \in Pids
    BY <1>0, Indices DEF Settled, TypeOK
  <2> QED BY <2>1, <2>2 DEF Settled, IsChild
<1>8. ASSUME NEW p \in Pids, ForeignStarts(p) \/ ForeignEnds(p)
      PROVE  Settled'
  <2>1. /\ UNCHANGED <<pc, pid>> /\ owner[p] \in {"nobody", "foreign"} /\ owner'[p] \in {"nobody", "foreign"}
        /\ \A q \in Pids : q # p => owner'[q] = owner[q] /\ state'[q] = state[q]
    BY <1>0, <1>8 DEF ForeignStarts, ForeignEnds, Reap, TypeOK
  <2>2. pc.at = "wait" => pid[params[pc.i]] \in Pids /\ owner[pid[params[pc.i]]] = params[pc.i]
    BY <1>0, Indices DEF Settled, TypeOK, IInv, PidIsChild, Collected
  <2>3. params[pc.i] \in SubProcesses
    BY <1>0, Indices DEF TypeOK
  <2> QED BY <2>1, <2>2, <2>3, Apart DEF Settled, IsChild
<1> QED BY <1>2, <1>3, <1>4, <1>5, <1>6, <1>7, <1>8 DEF Next, Run

(* What waitpid blocks on after SIGTERM is a child that has been killed or   *)
(* has ended, however it was started, how often and by whom its pid had been *)
(* used before: the wait is over once the kernel has done what was asked of  *)
(* it (daemon_sub_process.c:125-147).                                        *)
THEOREM WaitsForTheKilled ==
  Spec => [](pc.at = "wait" =>
               \E p \in Pids : /\ pid[params[pc.i]] = p /\ IsChild(p)
                               /\ state[p] = "killed" \/ Zombie(p))
<1>1. Init => Settled
  BY Apart DEF Init, Settled, IsChild
<1>2. IInv /\ Settled /\ pc.at = "wait" =>
        \E p \in Pids : /\ pid[params[pc.i]] = p /\ IsChild(p)
                        /\ state[p] = "killed" \/ Zombie(p)
  <2> SUFFICES ASSUME IInv, Settled, pc.at = "wait"
               PROVE  \E p \in Pids : /\ pid[params[pc.i]] = p /\ IsChild(p)
                                      /\ state[p] = "killed" \/ Zombie(p)
    OBVIOUS
  <2>1. params[pc.i] \in SubProcesses
    BY Indices DEF IInv, TypeOK
  <2>2. pid[params[pc.i]] \in Pids /\ owner[pid[params[pc.i]]] = params[pc.i]
    BY <2>1 DEF Settled, IInv, TypeOK, PidIsChild, Collected
  <2>3. state[pid[params[pc.i]]] \in States \ {"none", "running"}
    BY <2>1, <2>2 DEF Settled, IInv, TypeOK, IsChild
  <2> QED BY <2>1, <2>2, <2>3 DEF IsChild, Zombie, States
<1>3. IInv /\ Settled /\ [Next]_vars => Settled'
  BY SettledStep
<1> QED BY <1>1, <1>2, <1>3, Invariance, PTL DEF Spec

(* The steps the daemon takes at most before it ends, once is_running is 0:  *)
(* three for each sub-process the patrol has not passed, two for each one    *)
(* the exit loop has not.                                                    *)
StepsLeft ==
  LET n == Len(params)
      toExit == 2 * n + 1
  IN CASE pc.at = "init"   -> toExit + 3 * n + 1
       [] pc.at = "check"  -> toExit + 3 * (n - pc.i) + 3
       [] pc.at = "reboot" -> toExit + 3 * (n - pc.i) + 2
       [] pc.at = "fork"   -> toExit + 3 * (n - pc.i) + 1
       [] pc.at = "loop"   -> toExit
       [] pc.at = "exit"   -> 2 * (n - pc.i) + 2
       [] pc.at = "wait"   -> 2 * (n - pc.i) + 1
       [] OTHER            -> 0

CountsDown ==
  LET n == Len(params)
  IN /\ pc.at = "init"   => StepsLeft = 5 * n + 2
     /\ pc.at = "check"  => StepsLeft = 5 * n - 3 * pc.i + 4
     /\ pc.at = "reboot" => StepsLeft = 5 * n - 3 * pc.i + 3
     /\ pc.at = "fork"   => StepsLeft = 5 * n - 3 * pc.i + 2
     /\ pc.at = "loop"   => StepsLeft = 2 * n + 1
     /\ pc.at = "exit"   => StepsLeft = 2 * n - 2 * pc.i + 2
     /\ pc.at = "wait"   => StepsLeft = 2 * n - 2 * pc.i + 1
     /\ pc.at \in {"done", "rebooted"} => StepsLeft = 0

LEMMA StepsLeftAt == TypeOK => CountsDown
<1> SUFFICES ASSUME TypeOK PROVE CountsDown
  OBVIOUS
<1>1. Len(params) \in Nat /\ pc.i \in 1..Len(params)
  BY Indices DEF TypeOK
<1> DEFINE n == Len(params)
<1>2. n \in Nat /\ pc.i \in Nat
  BY <1>1
<1> QED BY <1>2 DEF CountsDown, StepsLeft

LEMMA StepsLeftAtNext == TypeOK' => CountsDown'
BY StepsLeftAt, PTL

(* Once SIGTERM has arrived every step of the daemon brings its end nearer,  *)
(* in whichever loop it arrived, and nothing else that happens, a foreign    *)
(* process or a child that dies, takes it further away: it cannot patrol     *)
(* again or go round the exit loop for ever (daemon_runner.c:88-107).        *)
THEOREM SigtermCountsDown ==
  Spec => [][~is_running => /\ ~is_running'
                            /\ Run => StepsLeft' \in 0..(StepsLeft - 1)
                            /\ ~Run => StepsLeft' = StepsLeft]_vars
<1>1. ASSUME IInv, Next, ~is_running
      PROVE  /\ ~is_running'
             /\ Run => StepsLeft' \in 0..(StepsLeft - 1)
             /\ ~Run => StepsLeft' = StepsLeft
  <2> USE DEF kernel
  <2>0. /\ TypeOK /\ Len(params) \in Nat \ {0} /\ pc.i \in 1..Len(params) /\ pc.at \in Steps
        /\ (pc.at = "loop" => pc.i = 1) /\ TypeOK'
    BY <1>1, Indices, NextInvariant DEF IInv, TypeOK, Steps, LoopProgress
  <2>1. ~is_running'
    BY <1>1 DEF Next, Run, Start, Loop, CheckStart, CheckRunning, CheckAbsent, CheckEnded, Reboot,
       ForkSucceeds, ForkFails, Exit, ExitNone, ExitKill, ExitWait, Sigterm, ChildEnds, Dies,
       ForeignStarts, ForeignEnds, Terminated, vars
  <2>2. ASSUME ~Run
        PROVE  pc' = pc
    BY <1>1, <2>2 DEF Next, Sigterm, ChildEnds, Dies, ForeignStarts, ForeignEnds, Terminated, vars
  <2>3. CASE Start
    <3>1. pc'.at \in {"loop", "done"} /\ pc'.i = pc.i /\ pc.at = "init"
      BY <2>0, <2>3, GotoSteps DEF Start, Steps
    <3> QED BY <2>0, <2>1, <2>2, <2>3, <3>1 DEF StepsLeft, Run
  <2>4. CASE Loop
    <3>1. pc'.at = "exit" /\ pc'.i = pc.i /\ pc.at = "loop"
      BY <1>1, <2>0, <2>4, GotoSteps DEF Loop, Steps
    <3> QED BY <2>0, <2>1, <2>4, <3>1 DEF StepsLeft, Run
  <2>5. ASSUME NEW s \in SubProcesses, CheckStart(s)
        PROVE  StepsLeft' \in 0..(StepsLeft - 1)
    <3>1. CASE CheckRunning(s) \/ ForkSucceeds(s) \/ ForkFails(s)
      <4>1. pc.at \in {"check", "fork"} /\ pc' \in [at : Steps, i : DOMAIN params]
            /\ \/ pc'.at = "check" /\ pc'.i = pc.i + 1
               \/ pc'.at = "loop" /\ pc'.i = 1 /\ pc.i = Len(params)
        BY <2>0, <3>1, ContinueSteps DEF CheckRunning, ForkSucceeds, ForkFails, AtStep, Steps
      <4>2. pc'.i \in 1..Len(params)
        BY <4>1, Indices
      <4>3. StepsLeft \in Int /\ StepsLeft >= 5 * Len(params) - 3 * pc.i + 2
        BY <2>0, <4>1, StepsLeftAt DEF CountsDown
      <4>4. CASE pc'.at = "check" /\ pc'.i = pc.i + 1
        <5>1. StepsLeft' = 5 * Len(params) - 3 * (pc.i + 1) + 4
          BY <2>0, <4>4, StepsLeftAtNext DEF CountsDown
        <5>2. pc.i \in Int /\ Len(params) \in Int /\ 1 <= pc.i /\ pc.i + 1 <= Len(params)
          BY <2>0, <4>2, <4>4
        <5> QED BY <4>3, <5>1, <5>2
      <4>5. CASE pc'.at = "loop" /\ pc.i = Len(params)
        <5>1. StepsLeft' = 2 * Len(params) + 1
          BY <2>0, <4>5, StepsLeftAtNext DEF CountsDown
        <5> QED BY <2>0, <4>3, <4>5, <5>1
      <4> QED BY <4>1, <4>4, <4>5
    <3>2. CASE CheckAbsent(s) \/ CheckEnded(s) \/ Reboot(s)
      <4>1. pc'.i = pc.i /\ \/ pc.at = "check" /\ pc'.at \in {"reboot", "fork"}
                            \/ pc.at = "reboot" /\ pc'.at \in {"rebooted", "fork"}
        BY <2>0, <3>2, GotoSteps DEF CheckAbsent, CheckEnded, Reboot, AtStep, Steps
      <4> QED BY <2>0, <4>1, StepsLeftAt, StepsLeftAtNext DEF CountsDown
    <3> QED BY <2>5, <3>1, <3>2 DEF CheckStart
  <2>6. ASSUME NEW s \in SubProcesses, Exit(s)
        PROVE  StepsLeft' \in 0..(StepsLeft - 1)
    <3>1. CASE ExitNone(s) \/ ExitWait(s)
      <4>1. pc.at \in {"exit", "wait"} /\ pc' \in [at : Steps, i : DOMAIN params]
            /\ \/ pc'.at = "exit" /\ pc'.i = pc.i + 1
               \/ pc'.at = "done" /\ pc'.i = 1 /\ pc.i = Len(params)
        BY <2>0, <3>1, ContinueSteps DEF ExitNone, ExitWait, AtStep, Steps
      <4>2. pc'.i \in 1..Len(params)
        BY <4>1, Indices
      <4>3. StepsLeft \in Int /\ StepsLeft >= 2 * Len(params) - 2 * pc.i + 1
        BY <2>0, <4>1, StepsLeftAt DEF CountsDown
      <4>4. CASE pc'.at = "exit" /\ pc'.i = pc.i + 1
        <5>1. StepsLeft' = 2 * Len(params) - 2 * (pc.i + 1) + 2
          BY <2>0, <4>4, StepsLeftAtNext DEF CountsDown
        <5>2. pc.i \in Int /\ Len(params) \in Int /\ 1 <= pc.i /\ pc.i + 1 <= Len(params)
          BY <2>0, <4>2, <4>4
        <5> QED BY <4>3, <5>1, <5>2
      <4>5. CASE pc'.at = "done" /\ pc.i = Len(params)
        <5>1. StepsLeft' = 0
          BY <2>0, <4>5, StepsLeftAtNext DEF CountsDown
        <5> QED BY <2>0, <4>3, <4>5, <5>1
      <4> QED BY <4>1, <4>4, <4>5
    <3>2. CASE ExitKill(s)
      <4>1. pc'.i = pc.i /\ pc.at = "exit" /\ pc'.at = "wait"
        BY <2>0, <3>2, GotoSteps DEF ExitKill, AtStep, Steps
      <4> QED BY <2>0, <4>1, StepsLeftAt, StepsLeftAtNext DEF CountsDown
    <3> QED BY <2>6, <3>1, <3>2 DEF Exit
  <2>7. CASE ~Run
    BY <2>1, <2>2, <2>7 DEF StepsLeft
  <2> QED BY <2>1, <2>3, <2>4, <2>5, <2>6, <2>7 DEF Run
<1> QED BY <1>1, Invariance, PTL DEF Spec

------------------------------------------------------------------------------
(* What a patrol leaves behind *)

(* Nobody is killed before the exit loop. *)
Unkilled ==
  pc.at \notin {"exit", "wait", "done"} =>
    \A p \in Pids : IsChild(p) => state[p] # "killed"

LEMMA UnkilledStep ==
  ASSUME IInv, Unkilled, [Next]_vars
  PROVE  Unkilled'
<1> USE DEF vars, kernel
<1>0. TypeOK
  BY DEF IInv
<1>1. CASE pc'.at \in {"exit", "wait", "done"}
  BY <1>1 DEF Unkilled
<1>2. ASSUME UNCHANGED <<owner, state>>, pc.at \notin {"exit", "wait", "done"}
      PROVE  Unkilled'
  BY <1>2 DEF Unkilled, IsChild
<1>3. CASE UNCHANGED <<pc, owner, state>>
  BY <1>3 DEF Unkilled, IsChild
<1>4. CASE Start \/ Loop
  BY <1>2, <1>4 DEF Start, Loop
<1>5. ASSUME NEW s \in SubProcesses, CheckStart(s)
      PROVE  Unkilled'
  <2>0. pc.at \in {"check", "fork", "reboot"}
    BY <1>5 DEF CheckStart, CheckRunning, CheckAbsent, CheckEnded, Reboot, ForkSucceeds, ForkFails,
                AtStep
  <2>1. CASE CheckRunning(s) \/ CheckAbsent(s) \/ ForkFails(s)
    BY <1>2, <2>0, <2>1 DEF CheckRunning, CheckAbsent, ForkFails
  <2>2. CASE CheckEnded(s)
    <3>1. state' = [state EXCEPT ![pid[s]] = "none"] /\ owner' = [owner EXCEPT ![pid[s]] = "nobody"]
      BY <2>2 DEF CheckEnded, Reap
    <3> QED BY <1>0, <2>0, <3>1, Apart DEF Unkilled, IsChild, TypeOK
  <2>3. CASE Reboot(s)
    BY <1>2, <2>0, <2>3 DEF Reboot, Unkilled
  <2>4. CASE ForkSucceeds(s)
    <3>1. PICK p \in Pids : /\ state' = [state EXCEPT ![p] = "running"]
                            /\ owner' = [owner EXCEPT ![p] = s]
      BY <2>4 DEF ForkSucceeds
    <3> QED BY <1>0, <2>0, <3>1 DEF Unkilled, IsChild, TypeOK
  <2> QED BY <1>5, <2>1, <2>2, <2>3, <2>4 DEF CheckStart
<1>6. ASSUME NEW s \in SubProcesses, Exit(s)
      PROVE  Unkilled'
  <2>1. CASE ExitKill(s)
    BY <1>0, <1>1, <2>1, GotoSteps DEF ExitKill, Steps
  <2>2. CASE ExitNone(s) \/ ExitWait(s)
    BY <1>0, <1>1, <2>2, ContinueSteps DEF ExitNone, ExitWait, Steps
  <2> QED BY <1>6, <2>1, <2>2 DEF Exit
<1>7. ASSUME NEW p \in Pids, ChildEnds(p) \/ Dies(p) \/ ForeignStarts(p) \/ ForeignEnds(p)
      PROVE  Unkilled'
  <2>1. /\ pc' = pc /\ state'[p] # "killed"
        /\ \A q \in Pids : q # p => state'[q] = state[q] /\ owner'[q] = owner[q]
    BY <1>0, <1>7 DEF ChildEnds, Dies, ForeignStarts, ForeignEnds, Reap, TypeOK
  <2> QED BY <2>1 DEF Unkilled, IsChild
<1>8. CASE Sigterm \/ Terminated \/ UNCHANGED vars
  BY <1>3, <1>8 DEF Sigterm, Terminated
<1> QED BY <1>4, <1>5, <1>6, <1>7, <1>8 DEF Next, Run

(* The patrol is done with s. *)
Passes(s) ==
  /\ pc.at \in {"check", "fork"} /\ params[pc.i] = s
  /\ pc'.at = "loop" \/ pc'.i # pc.i

RestartsWhomItPasses ==
  \A s \in SubProcesses :
    Passes(s) /\ Supervised(s) => Runs(s)' \/ ForkFails(s)

(* A patrol is done with a sub-process only when it runs, or when fork has   *)
(* failed: one that exited, failed or was killed at any moment before the    *)
(* daemon looked at it has been started again, and a stored pid that another *)
(* process was given meanwhile is not taken for it                           *)
(* (daemon_sub_process.c:35-83, README.md:113).  Restarted says in addition  *)
(* that the daemon comes round and that fork succeeds in the end.            *)
THEOREM PatrolRestarts == Spec => [][RestartsWhomItPasses]_vars
<1>1. Init => Settled /\ Unkilled
  BY Apart DEF Init, Settled, Unkilled, IsChild
<1>2. IInv /\ Settled /\ Unkilled /\ [Next]_vars => Settled' /\ Unkilled'
  BY SettledStep, UnkilledStep
<1>3. IInv /\ Settled /\ Unkilled /\ [Next]_vars => [RestartsWhomItPasses]_vars
  <2> SUFFICES ASSUME IInv, Settled, Unkilled, Next, NEW s \in SubProcesses,
                      Passes(s), Supervised(s), ~ForkFails(s)
               PROVE  Runs(s)'
    BY DEF RestartsWhomItPasses
  <2>0. TypeOK /\ pc' # pc
    BY DEF IInv, Passes
  <2>1. CheckStart(s)
    <3>1. Run
      BY <2>0 DEF Next, Sigterm, ChildEnds, Dies, ForeignStarts, ForeignEnds, Terminated, vars
    <3>2. PICK t \in SubProcesses : CheckStart(t) \/ Exit(t)
      BY <3>1 DEF Run, Start, Loop, Passes
    <3>3. CheckStart(t) /\ t = s
      BY <3>2 DEF CheckStart, Exit, CheckRunning, CheckAbsent, CheckEnded, Reboot, ForkSucceeds,
                  ForkFails, ExitNone, ExitKill, ExitWait, AtStep, Passes
    <3> QED BY <3>3
  <2>2. CASE CheckRunning(s)
    <3>1. pc.at = "check" /\ pid[s] \in Pids /\ owner[pid[s]] = s /\ ~Zombie(pid[s])
      BY <2>2, Apart DEF CheckRunning, AtStep, IsChild, IInv, PidIsChild, Collected
    <3>2. state[pid[s]] \notin {"none", "killed"}
      BY <3>1 DEF Settled, Unkilled, IsChild
    <3>3. state[pid[s]] = "running"
      BY <2>0, <3>1, <3>2 DEF Zombie, TypeOK, States
    <3> QED BY <2>2, <3>1, <3>3 DEF CheckRunning, Runs, kernel
  <2>3. CASE ForkSucceeds(s)
    <3>1. PICK p \in Pids : /\ state' = [state EXCEPT ![p] = "running"]
                            /\ owner' = [owner EXCEPT ![p] = s]
      BY <2>3 DEF ForkSucceeds
    <3>2. owner'[p] = s /\ state'[p] = "running"
      BY <2>0, <3>1 DEF TypeOK
    <3> QED BY <3>2 DEF Runs
  <2>4. CASE CheckAbsent(s) \/ CheckEnded(s) \/ Reboot(s)
    <3>1. pc'.at \in {"fork", "reboot", "rebooted"} /\ pc'.i = pc.i
      BY <2>0, <2>4, GotoSteps DEF CheckAbsent, CheckEnded, Reboot, Steps
    <3> QED BY <3>1 DEF Passes
  <2> QED BY <2>1, <2>2, <2>3, <2>4 DEF CheckStart
<1> QED BY <1>1, <1>2, <1>3, Invariance, PTL DEF Spec

==============================================================================
