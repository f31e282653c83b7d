--------------------------- MODULE BtBringUp_proofs ---------------------------
(***************************************************************************)
(* The theorems about BtBringUp: whatever earlier starts left behind, and  *)
(* however many of them were killed, a start whose answers come in time    *)
(* ends with port and module at 115200, and no start waits for an answer   *)
(* that does not come.                                                     *)
(***************************************************************************)
EXTENDS BtBringUp, SequenceTheorems, TLAPS

Ports == [baud : Speeds, parity : {"none", "even"}, stopbit : {1, 2}, raw : BOOLEAN, block : BOOLEAN]
Modules == [baud : Speeds, maddr : {"other", "0101"}, netid : {"other", "1234"}]

TypeOK ==
  /\ port \in Ports
  /\ module \in Modules /\ saved \in Modules
  /\ up \in BOOLEAN /\ prompt \in BOOLEAN
  /\ input \in Seq(Nat)

(* The module resets only between the command and the end of the pause. *)
AwakeOtherwise == pc \notin {"off", "RESET_ack", "sleep"} => up

At9600 == {"parity", "stopbit", "raw", "flush", "nonblock", "ready", "AT", "AT_ack", "BAUD",
           "BAUD_ack", "RESET", "RESET_ack", "sleep", "115200"}
At115200 == {"flash", "AT_again", "AT_again_ack", "MADDR", "MADDR_ack", "NETID", "NETID_ack",
             "block", "last_flash", "done"}
Quiet == {"parity", "stopbit", "raw", "flush", "nonblock", "ready", "AT", "BAUD", "RESET", "sleep",
          "115200", "flash", "AT_again", "MADDR", "NETID", "block", "last_flash", "done"}

(* How far the settings of the port are made. *)
PortAt ==
  /\ pc \in At9600 => port.baud = 9600
  /\ pc \in At115200 => port.baud = 115200
  /\ pc \in (At9600 \cup At115200) \ {"parity"} => port.parity = "none"
  /\ pc \in (At9600 \cup At115200) \ {"parity", "stopbit"} => port.stopbit = 1
  /\ pc \in (At9600 \cup At115200) \ {"parity", "stopbit", "raw"} => port.raw = TRUE
  /\ pc \in {"last_flash", "done"} => port.block = TRUE

(* The answers that are there: a module that was heard gives one, a module   *)
(* at the other speed none.                                                  *)
InputAt ==
  /\ pc \in Quiet => input = <<>>
  /\ pc \in {"AT_ack", "BAUD_ack"} => input = IF module.baud = 9600 THEN OK ELSE <<>>
  /\ pc = "RESET_ack" => input \in {<<>>, OK}
  /\ pc \in {"AT_again_ack", "MADDR_ack", "NETID_ack"} => input = OK

(* The module is at 115200 once the port is, and takes that speed from its   *)
(* next reset before.                                                        *)
ModuleAt ==
  /\ pc \in {"BAUD_ack", "RESET"} => module.baud = 115200 \/ saved.baud = 115200
  /\ pc \in {"RESET_ack", "sleep"} => IF up THEN module.baud = 115200 ELSE saved.baud = 115200
  /\ pc \in {"115200"} \cup At115200 => module.baud = 115200
  /\ pc \in {"MADDR_ack", "NETID", "NETID_ack", "block", "last_flash", "done"} => saved.maddr = "0101"
  /\ pc \in {"NETID_ack", "block", "last_flash", "done"} => saved.netid = "1234"
  /\ pc # "failed"

(* The inductive invariant. *)
IInv ==
  /\ TypeOK
  /\ AwakeOtherwise
  /\ prompt => PortAt /\ InputAt /\ ModuleAt

------------------------------------------------------------------------------
(* The calls *)

LEMMA OKType == OK \in Seq(Nat) /\ Len(OK) = 4 /\ OK # <<>>
BY DEF OK

(* The first answer in an empty input. *)
LEMMA FirstAnswer == <<>> \o OK = OK
BY OKType, ConcatEmptySeq

(* What tcflush and TCSAFLUSH discard is everything, or an answer was late.  *)
LEMMA DiscardEmpties ==
  ASSUME TypeOK, Discard
  PROVE  /\ input' \in Seq(Nat) /\ prompt' \in BOOLEAN
         /\ prompt' => prompt /\ input' = <<>>
<1> PICK n \in 0..Len(input) : input' = SubSeq(input, n + 1, Len(input)) /\ prompt' = (prompt /\ n = Len(input))
  BY DEF Discard
<1>1. input \in Seq(Nat) /\ prompt \in BOOLEAN /\ Len(input) \in Nat
  BY LenProperties DEF TypeOK
<1>2. input' \in Seq(Nat)
  <2>1. \A i \in (n + 1)..Len(input) : input[i] \in Nat
    BY <1>1, ElementOfSeq
  <2> QED BY <1>1, <2>1, SubSeqProperties
<1>3. n = Len(input) => input' = <<>>
  BY <1>1, SubSeqEmpty
<1> QED BY <1>1, <1>2, <1>3

LEMMA SetMakes ==
  ASSUME TypeOK, NEW settings \in Ports, Set(settings)
  PROVE  /\ TypeOK' /\ UNCHANGED <<module, saved, up>>
         /\ prompt' => prompt /\ port' = settings /\ input' = <<>>
<1>1. UNCHANGED <<module, saved, up>>
  BY DEF Set, peer
<1>2. CASE port' = settings /\ Discard
  BY <1>1, <1>2, DiscardEmpties DEF TypeOK
<1>3. CASE prompt' = FALSE /\ UNCHANGED <<port, input>>
  BY <1>1, <1>3 DEF TypeOK
<1> QED BY <1>2, <1>3 DEF Set

LEMMA FlushEmpties ==
  ASSUME TypeOK, app_serial_flash
  PROVE  /\ TypeOK' /\ UNCHANGED <<port, module, saved, up>>
         /\ prompt' => prompt /\ input' = <<>>
<1>1. UNCHANGED <<port, module, saved, up>> /\ Discard
  BY DEF app_serial_flash, peer
<1> QED BY <1>1, DiscardEmpties DEF TypeOK

LEMMA AckReads ==
  ASSUME TypeOK, NEW from, NEW yes, NEW no, app_bt_isAck(from, yes, no)
  PROVE  /\ pc = from /\ pc' \in {yes, no}
         /\ TypeOK' /\ UNCHANGED <<port, module, saved, up>>
         /\ prompt' => prompt /\ input' = <<>> /\ (input = OK => pc' = yes)
<1>1. pc = from /\ UNCHANGED <<port, module, saved, up>>
  BY DEF app_bt_isAck, peer
<1>8. PICK n \in 0..4 :
      /\ n <= Len(input)
      /\ \E ack \in IsAck(SubSeq(input, 1, n)) : pc' = IF ack THEN yes ELSE no
      /\ input' = SubSeq(input, n + 1, Len(input))
      /\ prompt' = (prompt /\ n = Len(input))
  BY DEF app_bt_isAck
<1>2. input \in Seq(Nat) /\ prompt \in BOOLEAN /\ Len(input) \in Nat
  BY LenProperties DEF TypeOK
<1>3. input' \in Seq(Nat)
  <2>1. \A i \in (n + 1)..Len(input) : input[i] \in Nat
    BY <1>2, ElementOfSeq
  <2> QED BY <1>2, <1>8, <2>1, SubSeqProperties
<1>4. n = Len(input) => input' = <<>>
  BY <1>2, <1>8, SubSeqEmpty
<1>5. pc' \in {yes, no}
  BY <1>8
<1>6. n = Len(input) /\ input = OK => pc' = yes
  <2> SUFFICES ASSUME n = Len(input), input = OK PROVE pc' = yes
    OBVIOUS
  <2>1. SubSeq(input, 1, n) = OK
    BY <1>2, SubSeqFull
  <2>2. IsAck(SubSeq(input, 1, n)) = {TRUE}
    BY <2>1 DEF IsAck
  <2>3. \E ack \in {TRUE} : pc' = IF ack THEN yes ELSE no
    BY <1>8, <2>2
  <2> QED BY <2>3
<1>7. TypeOK'
  BY <1>1, <1>2, <1>3, <1>8 DEF TypeOK
<1> QED BY <1>1, <1>2, <1>4, <1>5, <1>6, <1>7, <1>8

LEMMA WriteHeard ==
  ASSUME TypeOK, NEW setting \in Modules, Write(setting)
  PROVE  /\ TypeOK' /\ UNCHANGED <<port, module, up>>
         /\ prompt' => prompt
         /\ prompt' /\ Heard /\ input = <<>> => saved' = setting /\ input' = OK
         /\ prompt' /\ ~Heard => saved' = saved /\ input' = input
<1>1. UNCHANGED <<port, module, up>>
  BY DEF Write, Unheard
<1>2. input \in Seq(Nat) /\ input \o OK \in Seq(Nat) /\ prompt \in BOOLEAN
  BY OKType, ConcatProperties DEF TypeOK
<1>5. input = <<>> => input \o OK = OK
  BY FirstAnswer
<1>3. CASE Heard /\ saved' = setting /\ input' = input \o OK /\ UNCHANGED prompt
  BY <1>1, <1>2, <1>3, <1>5 DEF TypeOK
<1>4. CASE Unheard
  BY <1>1, <1>2, <1>4 DEF Unheard, TypeOK
<1> QED BY <1>3, <1>4 DEF Write

LEMMA ResetHeard ==
  ASSUME TypeOK, WriteReset
  PROVE  /\ TypeOK' /\ UNCHANGED <<port, module, saved>>
         /\ prompt' => prompt
         /\ prompt' /\ Heard /\ input = <<>> => up' = FALSE /\ input' = OK
         /\ prompt' /\ ~Heard => up' = up /\ input' = input
<1>1. UNCHANGED <<port, module, saved>>
  BY DEF WriteReset, Unheard
<1>2. input \in Seq(Nat) /\ input \o OK \in Seq(Nat) /\ prompt \in BOOLEAN
  BY OKType, ConcatProperties DEF TypeOK
<1>5. input = <<>> => input \o OK = OK
  BY FirstAnswer
<1>3. CASE Heard /\ up' = FALSE /\ input' = input \o OK /\ UNCHANGED prompt
  BY <1>1, <1>2, <1>3, <1>5 DEF TypeOK
<1>4. CASE Unheard
  BY <1>1, <1>2, <1>4 DEF Unheard, TypeOK
<1> QED BY <1>3, <1>4 DEF WriteReset

------------------------------------------------------------------------------
(* The steps of init_bt *)

(* A step that leaves the module awake shows the rest for a prompt start.    *)
LEMMA Keeps ==
  ASSUME TypeOK', AwakeOtherwise, up' = up, pc' # "off", pc \notin {"off", "RESET_ack", "sleep"},
         prompt' => PortAt' /\ InputAt' /\ ModuleAt'
  PROVE  IInv'
BY DEF IInv, AwakeOtherwise

LEMMA ConfigureKeeps ==
  ASSUME IInv, Configure
  PROVE  IInv'
<1>0. /\ TypeOK /\ AwakeOtherwise /\ port \in Ports
      /\ prompt => PortAt /\ InputAt /\ ModuleAt
  BY DEF IInv, TypeOK
<1>1. CASE Goto("init", "parity") /\ app_serial_setBaudrate(9600)
  <2> DEFINE s == [port EXCEPT !.baud = 9600]
  <2>1. s \in Ports /\ s.baud = 9600
    BY <1>0 DEF Ports, Speeds
  <2>2. Set(s) /\ pc = "init" /\ pc' = "parity"
    BY <1>1 DEF app_serial_setBaudrate, Goto
  <2> HIDE DEF s
  <2>3. /\ TypeOK' /\ UNCHANGED <<module, saved, up>>
        /\ prompt' => prompt /\ port' = s /\ input' = <<>>
    BY <1>0, <2>1, <2>2, SetMakes
  <2>4. prompt' => PortAt' /\ InputAt' /\ ModuleAt'
    BY <2>1, <2>2, <2>3 DEF PortAt, InputAt, ModuleAt, At9600, At115200
  <2> QED BY <1>0, <2>2, <2>3, <2>4, Keeps
<1>2. CASE Goto("parity", "stopbit") /\ app_serial_setParity("none")
  <2> DEFINE s == [port EXCEPT !.parity = "none"]
  <2>1. s \in Ports /\ s.parity = "none" /\ s.baud = port.baud
    BY <1>0 DEF Ports
  <2>2. Set(s) /\ pc = "parity" /\ pc' = "stopbit"
    BY <1>2 DEF app_serial_setParity, Goto
  <2> HIDE DEF s
  <2>3. /\ TypeOK' /\ UNCHANGED <<module, saved, up>>
        /\ prompt' => prompt /\ port' = s /\ input' = <<>>
    BY <1>0, <2>1, <2>2, SetMakes
  <2>4. prompt' => PortAt' /\ InputAt' /\ ModuleAt'
    BY <1>0, <2>1, <2>2, <2>3 DEF PortAt, InputAt, ModuleAt, At9600, At115200
  <2> QED BY <1>0, <2>2, <2>3, <2>4, Keeps
<1>3. CASE Goto("stopbit", "raw") /\ app_serial_setStopbit(1)
  <2> DEFINE s == [port EXCEPT !.stopbit = 1]
  <2>1. s \in Ports /\ s.stopbit = 1 /\ s.baud = port.baud /\ s.parity = port.parity
    BY <1>0 DEF Ports
  <2>2. Set(s) /\ pc = "stopbit" /\ pc' = "raw"
    BY <1>3 DEF app_serial_setStopbit, Goto
  <2> HIDE DEF s
  <2>3. /\ TypeOK' /\ UNCHANGED <<module, saved, up>>
        /\ prompt' => prompt /\ port' = s /\ input' = <<>>
    BY <1>0, <2>1, <2>2, SetMakes
  <2>4. prompt' => PortAt' /\ InputAt' /\ ModuleAt'
    BY <1>0, <2>1, <2>2, <2>3 DEF PortAt, InputAt, ModuleAt, At9600, At115200
  <2> QED BY <1>0, <2>2, <2>3, <2>4, Keeps
<1>4. CASE Goto("raw", "flush") /\ app_serial_setRaw
  <2> DEFINE s == [port EXCEPT !.raw = TRUE, !.parity = "none", !.block = TRUE]
  <2>1. s \in Ports /\ s.raw /\ s.parity = "none" /\ s.stopbit = port.stopbit /\ s.baud = port.baud
    BY <1>0 DEF Ports
  <2>2. Set(s) /\ pc = "raw" /\ pc' = "flush"
    BY <1>4 DEF app_serial_setRaw, Goto
  <2> HIDE DEF s
  <2>3. /\ TypeOK' /\ UNCHANGED <<module, saved, up>>
        /\ prompt' => prompt /\ port' = s /\ input' = <<>>
    BY <1>0, <2>1, <2>2, SetMakes
  <2>4. prompt' => PortAt' /\ InputAt' /\ ModuleAt'
    BY <1>0, <2>1, <2>2, <2>3 DEF PortAt, InputAt, ModuleAt, At9600, At115200
  <2> QED BY <1>0, <2>2, <2>3, <2>4, Keeps
<1>5. CASE Goto("flush", "nonblock") /\ app_serial_flash
  <2>2. pc = "flush" /\ pc' = "nonblock"
    BY <1>5 DEF Goto
  <2>3. /\ TypeOK' /\ UNCHANGED <<port, module, saved, up>>
        /\ prompt' => prompt /\ input' = <<>>
    BY <1>0, <1>5, FlushEmpties
  <2>4. prompt' => PortAt' /\ InputAt' /\ ModuleAt'
    BY <1>0, <2>2, <2>3 DEF PortAt, InputAt, ModuleAt, At9600, At115200
  <2> QED BY <1>0, <2>2, <2>3, <2>4, Keeps
<1>6. CASE Goto("nonblock", "ready") /\ app_serial_setBlock(FALSE)
  <2> DEFINE s == [port EXCEPT !.block = FALSE]
  <2>1. /\ s \in Ports /\ s.block = FALSE /\ s.raw = port.raw /\ s.parity = port.parity
        /\ s.stopbit = port.stopbit /\ s.baud = port.baud
    BY <1>0 DEF Ports
  <2>2. Set(s) /\ pc = "nonblock" /\ pc' = "ready"
    BY <1>6 DEF app_serial_setBlock, Goto
  <2> HIDE DEF s
  <2>3. /\ TypeOK' /\ UNCHANGED <<module, saved, up>>
        /\ prompt' => prompt /\ port' = s /\ input' = <<>>
    BY <1>0, <2>1, <2>2, SetMakes
  <2>4. prompt' => PortAt' /\ InputAt' /\ ModuleAt'
    BY <1>0, <2>1, <2>2, <2>3 DEF PortAt, InputAt, ModuleAt, At9600, At115200
  <2> QED BY <1>0, <2>2, <2>3, <2>4, Keeps
<1>7. CASE app_serial_init
  BY <1>1, <1>2, <1>3, <1>4, <1>5, <1>7, PTL DEF app_serial_init
<1> QED BY <1>6, <1>7, PTL DEF Configure

LEMMA ProbeKeeps ==
  ASSUME IInv, Probe
  PROVE  IInv'
<1>0. TypeOK /\ AwakeOtherwise /\ (prompt => PortAt /\ InputAt /\ ModuleAt)
  BY DEF IInv
<1>a. module \in Modules /\ saved \in Modules
  BY <1>0 DEF TypeOK
<1>b. module.baud \in {9600, 115200}
  BY <1>a DEF Modules, Speeds
<1>1. CASE Goto("ready", "AT") /\ app_serial_flash
  <2>2. pc = "ready" /\ pc' = "AT"
    BY <1>1 DEF Goto
  <2>3. /\ TypeOK' /\ UNCHANGED <<port, module, saved, up>>
        /\ prompt' => prompt /\ input' = <<>>
    BY <1>0, <1>1, FlushEmpties
  <2>4. prompt' => PortAt' /\ InputAt' /\ ModuleAt'
    BY <1>0, <2>2, <2>3 DEF PortAt, InputAt, ModuleAt, At9600, At115200
  <2> QED BY <1>0, <2>2, <2>3, <2>4, Keeps
<1>2. CASE Goto("AT", "AT_ack") /\ Write(saved)
  <2>2. pc = "AT" /\ pc' = "AT_ack" /\ up
    BY <1>0, <1>2 DEF Goto, AwakeOtherwise
  <2>3. /\ TypeOK' /\ UNCHANGED <<port, module, up>>
        /\ prompt' => prompt
        /\ prompt' /\ Heard /\ input = <<>> => saved' = saved /\ input' = OK
        /\ prompt' /\ ~Heard => saved' = saved /\ input' = input
    BY <1>0, <1>a, <1>2, WriteHeard
  <2>4. prompt' => port.baud = 9600 /\ port.parity = "none" /\ input = <<>>
    BY <1>0, <2>2, <2>3 DEF PortAt, InputAt, At9600, Quiet
  <2>5. prompt' => (Heard <=> module.baud = 9600)
    BY <2>2, <2>4 DEF Heard
  <2>6. prompt' => input' = IF module.baud = 9600 THEN OK ELSE <<>>
    BY <1>b, <2>3, <2>4, <2>5
  <2>7. prompt' => PortAt'
    BY <1>0, <2>2, <2>3 DEF PortAt, At9600, At115200
  <2>8. prompt' => InputAt'
    BY <2>2, <2>3, <2>6 DEF InputAt, Quiet
  <2>9. prompt' => ModuleAt'
    BY <1>0, <1>b, <2>2, <2>3, <2>4, <2>5 DEF ModuleAt, At115200
  <2> QED BY <1>0, <2>2, <2>3, <2>7, <2>8, <2>9, Keeps
<1>3. CASE app_bt_isAck("AT_ack", "BAUD", "115200")
  <2>2. /\ pc = "AT_ack" /\ pc' \in {"BAUD", "115200"}
        /\ TypeOK' /\ UNCHANGED <<port, module, saved, up>>
        /\ prompt' => prompt /\ input' = <<>> /\ (input = OK => pc' = "BAUD")
    BY <1>0, <1>3, AckReads
  <2>3. prompt' => (pc' = "115200" => module.baud = 115200)
    BY <1>0, <1>b, <2>2 DEF InputAt
  <2>4. prompt' => PortAt' /\ InputAt' /\ ModuleAt'
    BY <1>0, <2>2, <2>3 DEF PortAt, InputAt, ModuleAt, At9600, At115200
  <2> QED BY <1>0, <2>2, <2>4, Keeps
<1>4. CASE Goto("BAUD", "BAUD_ack") /\ Write([saved EXCEPT !.baud = 115200])
  <2> DEFINE s == [saved EXCEPT !.baud = 115200]
  <2>1. s \in Modules /\ s.baud = 115200
    BY <1>a DEF Modules, Speeds
  <2>2. pc = "BAUD" /\ pc' = "BAUD_ack" /\ up
    BY <1>0, <1>4 DEF Goto, AwakeOtherwise
  <2> HIDE DEF s
  <2>3. /\ TypeOK' /\ UNCHANGED <<port, module, up>>
        /\ prompt' => prompt
        /\ prompt' /\ Heard /\ input = <<>> => saved' = s /\ input' = OK
        /\ prompt' /\ ~Heard => saved' = saved /\ input' = input
    BY <1>0, <1>4, <2>1, WriteHeard DEF s
  <2>4. prompt' => port.baud = 9600 /\ port.parity = "none" /\ input = <<>>
    BY <1>0, <2>2, <2>3 DEF PortAt, InputAt, At9600, Quiet
  <2>5. prompt' => (Heard <=> module.baud = 9600)
    BY <2>2, <2>4 DEF Heard
  <2>6. prompt' => input' = IF module.baud = 9600 THEN OK ELSE <<>>
    BY <1>b, <2>3, <2>4, <2>5
  <2>7. prompt' => PortAt'
    BY <1>0, <2>2, <2>3 DEF PortAt, At9600, At115200
  <2>8. prompt' => InputAt'
    BY <2>2, <2>3, <2>6 DEF InputAt, Quiet
  <2>9. prompt' => ModuleAt'
    BY <1>0, <1>b, <2>1, <2>2, <2>3, <2>4, <2>5 DEF ModuleAt, At115200
  <2> QED BY <1>0, <2>2, <2>3, <2>7, <2>8, <2>9, Keeps
<1>5. CASE app_bt_isAck("BAUD_ack", "RESET", "RESET")
  <2>2. /\ pc = "BAUD_ack" /\ pc' = "RESET"
        /\ TypeOK' /\ UNCHANGED <<port, module, saved, up>>
        /\ prompt' => prompt /\ input' = <<>>
    BY <1>0, <1>5, AckReads
  <2>4. prompt' => PortAt' /\ InputAt' /\ ModuleAt'
    BY <1>0, <2>2 DEF PortAt, InputAt, ModuleAt, At9600, At115200
  <2> QED BY <1>0, <2>2, <2>4, Keeps
<1>6. CASE Goto("RESET", "RESET_ack") /\ WriteReset
  <2>2. pc = "RESET" /\ pc' = "RESET_ack" /\ up
    BY <1>0, <1>6 DEF Goto, AwakeOtherwise
  <2>3. /\ TypeOK' /\ UNCHANGED <<port, module, saved>>
        /\ prompt' => prompt
        /\ prompt' /\ Heard /\ input = <<>> => up' = FALSE /\ input' = OK
        /\ prompt' /\ ~Heard => up' = up /\ input' = input
    BY <1>0, <1>6, ResetHeard
  <2>4. prompt' => port.baud = 9600 /\ port.parity = "none" /\ input = <<>>
    BY <1>0, <2>2, <2>3 DEF PortAt, InputAt, At9600, Quiet
  <2>5. prompt' => (Heard <=> module.baud = 9600)
    BY <2>2, <2>4 DEF Heard
  <2>6. prompt' => input' \in {<<>>, OK}
    BY <1>b, <2>3, <2>4, <2>5
  <2>10. prompt' => IF up' THEN module.baud = 115200 ELSE saved.baud = 115200
    <3>1. prompt' => module.baud = 115200 \/ saved.baud = 115200
      BY <1>0, <2>2, <2>3 DEF ModuleAt
    <3>2. CASE module.baud = 9600
      <4>1. prompt' => up' = FALSE
        BY <2>3, <2>4, <2>5, <3>2
      <4> QED BY <3>1, <3>2, <4>1
    <3>3. CASE module.baud = 115200
      <4>1. prompt' => up' = up
        BY <2>3, <2>5, <3>3
      <4> QED BY <2>2, <3>3, <4>1
    <3> QED BY <1>b, <3>2, <3>3
  <2>7. prompt' => PortAt'
    BY <1>0, <2>2, <2>3 DEF PortAt, At9600, At115200
  <2>8. prompt' => InputAt'
    BY <2>2, <2>3, <2>6 DEF InputAt, Quiet
  <2>9. prompt' => ModuleAt'
    BY <2>2, <2>3, <2>10 DEF ModuleAt, At115200
  <2> QED BY <2>2, <2>3, <2>7, <2>8, <2>9 DEF IInv, AwakeOtherwise
<1>7. CASE app_bt_isAck("RESET_ack", "sleep", "sleep")
  <2>2. /\ pc = "RESET_ack" /\ pc' = "sleep"
        /\ TypeOK' /\ UNCHANGED <<port, module, saved, up>>
        /\ prompt' => prompt /\ input' = <<>>
    BY <1>0, <1>7, AckReads
  <2>4. prompt' => PortAt' /\ InputAt' /\ ModuleAt'
    BY <1>0, <2>2 DEF PortAt, InputAt, ModuleAt, At9600, At115200
  <2> QED BY <2>2, <2>4 DEF IInv, AwakeOtherwise
<1>8. CASE app_bt_status("AT", "AT_ack", "BAUD", "115200")
  BY <1>2, <1>3, <1>8, PTL DEF app_bt_status
<1>9. CASE app_bt_setBraudRate
  BY <1>4, <1>5, <1>9, PTL DEF app_bt_setBraudRate
<1>10. CASE app_bt_reset
  BY <1>6, <1>7, <1>10, PTL DEF app_bt_reset
<1> QED BY <1>1, <1>8, <1>9, <1>10, PTL DEF Probe

LEMMA SleepKeeps ==
  ASSUME IInv, Sleep
  PROVE  IInv'
<1>1. /\ TypeOK /\ pc = "sleep" /\ pc' = "115200" /\ up
      /\ UNCHANGED <<port, module, saved, up, input, prompt>>
      /\ prompt => PortAt /\ InputAt /\ ModuleAt
  BY DEF IInv, Sleep, Goto, peer
<1>2. TypeOK'
  BY <1>1 DEF TypeOK
<1>3. prompt' => PortAt' /\ InputAt' /\ ModuleAt'
  BY <1>1 DEF PortAt, InputAt, ModuleAt, At9600, At115200, Quiet
<1> QED BY <1>1, <1>2, <1>3 DEF IInv, AwakeOtherwise

LEMMA FinishKeeps ==
  ASSUME IInv, Finish
  PROVE  IInv'
<1>0. /\ TypeOK /\ AwakeOtherwise /\ port \in Ports
      /\ module \in Modules /\ saved \in Modules
      /\ prompt => PortAt /\ InputAt /\ ModuleAt
  BY DEF IInv, TypeOK
<1>1. CASE Goto("115200", "flash") /\ app_serial_setBaudrate(115200)
  <2> DEFINE s == [port EXCEPT !.baud = 115200]
  <2>1. /\ s \in Ports /\ s.baud = 115200 /\ s.raw = port.raw /\ s.parity = port.parity
        /\ s.stopbit = port.stopbit /\ s.block = port.block
    BY <1>0 DEF Ports, Speeds
  <2>2. Set(s) /\ pc = "115200" /\ pc' = "flash"
    BY <1>1 DEF app_serial_setBaudrate, Goto
  <2> HIDE DEF s
  <2>3. /\ TypeOK' /\ UNCHANGED <<module, saved, up>>
        /\ prompt' => prompt /\ port' = s /\ input' = <<>>
    BY <1>0, <2>1, <2>2, SetMakes
  <2>4. prompt' => PortAt' /\ InputAt' /\ ModuleAt'
    BY <1>0, <2>1, <2>2, <2>3 DEF PortAt, InputAt, ModuleAt, At9600, At115200
  <2> QED BY <1>0, <2>2, <2>3, <2>4, Keeps
<1>2. CASE Goto("flash", "AT_again") /\ app_serial_flash
  <2>2. pc = "flash" /\ pc' = "AT_again"
    BY <1>2 DEF Goto
  <2>3. /\ TypeOK' /\ UNCHANGED <<port, module, saved, up>>
        /\ prompt' => prompt /\ input' = <<>>
    BY <1>0, <1>2, FlushEmpties
  <2>4. prompt' => PortAt' /\ InputAt' /\ ModuleAt'
    BY <1>0, <2>2, <2>3 DEF PortAt, InputAt, ModuleAt, At9600, At115200
  <2> QED BY <1>0, <2>2, <2>3, <2>4, Keeps
<1>3. CASE Goto("AT_again", "AT_again_ack") /\ Write(saved)
  <2>2. pc = "AT_again" /\ pc' = "AT_again_ack" /\ up
    BY <1>0, <1>3 DEF Goto, AwakeOtherwise
  <2>3. /\ TypeOK' /\ UNCHANGED <<port, module, up>>
        /\ prompt' => prompt
        /\ prompt' /\ Heard /\ input = <<>> => saved' = saved /\ input' = OK
        /\ prompt' /\ ~Heard => saved' = saved /\ input' = input
    BY <1>0, <1>3, WriteHeard
  <2>4. prompt' => port.baud = 115200 /\ port.parity = "none" /\ input = <<>> /\ module.baud = 115200
    BY <1>0, <2>2, <2>3 DEF PortAt, InputAt, ModuleAt, At9600, At115200, Quiet
  <2>5. prompt' => Heard
    BY <2>2, <2>4 DEF Heard
  <2>6. prompt' => input' = OK
    BY <2>3, <2>4, <2>5
  <2>7. prompt' => PortAt'
    BY <1>0, <2>2, <2>3 DEF PortAt, At9600, At115200
  <2>8. prompt' => InputAt'
    BY <2>2, <2>3, <2>6 DEF InputAt, Quiet
  <2>9. prompt' => ModuleAt'
    BY <1>0, <2>2, <2>3, <2>4, <2>5 DEF ModuleAt, At115200
  <2> QED BY <1>0, <2>2, <2>3, <2>7, <2>8, <2>9, Keeps
<1>4. CASE app_bt_isAck("AT_again_ack", "MADDR", "failed")
  <2>2. /\ pc = "AT_again_ack" /\ pc' \in {"MADDR", "failed"}
        /\ TypeOK' /\ UNCHANGED <<port, module, saved, up>>
        /\ prompt' => prompt /\ input' = <<>> /\ (input = OK => pc' = "MADDR")
    BY <1>0, <1>4, AckReads
  <2>3. prompt' => pc' = "MADDR"
    BY <1>0, <2>2 DEF InputAt
  <2>5. TypeOK' /\ AwakeOtherwise' /\ up
    BY <1>0, <2>2 DEF AwakeOtherwise
  <2>4. prompt' => PortAt' /\ InputAt' /\ ModuleAt'
    BY <1>0, <2>2, <2>3 DEF PortAt, InputAt, ModuleAt, At9600, At115200
  <2> QED BY <2>4, <2>5 DEF IInv
<1>5. CASE Goto("MADDR", "MADDR_ack") /\ Write([saved EXCEPT !.maddr = "0101"])
  <2> DEFINE s == [saved EXCEPT !.maddr = "0101"]
  <2>1. s \in Modules /\ s.maddr = "0101"
    BY <1>0 DEF Modules
  <2>2. pc = "MADDR" /\ pc' = "MADDR_ack" /\ up
    BY <1>0, <1>5 DEF Goto, AwakeOtherwise
  <2> HIDE DEF s
  <2>3. /\ TypeOK' /\ UNCHANGED <<port, module, up>>
        /\ prompt' => prompt
        /\ prompt' /\ Heard /\ input = <<>> => saved' = s /\ input' = OK
        /\ prompt' /\ ~Heard => saved' = saved /\ input' = input
    BY <1>0, <1>5, <2>1, WriteHeard DEF s
  <2>4. prompt' => port.baud = 115200 /\ port.parity = "none" /\ input = <<>> /\ module.baud = 115200
    BY <1>0, <2>2, <2>3 DEF PortAt, InputAt, ModuleAt, At9600, At115200, Quiet
  <2>5. prompt' => Heard
    BY <2>2, <2>4 DEF Heard
  <2>6. prompt' => input' = OK
    BY <2>3, <2>4, <2>5
  <2>7. prompt' => PortAt'
    BY <1>0, <2>2, <2>3 DEF PortAt, At9600, At115200
  <2>8. prompt' => InputAt'
    BY <2>2, <2>3, <2>6 DEF InputAt, Quiet
  <2>9. prompt' => ModuleAt'
    BY <1>0, <2>1, <2>2, <2>3, <2>4, <2>5 DEF ModuleAt, At115200
  <2> QED BY <1>0, <2>2, <2>3, <2>7, <2>8, <2>9, Keeps
<1>6. CASE app_bt_isAck("MADDR_ack", "NETID", "NETID")
  <2>2. /\ pc = "MADDR_ack" /\ pc' = "NETID"
        /\ TypeOK' /\ UNCHANGED <<port, module, saved, up>>
        /\ prompt' => prompt /\ input' = <<>>
    BY <1>0, <1>6, AckReads
  <2>4. prompt' => PortAt' /\ InputAt' /\ ModuleAt'
    BY <1>0, <2>2 DEF PortAt, InputAt, ModuleAt, At9600, At115200
  <2> QED BY <1>0, <2>2, <2>4, Keeps
<1>7. CASE Goto("NETID", "NETID_ack") /\ Write([saved EXCEPT !.netid = "1234"])
  <2> DEFINE s == [saved EXCEPT !.netid = "1234"]
  <2>1. s \in Modules /\ s.netid = "1234" /\ s.maddr = saved.maddr
    BY <1>0 DEF Modules
  <2>2. pc = "NETID" /\ pc' = "NETID_ack" /\ up
    BY <1>0, <1>7 DEF Goto, AwakeOtherwise
  <2> HIDE DEF s
  <2>3. /\ TypeOK' /\ UNCHANGED <<port, module, up>>
        /\ prompt' => prompt
        /\ prompt' /\ Heard /\ input = <<>> => saved' = s /\ input' = OK
        /\ prompt' /\ ~Heard => saved' = saved /\ input' = input
    BY <1>0, <1>7, <2>1, WriteHeard DEF s
  <2>4. prompt' => port.baud = 115200 /\ port.parity = "none" /\ input = <<>> /\ module.baud = 115200
    BY <1>0, <2>2, <2>3 DEF PortAt, InputAt, ModuleAt, At9600, At115200, Quiet
  <2>5. prompt' => Heard
    BY <2>2, <2>4 DEF Heard
  <2>6. prompt' => input' = OK
    BY <2>3, <2>4, <2>5
  <2>7. prompt' => PortAt'
    BY <1>0, <2>2, <2>3 DEF PortAt, At9600, At115200
  <2>8. prompt' => InputAt'
    BY <2>2, <2>3, <2>6 DEF InputAt, Quiet
  <2>9. prompt' => ModuleAt'
    BY <1>0, <2>1, <2>2, <2>3, <2>4, <2>5 DEF ModuleAt, At115200
  <2> QED BY <1>0, <2>2, <2>3, <2>7, <2>8, <2>9, Keeps
<1>8. CASE app_bt_isAck("NETID_ack", "block", "block")
  <2>2. /\ pc = "NETID_ack" /\ pc' = "block"
        /\ TypeOK' /\ UNCHANGED <<port, module, saved, up>>
        /\ prompt' => prompt /\ input' = <<>>
    BY <1>0, <1>8, AckReads
  <2>4. prompt' => PortAt' /\ InputAt' /\ ModuleAt'
    BY <1>0, <2>2 DEF PortAt, InputAt, ModuleAt, At9600, At115200
  <2> QED BY <1>0, <2>2, <2>4, Keeps
<1>9. CASE Goto("block", "last_flash") /\ app_serial_setBlock(TRUE)
  <2> DEFINE s == [port EXCEPT !.block = TRUE]
  <2>1. /\ s \in Ports /\ s.block = TRUE /\ s.raw = port.raw /\ s.parity = port.parity
        /\ s.stopbit = port.stopbit /\ s.baud = port.baud
    BY <1>0 DEF Ports
  <2>2. Set(s) /\ pc = "block" /\ pc' = "last_flash"
    BY <1>9 DEF app_serial_setBlock, Goto
  <2> HIDE DEF s
  <2>3. /\ TypeOK' /\ UNCHANGED <<module, saved, up>>
        /\ prompt' => prompt /\ port' = s /\ input' = <<>>
    BY <1>0, <2>1, <2>2, SetMakes
  <2>4. prompt' => PortAt' /\ InputAt' /\ ModuleAt'
    BY <1>0, <2>1, <2>2, <2>3 DEF PortAt, InputAt, ModuleAt, At9600, At115200
  <2> QED BY <1>0, <2>2, <2>3, <2>4, Keeps
<1>10. CASE Goto("last_flash", "done") /\ app_serial_flash
  <2>2. pc = "last_flash" /\ pc' = "done"
    BY <1>10 DEF Goto
  <2>3. /\ TypeOK' /\ UNCHANGED <<port, module, saved, up>>
        /\ prompt' => prompt /\ input' = <<>>
    BY <1>0, <1>10, FlushEmpties
  <2>4. prompt' => PortAt' /\ InputAt' /\ ModuleAt'
    BY <1>0, <2>2, <2>3 DEF PortAt, InputAt, ModuleAt, At9600, At115200
  <2> QED BY <1>0, <2>2, <2>3, <2>4, Keeps
<1>11. CASE app_bt_status("AT_again", "AT_again_ack", "MADDR", "failed")
  BY <1>3, <1>4, <1>11, PTL DEF app_bt_status
<1>12. CASE app_bt_setmaddr
  BY <1>5, <1>6, <1>12, PTL DEF app_bt_setmaddr
<1>13. CASE app_bt_setNetId
  BY <1>7, <1>8, <1>13, PTL DEF app_bt_setNetId
<1> QED BY <1>1, <1>2, <1>9, <1>10, <1>11, <1>12, <1>13, PTL DEF Finish

------------------------------------------------------------------------------
(* The module and the process *)

LEMMA RestartKeeps ==
  ASSUME IInv, ModuleRestarts
  PROVE  IInv'
<1>1. /\ TypeOK /\ pc \in {"off", "RESET_ack", "sleep"} /\ up = FALSE
      /\ up' = TRUE /\ module' = saved /\ UNCHANGED <<pc, port, saved, input, prompt>>
      /\ prompt => PortAt /\ InputAt /\ ModuleAt
  BY DEF IInv, TypeOK, AwakeOtherwise, ModuleRestarts
<1>2. TypeOK'
  BY <1>1 DEF TypeOK
<1>3. prompt' => PortAt' /\ InputAt' /\ ModuleAt'
  BY <1>1 DEF PortAt, InputAt, ModuleAt, At9600, At115200, Quiet
<1> QED BY <1>1, <1>2, <1>3 DEF IInv, AwakeOtherwise

LEMMA DiesKeeps ==
  ASSUME IInv, Dies
  PROVE  IInv'
<1>1. TypeOK /\ pc' = "off" /\ UNCHANGED <<port, module, saved, up, input, prompt>>
  BY DEF IInv, Dies, peer
<1>2. TypeOK'
  BY <1>1 DEF TypeOK
<1>3. PortAt' /\ InputAt' /\ ModuleAt'
  BY <1>1 DEF PortAt, InputAt, ModuleAt, At9600, At115200, Quiet
<1> QED BY <1>1, <1>2, <1>3 DEF IInv, AwakeOtherwise

LEMMA StartKeeps ==
  ASSUME IInv, Starts
  PROVE  IInv'
<1>1. TypeOK /\ up /\ pc' = "init" /\ prompt' = TRUE /\ UNCHANGED <<port, module, saved, up, input>>
  BY DEF IInv, Starts, Goto, peer
<1>2. TypeOK'
  BY <1>1 DEF TypeOK
<1>3. PortAt' /\ InputAt' /\ ModuleAt'
  BY <1>1 DEF PortAt, InputAt, ModuleAt, At9600, At115200, Quiet
<1> QED BY <1>1, <1>2, <1>3 DEF IInv, AwakeOtherwise

LEMMA StutterKeeps ==
  ASSUME IInv, UNCHANGED vars
  PROVE  IInv'
<1>1. UNCHANGED <<pc, port, module, saved, up, input, prompt>>
  BY DEF vars, peer
<1> QED BY <1>1 DEF IInv, TypeOK, AwakeOtherwise, PortAt, InputAt, ModuleAt, Heard

------------------------------------------------------------------------------
(* The theorems *)

LEMMA InitInvariant ==
  ASSUME Init
  PROVE  IInv
<1>1. TypeOK
  BY DEF Init, TypeOK, Ports, Modules
<1>2. PortAt /\ InputAt /\ ModuleAt
  BY DEF Init, PortAt, InputAt, ModuleAt, At9600, At115200, Quiet
<1> QED BY <1>1, <1>2 DEF Init, IInv, AwakeOtherwise

LEMMA NextInvariant == IInv /\ [Next]_vars => IInv'
<1> SUFFICES ASSUME IInv, [Next]_vars PROVE IInv'
  OBVIOUS
<1>1. CASE init_bt
  BY <1>1, ConfigureKeeps, ProbeKeeps, SleepKeeps, FinishKeeps DEF init_bt
<1>2. CASE ModuleRestarts
  BY <1>2, RestartKeeps
<1>3. CASE Dies
  BY <1>3, DiesKeeps
<1>4. CASE Starts
  BY <1>4, StartKeeps
<1>5. CASE UNCHANGED vars
  BY <1>5, StutterKeeps
<1> QED BY <1>1, <1>2, <1>3, <1>4, <1>5 DEF Next

(* The inductive invariant: what a prompt start has made of the port, left   *)
(* to read and brought the module to, step by step (app_bt.c:9-55).          *)
THEOREM Invariance == Spec => []IInv
<1>1. Init => IInv
  BY InitInvariant
<1> QED BY <1>1, NextInvariant, PTL DEF Spec

(* The settings of the port and of the module stay what an earlier run or    *)
(* init_bt gives them, what is on the line stays bytes (app_serial.c:36-148). *)
THEOREM TypeCorrect == Spec => []TypeOK
<1>1. IInv => TypeOK
  BY DEF IInv
<1> QED BY <1>1, Invariance, PTL

(* However many starts before it were killed, and wherever, a start whose    *)
(* answers come in time ends with port and module at 115200 (app_bt.c:9-55). *)
THEOREM PromptStartSucceeds == Spec => []ReadyAt115200
<1>1. ASSUME IInv, prompt, Ended PROVE ReadyAt115200
  <2>1. pc = "done" /\ port \in Ports
    BY <1>1 DEF IInv, TypeOK, ModuleAt, Ended
  <2>2. /\ port.baud = 115200 /\ port.parity = "none" /\ port.stopbit = 1
        /\ port.raw = TRUE /\ port.block = TRUE
    BY <1>1, <2>1 DEF IInv, PortAt, At9600, At115200
  <2>3. port = [baud |-> 115200, parity |-> "none", stopbit |-> 1, raw |-> TRUE, block |-> TRUE]
    BY <2>1, <2>2 DEF Ports
  <2>4. module.baud = 115200 /\ saved.maddr = "0101" /\ saved.netid = "1234"
    BY <1>1, <2>1 DEF IInv, ModuleAt, At115200
  <2> QED BY <2>1, <2>3, <2>4 DEF ReadyAt115200
<1>2. IInv => ReadyAt115200
  BY <1>1 DEF ReadyAt115200
<1> QED BY <1>2, Invariance, PTL

------------------------------------------------------------------------------
(* No read waits *)

(* From the moment the port is non-blocking to the moment it is to block.    *)
Polling == {"ready", "AT", "AT_ack", "BAUD", "BAUD_ack", "RESET", "RESET_ack", "sleep", "115200",
            "flash", "AT_again", "AT_again_ack", "MADDR", "MADDR_ack", "NETID", "NETID_ack", "block"}

PortReturns ==
  /\ fails \in Nat
  /\ fails = 0 /\ pc \in Polling => port.block = FALSE

LEMMA SetCounts ==
  ASSUME fails \in Nat, NEW settings, Set(settings)
  PROVE  fails' \in Nat /\ (fails' = 0 => fails = 0 /\ port' = settings)
BY DEF Set

LEMMA AckOnly ==
  ASSUME NEW from, NEW yes, NEW no, app_bt_isAck(from, yes, no)
  PROVE  pc = from /\ UNCHANGED <<port, fails>>
BY DEF app_bt_isAck, bounds

LEMMA WriteOnly ==
  /\ \A setting : Write(setting) => UNCHANGED <<port, fails>>
  /\ WriteReset => UNCHANGED <<port, fails>>
  /\ app_serial_flash => UNCHANGED <<port, fails>>
BY DEF Write, WriteReset, app_serial_flash, bounds

LEMMA ConfigureReturns ==
  ASSUME TypeOK, PortReturns, Configure
  PROVE  PortReturns'
<1>1. CASE app_serial_init
  <2>1. pc' \notin Polling
    BY <1>1 DEF app_serial_init, Goto, Polling
  <2>2. fails' \in Nat
    BY <1>1, SetCounts, WriteOnly DEF PortReturns, app_serial_init, app_serial_setBaudrate,
       app_serial_setParity, app_serial_setStopbit, app_serial_setRaw
  <2> QED BY <2>1, <2>2 DEF PortReturns
<1>2. CASE Goto("nonblock", "ready") /\ app_serial_setBlock(FALSE)
  <2>1. fails' \in Nat /\ (fails' = 0 => port' = [port EXCEPT !.block = FALSE])
    BY <1>2, SetCounts DEF PortReturns, app_serial_setBlock
  <2>2. port \in Ports
    BY DEF TypeOK
  <2>3. [port EXCEPT !.block = FALSE].block = FALSE
    BY <2>2 DEF Ports
  <2> QED BY <2>1, <2>3 DEF PortReturns
<1> QED BY <1>1, <1>2 DEF Configure

LEMMA ProbeReturns ==
  ASSUME TypeOK, PortReturns, Probe \/ Sleep
  PROVE  PortReturns'
<1>1. UNCHANGED <<port, fails>>
  BY AckOnly, WriteOnly DEF Probe, Sleep, app_bt_status, app_bt_setBraudRate, app_bt_reset, bounds
<1>2. pc \in Polling
  BY AckOnly DEF Probe, Sleep, app_bt_status, app_bt_setBraudRate, app_bt_reset, Goto, Polling
<1> QED BY <1>1, <1>2 DEF PortReturns

LEMMA FinishReturns ==
  ASSUME TypeOK, PortReturns, Finish
  PROVE  PortReturns'
<1>1. CASE Goto("115200", "flash") /\ app_serial_setBaudrate(115200)
  <2>1. fails' \in Nat /\ (fails' = 0 => fails = 0 /\ port' = [port EXCEPT !.baud = 115200])
    BY <1>1, SetCounts DEF PortReturns, app_serial_setBaudrate
  <2>2. port \in Ports /\ pc \in Polling
    BY <1>1 DEF TypeOK, Goto, Polling
  <2>3. ASSUME fails' = 0 PROVE port'.block = FALSE
    <3>1. port.block = FALSE
      BY <2>1, <2>2, <2>3 DEF PortReturns
    <3>2. [port EXCEPT !.baud = 115200].block = FALSE
      BY <2>2, <3>1 DEF Ports
    <3>3. port' = [port EXCEPT !.baud = 115200]
      BY <2>1, <2>3
    <3> QED BY <3>2, <3>3
  <2>4. fails' \in Nat
    BY <2>1
  <2> QED BY <2>3, <2>4 DEF PortReturns
<1>2. CASE Goto("block", "last_flash") /\ app_serial_setBlock(TRUE)
  <2>1. fails' \in Nat
    BY <1>2, SetCounts DEF PortReturns, app_serial_setBlock
  <2>2. pc' \notin Polling
    BY <1>2 DEF Goto, Polling
  <2> QED BY <2>1, <2>2 DEF PortReturns
<1>3. CASE \/ Goto("flash", "AT_again") /\ app_serial_flash
           \/ app_bt_status("AT_again", "AT_again_ack", "MADDR", "failed")
           \/ app_bt_setmaddr
           \/ app_bt_setNetId
  <2>1. UNCHANGED <<port, fails>>
    BY <1>3, AckOnly, WriteOnly DEF app_bt_status, app_bt_setmaddr, app_bt_setNetId
  <2>2. pc \in Polling
    BY <1>3, AckOnly DEF app_bt_status, app_bt_setmaddr, app_bt_setNetId, Goto, Polling
  <2> QED BY <2>1, <2>2 DEF PortReturns
<1>4. CASE Goto("last_flash", "done") /\ app_serial_flash
  <2>1. UNCHANGED <<port, fails>> /\ pc' \notin Polling
    BY <1>4, WriteOnly DEF Goto, Polling
  <2> QED BY <2>1 DEF PortReturns
<1> QED BY <1>1, <1>2, <1>3, <1>4, PTL DEF Finish

LEMMA PortReturnsNext == TypeOK /\ PortReturns /\ [Next]_vars => PortReturns'
<1> SUFFICES ASSUME TypeOK, PortReturns, [Next]_vars PROVE PortReturns'
  OBVIOUS
<1>1. CASE init_bt
  BY <1>1, ConfigureReturns, ProbeReturns, FinishReturns DEF init_bt
<1>2. CASE ModuleRestarts \/ UNCHANGED vars
  <2>1. UNCHANGED <<pc, port, fails>>
    BY <1>2 DEF ModuleRestarts, vars, bounds
  <2> QED BY <2>1 DEF PortReturns
<1>3. CASE Dies \/ Starts
  <2>1. UNCHANGED fails /\ pc' \notin Polling
    BY <1>3 DEF Dies, Starts, Goto, Polling, bounds
  <2> QED BY <2>1 DEF PortReturns
<1> QED BY <1>1, <1>2, <1>3 DEF Next

(* While tcsetattr succeeds no read of an acknowledgement waits for a byte:  *)
(* whether an earlier start left the port blocking, and although cfmakeraw   *)
(* makes it so in the middle of this one, the port that is read returns      *)
(* (app_bt.c:11-55, app_serial.c:142-148).  BringUpEnds rests on it.         *)
THEOREM NoReadWaits ==
  Spec => [](fails = 0 /\ pc \in {"AT_ack", "BAUD_ack", "RESET_ack", "AT_again_ack", "MADDR_ack",
                                  "NETID_ack"} => ~port.block)
<1>1. Init => PortReturns
  BY DEF Init, PortReturns, Polling
<1>2. IInv => TypeOK
  BY DEF IInv
<1>3. PortReturns =>
        (fails = 0 /\ pc \in {"AT_ack", "BAUD_ack", "RESET_ack", "AT_again_ack", "MADDR_ack", "NETID_ack"}
           => ~port.block)
  BY DEF PortReturns, Polling
<1> QED BY <1>1, <1>2, <1>3, PortReturnsNext, Invariance, PTL DEF Spec
===============================================================================
