------------------------------- MODULE BtBringUp -------------------------------
(***************************************************************************)
(* The bring-up of the bluetooth module: init_bt of app/app_bt.c over      *)
(* app/app_serial.c.  The program finds out at which of two speeds the     *)
(* module is, moves it to 115200 and gives it its address, by AT commands  *)
(* that are each answered with "OK\r\n"; it may be killed between any two  *)
(* steps, and starts again from what it left in the port and in the module. *)
(*                                                                         *)
(* The module is external: it understands a command that comes at its own  *)
(* speed, and takes a changed setting when it is reset (app_bt.h:32-35).   *)
(* input holds the bytes it sent and nobody read, arrived or still coming. *)
(***************************************************************************)
EXTENDS Naturals, Sequences

CONSTANTS
  MaxFails,   (* bound: calls of tcsetattr that fail                        *)
  MaxDeaths   (* bound: how often the program is killed                     *)

ASSUME BringUpAssumption == MaxFails \in Nat /\ MaxDeaths \in Nat

VARIABLES
  pc,       (* the step of init_bt                                          *)
  port,     (* the settings of the serial port                              *)
  module,   (* the settings the module works with                           *)
  saved,    (* the settings it takes at the next reset                      *)
  up,       (* FALSE while the module resets                                *)
  input,    (* bytes for the port                                           *)
  prompt,   (* in this start every setting was made, every command heard    *)
            (* and every answer there when it was read or discarded         *)
  fails, deaths

peer == <<module, saved, up>>
bounds == <<fails, deaths>>
vars == <<pc, port, peer, input, prompt, bounds>>

Speeds == {9600, 115200}
OK == <<79, 75, 13, 10>>   (* "OK\r\n" *)

(* Whatever an earlier run left, and a module with other addresses. *)
Init ==
  /\ pc = "off"
  /\ port \in [baud : Speeds, parity : {"none", "even"}, stopbit : {1, 2},
               raw : BOOLEAN, block : BOOLEAN]
  /\ module \in [baud : Speeds, maddr : {"other"}, netid : {"other"}]
  /\ saved = module
  /\ up = TRUE
  /\ input = <<>>
  /\ prompt = TRUE
  /\ fails = 0 /\ deaths = 0

Goto(from, to) == pc = from /\ pc' = to

------------------------------------------------------------------------------
(* app_serial.c *)

(* What is still coming is not discarded. *)
Discard ==
  \E n \in 0..Len(input) :
    /\ input' = SubSeq(input, n + 1, Len(input))
    /\ prompt' = (prompt /\ n = Len(input))

(* tcsetattr with TCSAFLUSH; no caller looks at the result. *)
Set(settings) ==
  /\ \/ port' = settings /\ Discard /\ UNCHANGED fails
     \/ /\ fails < MaxFails /\ fails' = fails + 1
        /\ prompt' = FALSE
        /\ UNCHANGED <<port, input>>
  /\ UNCHANGED <<peer, deaths>>

app_serial_setBaudrate(b) == Set([port EXCEPT !.baud = b])
app_serial_setParity(p) == Set([port EXCEPT !.parity = p])
app_serial_setStopbit(s) == Set([port EXCEPT !.stopbit = s])

(* VMIN is 1, or VMIN is 0 and VTIME 0.2 seconds. *)
app_serial_setBlock(b) == Set([port EXCEPT !.block = b])

(* cfmakeraw also sets VMIN to 1 and clears the parity. *)
app_serial_setRaw == Set([port EXCEPT !.raw = TRUE, !.parity = "none", !.block = TRUE])

app_serial_flash == Discard /\ UNCHANGED <<port, peer, bounds>>

app_serial_init ==
  \/ Goto("init", "parity") /\ app_serial_setBaudrate(9600)
  \/ Goto("parity", "stopbit") /\ app_serial_setParity("none")
  \/ Goto("stopbit", "raw") /\ app_serial_setStopbit(1)
  \/ Goto("raw", "flush") /\ app_serial_setRaw
  \/ Goto("flush", "nonblock") /\ app_serial_flash

------------------------------------------------------------------------------
(* The AT commands *)

(* The module executes and answers a command that comes at its own speed. *)
Heard == up /\ port.baud = module.baud /\ port.parity = "none"

(* A command that is not heard, or is lost although it could be. *)
Unheard ==
  /\ UNCHANGED <<saved, up, input>>
  /\ prompt' = (prompt /\ ~Heard)

Write(setting) ==
  /\ \/ /\ Heard
        /\ saved' = setting
        /\ input' = input \o OK
        /\ UNCHANGED <<up, prompt>>
     \/ Unheard
  /\ UNCHANGED <<port, module, bounds>>

WriteReset ==
  /\ \/ /\ Heard
        /\ up' = FALSE
        /\ input' = input \o OK
        /\ UNCHANGED <<saved, prompt>>
     \/ Unheard
  /\ UNCHANGED <<port, module, bounds>>

(* memcmp of the bytes read with "OK\r\n".  A buffer that was not filled is  *)
(* compared with what is on the stack; a smaller one may give -1 or another  *)
(* negative number; only -1 is no acknowledgement.                           *)
IsAck(bytes) ==
  LET Differs(i) == bytes[i] # OK[i]
      First(i) == Differs(i) /\ \A j \in 1..(i - 1) : ~Differs(j)
  IN IF bytes = OK \/ \E i \in DOMAIN bytes : First(i) /\ bytes[i] > OK[i]
     THEN {TRUE} ELSE BOOLEAN

(* app_bt_isAck: one read of at most four bytes, of what has arrived by then *)
(* or within 0.2 seconds.                                                    *)
app_bt_isAck(from, yes, no) ==
  /\ pc = from
  /\ \E n \in 0..4 :
       /\ n <= Len(input)
       /\ port.block => n > 0
       /\ \E ack \in IsAck(SubSeq(input, 1, n)) : pc' = IF ack THEN yes ELSE no
       /\ input' = SubSeq(input, n + 1, Len(input))
       /\ prompt' = (prompt /\ n = Len(input))
  /\ UNCHANGED <<port, peer, bounds>>

app_bt_status(from, ack, yes, no) ==
  \/ Goto(from, ack) /\ Write(saved)
  \/ app_bt_isAck(ack, yes, no)

app_bt_setBraudRate ==
  \/ Goto("BAUD", "BAUD_ack") /\ Write([saved EXCEPT !.baud = 115200])
  \/ app_bt_isAck("BAUD_ack", "RESET", "RESET")

(* Mutant: the module is not reset. *)
app_bt_resetNot ==
  /\ Goto("RESET", "sleep")
  /\ UNCHANGED <<port, peer, input, prompt, bounds>>

app_bt_reset ==
  \/ Goto("RESET", "RESET_ack") /\ WriteReset
  \/ app_bt_isAck("RESET_ack", "sleep", "sleep")

app_bt_setmaddr ==
  \/ Goto("MADDR", "MADDR_ack") /\ Write([saved EXCEPT !.maddr = "0101"])
  \/ app_bt_isAck("MADDR_ack", "NETID", "NETID")

app_bt_setNetId ==
  \/ Goto("NETID", "NETID_ack") /\ Write([saved EXCEPT !.netid = "1234"])
  \/ app_bt_isAck("NETID_ack", "block", "block")

------------------------------------------------------------------------------
(* init_bt *)

(* Mutant: the port is made non-blocking first and raw then. *)
ConfigureRawLast ==
  \/ Goto("init", "raw") /\ app_serial_setBlock(FALSE)
  \/ Goto("raw", "ready") /\ app_serial_setRaw

Configure ==
  \/ app_serial_init
  \/ Goto("nonblock", "ready") /\ app_serial_setBlock(FALSE)

Probe ==
  \/ Goto("ready", "AT") /\ app_serial_flash
  \/ app_bt_status("AT", "AT_ack", "BAUD", "115200")
  \/ app_bt_setBraudRate
  \/ app_bt_reset

(* A second is enough for the module to come back. *)
Sleep ==
  /\ up
  /\ Goto("sleep", "115200")
  /\ UNCHANGED <<port, peer, input, prompt, bounds>>

Finish ==
  \/ Goto("115200", "flash") /\ app_serial_setBaudrate(115200)
  \/ Goto("flash", "AT_again") /\ app_serial_flash
  \/ app_bt_status("AT_again", "AT_again_ack", "MADDR", "failed")
  \/ app_bt_setmaddr
  \/ app_bt_setNetId
  \/ Goto("block", "last_flash") /\ app_serial_setBlock(TRUE)
  \/ Goto("last_flash", "done") /\ app_serial_flash

init_bt == Configure \/ Probe \/ Sleep \/ Finish

------------------------------------------------------------------------------
(* The module and the process *)

ModuleRestarts ==
  /\ ~up
  /\ up' = TRUE
  /\ module' = saved
  /\ UNCHANGED <<pc, port, saved, input, prompt, bounds>>

Dies ==
  /\ pc # "off" /\ deaths < MaxDeaths
  /\ pc' = "off" /\ deaths' = deaths + 1
  /\ UNCHANGED <<port, peer, input, prompt, fails>>

(* The daemon takes longer than the module to come back. *)
Starts ==
  /\ up
  /\ Goto("off", "init")
  /\ prompt' = TRUE
  /\ UNCHANGED <<port, peer, input, bounds>>

Ended == pc \in {"done", "failed"}

Next ==
  \/ init_bt
  \/ ModuleRestarts \/ Dies \/ Starts
  \/ Ended /\ UNCHANGED vars

Spec == Init /\ [][Next]_vars

(* The program runs, the module comes back, the daemon starts the program. *)
FairSpec ==
  Spec /\ WF_vars(init_bt) /\ WF_vars(ModuleRestarts) /\ WF_vars(Starts)

------------------------------------------------------------------------------
(* Properties *)

(* From whatever state an earlier start left port and module in, killed      *)
(* between any two steps, a start whose answers come in time ends well: port *)
(* and module at 115200, the port raw and blocking for the read thread, the  *)
(* addresses given (app_bt.c:9-55).                                          *)
ReadyAt115200 ==
  prompt /\ Ended =>
    /\ pc = "done"
    /\ port = [baud |-> 115200, parity |-> "none", stopbit |-> 1, raw |-> TRUE, block |-> TRUE]
    /\ module.baud = 115200
    /\ saved.maddr = "0101" /\ saved.netid = "1234"

(* While tcsetattr succeeds, a bring-up that the module does not answer ends *)
(* as well: no read waits for ever, although the port was left blocking by   *)
(* the run before and is so again after cfmakeraw (app_bt.c:11-16,           *)
(* app_serial.c:142-148).                                                    *)
BringUpEnds == pc = "init" ~> (Ended \/ pc = "off" \/ fails > 0)
================================================================================
