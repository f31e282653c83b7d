------------------------------- MODULE AppMqtt -------------------------------
(***************************************************************************)
(* The MQTT client of app/app_mqtt.c over the Paho library.  The main      *)
(* thread initialises and closes it, the library's receive thread hands    *)
(* commands to msgarrvd, every lost connection gets a thread of its own    *)
(* that runs connlost, and a worker publishes.  The library is external:   *)
(* its calls are taken whole and may fail; a session is clean, so that a   *)
(* lost or closed connection takes the subscription, the commands that     *)
(* were not handled and the frames that were not acknowledged with it.     *)
(***************************************************************************)
EXTENDS Naturals, Sequences, FiniteSets

CONSTANTS
  Handlers,     (* bound: threads that run connlost at the same time         *)
  MaxCommands,  (* bound: commands the broker sends                          *)
  MaxFrames     (* bound: frames a worker publishes                          *)

ASSUME MqttAssumption ==
  /\ IsFiniteSet(Handlers) /\ "main" \notin Handlers
  /\ MaxCommands \in Nat /\ MaxFrames \in Nat

VARIABLES
  pc,               (* the step of the main thread and of each handler       *)
  delay_seconds,    (* of each handler                                       *)
  mqtt_closing,
  receive_callback, (* whether one is registered                             *)
  client,           (* library: whether the client exists                    *)
  connected,        (* library: MQTTClient_isConnected                       *)
  subscribed,       (* broker: the session is subscribed to pull             *)
  inbox,            (* library: commands not handled, [id, freed]            *)
  commands,         (* how many commands the broker sent                     *)
  accepted,         (* the commands the callback took, in order              *)
  sender,           (* the step of the worker in app_mqtt_send               *)
  frames,           (* [sent, inflight, acked]: app_mqtt_send returned 0     *)
  crashed           (* the process died                                      *)

library == <<client, connected, subscribed, inbox>>
downlink == <<commands, accepted>>
uplink == <<sender, frames>>
vars == <<pc, delay_seconds, mqtt_closing, receive_callback, library, downlink,
          uplink, crashed>>

Threads == {"main"} \cup Handlers

MaxDelay == 8   (* RECONNECT_MAX_DELAY_SECONDS *)

Init ==
  /\ pc = [t \in Threads |-> IF t = "main" THEN "create" ELSE "none"]
  /\ delay_seconds = [h \in Handlers |-> 1]
  /\ mqtt_closing = FALSE
  /\ receive_callback = FALSE
  /\ client = FALSE /\ connected = FALSE /\ subscribed = FALSE
  /\ inbox = <<>>
  /\ commands = 0
  /\ accepted = <<>>
  /\ sender = "idle"
  /\ frames = [sent |-> {}, inflight |-> {}, acked |-> {}]
  /\ crashed = FALSE

Goto(t, from, to) ==
  /\ pc[t] = from
  /\ pc' = [pc EXCEPT ![t] = to]

------------------------------------------------------------------------------
(* The library *)

(* A session ends, and another begins if c: what it held is freed, a second  *)
(* time if msgarrvd did so before, which the allocator may or may not survive. *)
NewSession(c) ==
  /\ connected' = c
  /\ subscribed' = FALSE
  /\ inbox' = <<>>
  /\ frames' = [frames EXCEPT !.inflight = {}]
  /\ \/ UNCHANGED crashed
     \/ (\E i \in DOMAIN inbox : inbox[i].freed) /\ crashed' = TRUE

SessionEnds == NewSession(FALSE)

(* The network or the broker drops the connection; connlost gets a thread.   *)
ConnectionLost(h) ==
  /\ connected
  /\ SessionEnds
  /\ Goto(h, "none", "check")
  /\ delay_seconds' = [delay_seconds EXCEPT ![h] = 1]
  /\ UNCHANGED <<mqtt_closing, receive_callback, client, downlink, sender>>

CommandArrives ==
  /\ connected /\ subscribed
  /\ commands < MaxCommands
  /\ commands' = commands + 1
  /\ inbox' = Append(inbox, [id |-> commands + 1, freed |-> FALSE])
  /\ UNCHANGED <<pc, delay_seconds, mqtt_closing, receive_callback, client,
                 connected, subscribed, accepted, uplink, crashed>>

FrameAcked ==
  /\ \E f \in frames.inflight :
       frames' = [frames EXCEPT !.inflight = @ \ {f}, !.acked = @ \cup {f}]
  /\ UNCHANGED <<pc, delay_seconds, mqtt_closing, receive_callback, library,
                 downlink, sender, crashed>>

------------------------------------------------------------------------------
(* app_mqtt_connect_and_subscribe, with what its caller does next            *)

(* A client that is connected already may refuse or start over.              *)
ConnectOk(t) ==
  /\ client
  /\ Goto(t, "connect", "subscribe")
  /\ NewSession(TRUE)
  /\ UNCHANGED <<delay_seconds, mqtt_closing, receive_callback, client, downlink, sender>>

Failed(t) == IF t = "main" THEN "destroy_exit" ELSE "sleep"
Succeeded(t) == IF t = "main" THEN "inited" ELSE "none"

ConnectFails(t) ==
  /\ Goto(t, "connect", Failed(t))
  /\ UNCHANGED <<delay_seconds, mqtt_closing, receive_callback, library, downlink,
                 uplink, crashed>>

SubscribeOk(t) ==
  /\ client /\ connected
  /\ Goto(t, "subscribe", Succeeded(t))
  /\ subscribed' = TRUE
  /\ UNCHANGED <<delay_seconds, mqtt_closing, receive_callback, client, connected,
                 inbox, downlink, uplink, crashed>>

(* Mutant: a subscription that failed leaves the connection as it is. *)
SubscribeFailsStays(t) ==
  /\ Goto(t, "subscribe", Failed(t))
  /\ UNCHANGED <<delay_seconds, mqtt_closing, receive_callback, library, downlink,
                 uplink, crashed>>

SubscribeFails(t) ==
  /\ Goto(t, "subscribe", "disconnect")
  /\ UNCHANGED <<delay_seconds, mqtt_closing, receive_callback, library, downlink,
                 uplink, crashed>>

(* MQTTClient_disconnect, which does not call connlost. *)
Disconnect(t) ==
  /\ Goto(t, "disconnect", Failed(t))
  /\ IF connected THEN SessionEnds
                  ELSE UNCHANGED <<connected, subscribed, inbox, frames, crashed>>
  /\ UNCHANGED <<delay_seconds, mqtt_closing, receive_callback, client, downlink, sender>>

ConnectAndSubscribe(t) ==
  \/ ConnectOk(t) \/ ConnectFails(t)
  \/ SubscribeOk(t) \/ SubscribeFails(t)
  \/ Disconnect(t)

------------------------------------------------------------------------------
(* connlost *)

(* Mutant: the loop does not look at mqtt_closing. *)
ConnlostForever(h) ==
  /\ Goto(h, "check", "connect")
  /\ UNCHANGED <<delay_seconds, mqtt_closing, receive_callback, library, downlink,
                 uplink, crashed>>

Connlost(h) ==
  /\ Goto(h, "check", IF mqtt_closing THEN "none" ELSE "connect")
  /\ UNCHANGED <<delay_seconds, mqtt_closing, receive_callback, library, downlink,
                 uplink, crashed>>

(* Mutant: one attempt after the pause and no more. *)
SleepGivesUp(h) ==
  /\ Goto(h, "sleep", IF delay_seconds[h] < MaxDelay THEN "check" ELSE "none")
  /\ delay_seconds' = [delay_seconds EXCEPT ![h] = IF @ < MaxDelay THEN 2 * @ ELSE @]
  /\ UNCHANGED <<mqtt_closing, receive_callback, library, downlink, uplink, crashed>>

Sleep(h) ==
  /\ Goto(h, "sleep", "check")
  /\ delay_seconds' = [delay_seconds EXCEPT ![h] = IF @ < MaxDelay THEN 2 * @ ELSE @]
  /\ UNCHANGED <<mqtt_closing, receive_callback, library, downlink, uplink, crashed>>

Handle(h) == Connlost(h) \/ ConnectAndSubscribe(h) \/ Sleep(h)

------------------------------------------------------------------------------
(* msgarrvd *)

Accept(m) ==
  /\ inbox' = Tail(inbox)
  /\ accepted' = Append(accepted, m.id)
  /\ UNCHANGED crashed

(* The message is freed and 0 returned: it stays on the library's queue. *)
Refuse(m) ==
  /\ inbox' = [inbox EXCEPT ![1].freed = TRUE]
  /\ UNCHANGED <<accepted, crashed>>

Crash ==
  /\ crashed' = TRUE
  /\ UNCHANGED <<inbox, accepted>>

(* Mutant: 0 for success, as the callback returns it. *)
MsgarrvdZero ==
  /\ inbox # <<>>
  /\ IF receive_callback
     THEN \/ inbox' = [inbox EXCEPT ![1].freed = TRUE]
             /\ accepted' = Append(accepted, Head(inbox).id)
             /\ UNCHANGED crashed
          \/ inbox' = Tail(inbox) /\ UNCHANGED <<accepted, crashed>>
     ELSE Refuse(Head(inbox))
  /\ UNCHANGED <<pc, delay_seconds, mqtt_closing, receive_callback, client,
                 connected, subscribed, commands, uplink>>

(* receive_callback accepts, refuses, or dies of a command that is no JSON;  *)
(* a message that was freed before may do any of this, whatever it said.     *)
Msgarrvd ==
  /\ inbox # <<>>
  /\ \/ receive_callback /\ Accept(Head(inbox))
     \/ Refuse(Head(inbox))
     \/ (receive_callback \/ Head(inbox).freed) /\ Crash
  /\ UNCHANGED <<pc, delay_seconds, mqtt_closing, receive_callback, client,
                 connected, subscribed, commands, uplink>>

------------------------------------------------------------------------------
(* app_mqtt_init, app_mqtt_register_callback and app_mqtt_close *)

Create ==
  /\ \/ Goto("main", "create", "callbacks") /\ client' = TRUE
     \/ Goto("main", "create", "failed") /\ UNCHANGED client
  /\ mqtt_closing' = FALSE
  /\ UNCHANGED <<delay_seconds, receive_callback, connected, subscribed, inbox,
                 downlink, uplink, crashed>>

SetCallbacks ==
  /\ \/ Goto("main", "callbacks", "connect")
     \/ Goto("main", "callbacks", "destroy_exit")
  /\ UNCHANGED <<delay_seconds, mqtt_closing, receive_callback, library, downlink,
                 uplink, crashed>>

Destroy(from, to) ==
  /\ Goto("main", from, to)
  /\ client' = FALSE
  /\ SessionEnds
  /\ UNCHANGED <<delay_seconds, mqtt_closing, receive_callback, downlink, sender>>

RegisterCallback ==
  /\ Goto("main", "inited", "up")
  /\ receive_callback' = TRUE
  /\ UNCHANGED <<delay_seconds, mqtt_closing, library, downlink, uplink, crashed>>

(* Called while the application is starting or running. *)
Close ==
  /\ Goto("main", pc["main"], "isConnected")
  /\ pc["main"] \in {"inited", "up"}
  /\ mqtt_closing' = TRUE
  /\ UNCHANGED <<delay_seconds, receive_callback, library, downlink, uplink, crashed>>

(* Mutant: a client that is not connected is not destroyed either. *)
CloseConnectedNoDestroy ==
  /\ Goto("main", "isConnected", IF connected THEN "closing" ELSE "closed")
  /\ UNCHANGED <<delay_seconds, mqtt_closing, receive_callback, library, downlink,
                 uplink, crashed>>

(* Disconnected if connected at this moment, destroyed in any case. *)
CloseConnected ==
  /\ Goto("main", "isConnected", "closing")
  /\ IF connected THEN SessionEnds
                  ELSE UNCHANGED <<connected, subscribed, inbox, frames, crashed>>
  /\ UNCHANGED <<delay_seconds, mqtt_closing, receive_callback, client, downlink, sender>>

Main ==
  \/ Create \/ SetCallbacks \/ ConnectAndSubscribe("main")
  \/ Destroy("destroy_exit", "failed")
  \/ RegisterCallback
  \/ CloseConnected \/ Destroy("closing", "closed")

------------------------------------------------------------------------------
(* app_mqtt_send, called by a worker *)

SendCheck ==
  /\ sender = "idle"
  /\ pc["main"] \in {"inited", "up", "isConnected", "closing"}
  /\ Cardinality(frames.sent) < MaxFrames
  /\ connected
  /\ sender' = "publish"
  /\ UNCHANGED <<pc, delay_seconds, mqtt_closing, receive_callback, library, downlink,
                 frames, crashed>>

(* Publishing fails, or the frame is on its way and app_mqtt_send returns 0. *)
SendPublish ==
  /\ sender = "publish"
  /\ sender' = "idle"
  /\ \/ UNCHANGED frames
     \/ LET f == Cardinality(frames.sent) + 1 IN
        /\ connected
        /\ frames' = [frames EXCEPT !.sent = @ \cup {f}, !.inflight = @ \cup {f}]
  /\ UNCHANGED <<pc, delay_seconds, mqtt_closing, receive_callback, library, downlink,
                 crashed>>

------------------------------------------------------------------------------
Ended == crashed \/ pc["main"] \in {"failed", "closed"}

Step ==
  \/ Main \/ Close
  \/ \E h \in Handlers : Handle(h) \/ ConnectionLost(h)
  \/ CommandArrives \/ Msgarrvd \/ FrameAcked
  \/ SendCheck \/ SendPublish

Next ==
  \/ ~crashed /\ Step
  \/ Ended /\ UNCHANGED vars

Spec == Init /\ [][Next]_vars

(* Every thread runs; connecting and subscribing do not fail every time they *)
(* are tried.                                                                *)
FairSpec ==
  /\ Spec
  /\ WF_vars(~crashed /\ Main)
  /\ \A h \in Handlers :
       /\ WF_vars(~crashed /\ Handle(h))
       /\ SF_vars(~crashed /\ ConnectOk(h))
       /\ SF_vars(~crashed /\ SubscribeOk(h))

------------------------------------------------------------------------------
(* Properties *)

Connecting(t) == pc[t] \in {"check", "connect", "subscribe", "disconnect", "sleep"}

(* A connection without its subscription is one somebody is still working    *)
(* on: the broker never takes the gateway for connected while no command can *)
(* reach it, however many threads reconnect at the same time                 *)
(* (app_mqtt.c:30-36, 70-78).                                                *)
SubscribedOrWorkedOn ==
  connected => subscribed \/ \E t \in Threads : pc[t] \in {"subscribe", "disconnect"}

(* While the application is up a connection that is lost has a thread that   *)
(* makes a new one: none gives up, and none takes another's connection down  *)
(* and leaves (app_mqtt.c:34, 64-84).                                        *)
SomebodyReconnects ==
  pc["main"] \in {"inited", "up"} /\ ~connected /\ ~mqtt_closing =>
    \E h \in Handlers : Connecting(h)

(* A closed client is not connected again, although a thread may have looked *)
(* at mqtt_closing before it was set (app_mqtt.c:70, 126-131).               *)
NoConnectionAfterClose ==
  pc["main"] = "closed" => ~connected

(* No command is taken twice, and none before an earlier one                 *)
(* (app_mqtt.c:47-57).                                                       *)
AcceptedInOrder ==
  \A i, j \in DOMAIN accepted : i < j => accepted[i] < accepted[j]

(* The gateway is subscribed again after every loss (app_mqtt.c:70-78,       *)
(* README.md:406), unless it ends.                                           *)
Reconnects ==
  (pc["main"] = "up" /\ ~connected) ~> (subscribed \/ mqtt_closing \/ crashed)

(* After app_mqtt_close no thread is left in connlost (app_mqtt.c:70, 126).  *)
HandlersEnd ==
  mqtt_closing ~> (crashed \/ \A h \in Handlers : pc[h] = "none")
==============================================================================
