---------------------------- MODULE AppMqtt_proofs ----------------------------
(***************************************************************************)
(* Theorems about AppMqtt, for any number of threads in connlost, of       *)
(* commands and of frames.                                                 *)
(***************************************************************************)
EXTENDS AppMqtt, SequenceTheorems, FiniteSetTheorems, TLAPS

Attempt == {"connect", "subscribe", "disconnect"}
MainSteps == Attempt \cup {"create", "callbacks", "destroy_exit", "failed", "inited", "up",
                           "isConnected", "closing", "closed"}
HandlerSteps == Attempt \cup {"none", "check", "sleep"}

Delays == {1, 2, 4, 8}
Entries == [id : Nat, freed : BOOLEAN]

TypeOK ==
  /\ pc \in [Threads -> MainSteps \cup HandlerSteps]
  /\ delay_seconds \in [Handlers -> Delays]
  /\ mqtt_closing \in BOOLEAN /\ receive_callback \in BOOLEAN
  /\ client \in BOOLEAN /\ connected \in BOOLEAN /\ subscribed \in BOOLEAN
  /\ inbox \in Seq(Entries)
  /\ commands \in Nat
  /\ accepted \in Seq(Nat)
  /\ sender \in {"idle", "publish"}
  /\ frames \in [sent : SUBSET Nat, inflight : SUBSET Nat, acked : SUBSET Nat]
  /\ IsFiniteSet(frames.sent)
  /\ crashed \in BOOLEAN

(* Commands wait in the order in which the broker numbered them, behind      *)
(* every command that was taken.                                             *)
InboxInOrder ==
  /\ \A i, j \in DOMAIN inbox : i < j => inbox[i].id < inbox[j].id
  /\ \A i \in DOMAIN inbox : inbox[i].id <= commands
  /\ \A i \in DOMAIN accepted : accepted[i] <= commands
  /\ \A i \in DOMAIN accepted, j \in DOMAIN inbox : accepted[i] < inbox[j].id

(* A client that was closed is gone, and with it what could connect.         *)
ClosedIsGone == pc["main"] = "closed" => ~client

IInv ==
  /\ TypeOK
  /\ SubscribedOrWorkedOn /\ SomebodyReconnects
  /\ ClosedIsGone /\ NoConnectionAfterClose
  /\ InboxInOrder /\ AcceptedInOrder

------------------------------------------------------------------------------
(* Control flow *)

(* main and the threads in connlost are threads, and main is none of those.  *)
LEMMA ThreadNames ==
  /\ "main" \in Threads
  /\ \A h \in Handlers : h \in Threads /\ h # "main"
BY MqttAssumption DEF Threads

(* Goto moves one thread and no other. *)
LEMMA GotoMoves ==
  ASSUME TypeOK, NEW t \in Threads, NEW from, NEW to \in MainSteps \cup HandlerSteps,
         Goto(t, from, to)
  PROVE  /\ pc' \in [Threads -> MainSteps \cup HandlerSteps]
         /\ pc[t] = from /\ pc'[t] = to
         /\ \A u \in Threads \ {t} : pc'[u] = pc[u]
BY DEF TypeOK, Goto

(* Where a failed or successful attempt to connect leads to is a step. *)
LEMMA AttemptEnds ==
  ASSUME NEW t
  PROVE  /\ Failed(t) \in MainSteps \cup HandlerSteps
         /\ Succeeded(t) \in MainSteps \cup HandlerSteps
BY DEF Failed, Succeeded, MainSteps, HandlerSteps

------------------------------------------------------------------------------
(* Type correctness *)

(* A new session leaves the variables of the library within their types. *)
LEMMA SessionTypes ==
  ASSUME TypeOK, NEW c \in BOOLEAN, NewSession(c)
  PROVE  /\ connected' \in BOOLEAN /\ subscribed' \in BOOLEAN
         /\ inbox' \in Seq(Entries)
         /\ frames' \in [sent : SUBSET Nat, inflight : SUBSET Nat, acked : SUBSET Nat]
         /\ frames'.sent = frames.sent
         /\ crashed' \in BOOLEAN
<1>1. inbox' \in Seq(Entries)
  BY DEF NewSession
<1>2. frames' = [frames EXCEPT !.inflight = {}]
  BY DEF NewSession
<1>3. /\ frames' \in [sent : SUBSET Nat, inflight : SUBSET Nat, acked : SUBSET Nat]
      /\ frames'.sent = frames.sent
  BY <1>2 DEF TypeOK
<1>4. connected' \in BOOLEAN /\ subscribed' \in BOOLEAN /\ crashed' \in BOOLEAN
  BY DEF NewSession, TypeOK
<1> QED BY <1>1, <1>3, <1>4

LEMMA ConnectTypes ==
  ASSUME TypeOK, NEW t \in Threads, ConnectAndSubscribe(t)
  PROVE  TypeOK'
<1> USE DEF library, downlink, uplink
<1>1. CASE ConnectOk(t)
  <2>1. pc' \in [Threads -> MainSteps \cup HandlerSteps]
    BY <1>1, GotoMoves DEF ConnectOk, MainSteps, Attempt
  <2> QED BY <1>1, <2>1, SessionTypes DEF ConnectOk, TypeOK
<1>2. CASE ConnectFails(t)
  <2>1. pc' \in [Threads -> MainSteps \cup HandlerSteps]
    BY <1>2, GotoMoves, AttemptEnds DEF ConnectFails
  <2> QED BY <1>2, <2>1 DEF ConnectFails, TypeOK
<1>3. CASE SubscribeOk(t)
  <2>1. pc' \in [Threads -> MainSteps \cup HandlerSteps]
    BY <1>3, GotoMoves, AttemptEnds DEF SubscribeOk
  <2> QED BY <1>3, <2>1 DEF SubscribeOk, TypeOK
<1>4. CASE SubscribeFails(t)
  <2>1. pc' \in [Threads -> MainSteps \cup HandlerSteps]
    BY <1>4, GotoMoves DEF SubscribeFails, MainSteps, Attempt
  <2> QED BY <1>4, <2>1 DEF SubscribeFails, TypeOK
<1>5. CASE Disconnect(t)
  <2>1. pc' \in [Threads -> MainSteps \cup HandlerSteps]
    BY <1>5, GotoMoves, AttemptEnds DEF Disconnect
  <2>2. CASE connected
    BY <1>5, <2>1, <2>2, SessionTypes DEF Disconnect, SessionEnds, TypeOK
  <2>3. CASE ~connected
    BY <1>5, <2>1, <2>3 DEF Disconnect, TypeOK
  <2> QED BY <2>2, <2>3
<1> QED BY <1>1, <1>2, <1>3, <1>4, <1>5 DEF ConnectAndSubscribe

LEMMA HandleTypes ==
  ASSUME TypeOK, NEW h \in Handlers, Handle(h) \/ ConnectionLost(h)
  PROVE  TypeOK'
<1> USE DEF library, downlink, uplink
<1>0. h \in Threads
  BY ThreadNames
<1>1. CASE Connlost(h)
  <2>1. pc' \in [Threads -> MainSteps \cup HandlerSteps]
    BY <1>0, <1>1, GotoMoves DEF Connlost, HandlerSteps, Attempt
  <2> QED BY <1>1, <2>1 DEF Connlost, TypeOK
<1>2. CASE ConnectAndSubscribe(h)
  BY <1>0, <1>2, ConnectTypes
<1>3. CASE Sleep(h)
  <2>1. pc' \in [Threads -> MainSteps \cup HandlerSteps]
    BY <1>0, <1>3, GotoMoves DEF Sleep, HandlerSteps, Attempt
  <2>2. \A d \in Delays : d < MaxDelay => 2 * d \in Delays
    BY DEF Delays, MaxDelay
  <2>3. delay_seconds' \in [Handlers -> Delays]
    BY <1>3, <2>2 DEF Sleep, TypeOK
  <2> QED BY <1>3, <2>1, <2>3 DEF Sleep, TypeOK
<1>4. CASE ConnectionLost(h)
  <2>1. pc' \in [Threads -> MainSteps \cup HandlerSteps]
    BY <1>0, <1>4, GotoMoves DEF ConnectionLost, HandlerSteps
  <2>2. delay_seconds' \in [Handlers -> Delays]
    BY <1>4 DEF ConnectionLost, TypeOK, Delays
  <2> QED BY <1>4, <2>1, <2>2, SessionTypes DEF ConnectionLost, SessionEnds, TypeOK
<1> QED BY <1>1, <1>2, <1>3, <1>4 DEF Handle

LEMMA MainTypes ==
  ASSUME TypeOK, Main \/ Close
  PROVE  TypeOK'
<1> USE DEF library, downlink, uplink
<1>0. "main" \in Threads
  BY ThreadNames
<1>1. CASE Create
  <2>1. pc' \in [Threads -> MainSteps \cup HandlerSteps]
    BY <1>0, <1>1, GotoMoves DEF Create, MainSteps
  <2> QED BY <1>1, <2>1 DEF Create, TypeOK
<1>2. CASE SetCallbacks
  <2>1. pc' \in [Threads -> MainSteps \cup HandlerSteps]
    BY <1>0, <1>2, GotoMoves DEF SetCallbacks, MainSteps, Attempt
  <2> QED BY <1>2, <2>1 DEF SetCallbacks, TypeOK
<1>3. CASE ConnectAndSubscribe("main")
  BY <1>0, <1>3, ConnectTypes
<1>4. ASSUME NEW from, NEW to \in MainSteps, Destroy(from, to)
      PROVE  TypeOK'
  <2>1. pc' \in [Threads -> MainSteps \cup HandlerSteps]
    BY <1>0, <1>4, GotoMoves DEF Destroy
  <2> QED BY <1>4, <2>1, SessionTypes DEF Destroy, SessionEnds, TypeOK
<1>5. CASE RegisterCallback
  <2>1. pc' \in [Threads -> MainSteps \cup HandlerSteps]
    BY <1>0, <1>5, GotoMoves DEF RegisterCallback, MainSteps
  <2> QED BY <1>5, <2>1 DEF RegisterCallback, TypeOK
<1>6. CASE CloseConnected
  <2>1. pc' \in [Threads -> MainSteps \cup HandlerSteps]
    BY <1>0, <1>6, GotoMoves DEF CloseConnected, MainSteps
  <2>2. CASE connected
    BY <1>6, <2>1, <2>2, SessionTypes DEF CloseConnected, SessionEnds, TypeOK
  <2>3. CASE ~connected
    BY <1>6, <2>1, <2>3 DEF CloseConnected, TypeOK
  <2> QED BY <2>2, <2>3
<1>7. CASE Close
  <2>1. pc' \in [Threads -> MainSteps \cup HandlerSteps]
    BY <1>0, <1>7, GotoMoves DEF Close, MainSteps
  <2> QED BY <1>7, <2>1 DEF Close, TypeOK
<1> QED BY <1>1, <1>2, <1>3, <1>4, <1>5, <1>6, <1>7 DEF Main, MainSteps

LEMMA MessageTypes ==
  ASSUME TypeOK, CommandArrives \/ Msgarrvd \/ FrameAcked \/ SendCheck \/ SendPublish
  PROVE  TypeOK'
<1> USE DEF library, downlink, uplink
<1>1. CASE CommandArrives
  <2>1. commands' \in Nat
    BY <1>1 DEF CommandArrives, TypeOK
  <2>2. [id |-> commands + 1, freed |-> FALSE] \in Entries
    BY DEF TypeOK, Entries
  <2>3. inbox' \in Seq(Entries)
    BY <1>1, <2>2, AppendProperties DEF CommandArrives, TypeOK
  <2> QED BY <1>1, <2>1, <2>3 DEF CommandArrives, TypeOK
<1>2. CASE Msgarrvd
  <2>1. inbox # <<>> /\ inbox \in Seq(Entries) /\ accepted \in Seq(Nat)
    BY <1>2 DEF Msgarrvd, TypeOK
  <2>2. Head(inbox) \in Entries /\ Tail(inbox) \in Seq(Entries) /\ 1 \in DOMAIN inbox
    BY <2>1, HeadTailProperties, EmptySeq, LenProperties
  <2>3. CASE Accept(Head(inbox))
    <3>1. Head(inbox).id \in Nat
      BY <2>2 DEF Entries
    <3>2. accepted' \in Seq(Nat)
      BY <2>1, <2>3, <3>1, AppendProperties DEF Accept
    <3> QED BY <1>2, <2>2, <2>3, <3>2 DEF Msgarrvd, Accept, TypeOK
  <2>4. CASE Refuse(Head(inbox))
    <3>1. inbox' = [inbox EXCEPT ![1] = [inbox[1] EXCEPT !.freed = TRUE]]
      BY <2>4 DEF Refuse
    <3>2. inbox[1] \in Entries
      BY <2>1, <2>2, ElementOfSeq, LenProperties
    <3>3. [inbox[1] EXCEPT !.freed = TRUE] \in Entries
      BY <3>2 DEF Entries
    <3>4. inbox' \in Seq(Entries)
      BY <2>1, <2>2, <3>1, <3>3, ExceptSeq
    <3> QED BY <1>2, <2>4, <3>4 DEF Msgarrvd, Refuse, TypeOK
  <2>5. CASE Crash
    BY <1>2, <2>5 DEF Msgarrvd, Crash, TypeOK
  <2> QED BY <1>2, <2>3, <2>4, <2>5 DEF Msgarrvd
<1>3. CASE FrameAcked
  <2>1. PICK f \in frames.inflight :
          frames' = [frames EXCEPT !.inflight = @ \ {f}, !.acked = @ \cup {f}]
    BY <1>3 DEF FrameAcked
  <2>2. /\ frames' \in [sent : SUBSET Nat, inflight : SUBSET Nat, acked : SUBSET Nat]
        /\ frames'.sent = frames.sent
    BY <2>1 DEF TypeOK
  <2> QED BY <1>3, <2>2 DEF FrameAcked, TypeOK
<1>4. CASE SendCheck
  BY <1>4 DEF SendCheck, TypeOK
<1>5. CASE SendPublish
  <2>1. CASE UNCHANGED frames
    BY <1>5, <2>1 DEF SendPublish, TypeOK
  <2>2. CASE ~UNCHANGED frames
    <3> DEFINE f == Cardinality(frames.sent) + 1
    <3>1. frames' = [frames EXCEPT !.sent = @ \cup {f}, !.inflight = @ \cup {f}]
      BY <1>5, <2>2 DEF SendPublish
    <3>2. f \in Nat
      BY FS_CardinalityType DEF TypeOK
    <3> HIDE DEF f
    <3>3. IsFiniteSet(frames.sent \cup {f})
      BY FS_AddElement DEF TypeOK
    <3>4. /\ frames' \in [sent : SUBSET Nat, inflight : SUBSET Nat, acked : SUBSET Nat]
          /\ frames'.sent = frames.sent \cup {f}
      BY <3>1, <3>2 DEF TypeOK
    <3> QED BY <1>5, <3>3, <3>4 DEF SendPublish, TypeOK
  <2> QED BY <2>1, <2>2
<1> QED BY <1>1, <1>2, <1>3, <1>4, <1>5

LEMMA NextTypes == TypeOK /\ [Next]_vars => TypeOK'
<1> SUFFICES ASSUME TypeOK, [Next]_vars PROVE TypeOK'
  OBVIOUS
<1>1. CASE UNCHANGED vars
  BY <1>1 DEF vars, library, downlink, uplink, TypeOK
<1>2. CASE Step
  BY <1>2, MainTypes, HandleTypes, MessageTypes DEF Step
<1> QED BY <1>1, <1>2 DEF Next

LEMMA InitTypes == Init => TypeOK
<1> SUFFICES ASSUME Init PROVE TypeOK
  OBVIOUS
<1>1. pc \in [Threads -> MainSteps \cup HandlerSteps]
  BY DEF Init, MainSteps, HandlerSteps
<1>2. delay_seconds \in [Handlers -> Delays]
  BY DEF Init, Delays
<1>3. /\ frames \in [sent : SUBSET Nat, inflight : SUBSET Nat, acked : SUBSET Nat]
      /\ IsFiniteSet(frames.sent)
  BY FS_EmptySet DEF Init
<1>4. inbox \in Seq(Entries) /\ accepted \in Seq(Nat)
  BY DEF Init
<1>5. commands \in Nat /\ sender \in {"idle", "publish"}
  BY DEF Init
<1> QED BY <1>1, <1>2, <1>3, <1>4, <1>5 DEF Init, TypeOK

------------------------------------------------------------------------------
(* The connection *)

(* What the four properties of the connection look at. *)
ConnectionInv ==
  /\ SubscribedOrWorkedOn /\ SomebodyReconnects
  /\ ClosedIsGone /\ NoConnectionAfterClose

(* An attempt to connect, of main or of a thread in connlost.  The cases say *)
(* who is at work on the connection afterwards.                              *)
LEMMA ConnectKeeps ==
  ASSUME TypeOK, ConnectionInv, NEW t \in Threads, ConnectAndSubscribe(t)
  PROVE  ConnectionInv'
<1> USE ThreadNames, MqttAssumption DEF ConnectionInv, ClosedIsGone, NoConnectionAfterClose, library
<1>1. CASE ConnectOk(t)
  <2>1. pc[t] = "connect" /\ pc'[t] = "subscribe" /\ \A u \in Threads \ {t} : pc'[u] = pc[u]
    BY <1>1, GotoMoves DEF ConnectOk, MainSteps, Attempt
  <2>2. SubscribedOrWorkedOn'
    BY <2>1 DEF SubscribedOrWorkedOn
  <2>3. connected' /\ client /\ client'
    BY <1>1 DEF ConnectOk, NewSession
  <2> QED BY <2>1, <2>2, <2>3 DEF SomebodyReconnects
<1>2. CASE ConnectFails(t)
  <2>1. pc[t] = "connect" /\ pc'[t] = Failed(t) /\ \A u \in Threads \ {t} : pc'[u] = pc[u]
    BY <1>2, GotoMoves, AttemptEnds DEF ConnectFails
  <2>2. UNCHANGED <<client, connected, subscribed, mqtt_closing>>
    BY <1>2 DEF ConnectFails
  <2>3. SubscribedOrWorkedOn'
    BY <2>1, <2>2 DEF SubscribedOrWorkedOn
  <2>4. SomebodyReconnects'
    BY <2>1, <2>2 DEF SomebodyReconnects, Connecting, Failed
  <2> QED BY <2>1, <2>2, <2>3, <2>4 DEF Failed
<1>3. CASE SubscribeOk(t)
  <2>1. pc[t] = "subscribe" /\ pc'[t] = Succeeded(t) /\ \A u \in Threads \ {t} : pc'[u] = pc[u]
    BY <1>3, GotoMoves, AttemptEnds DEF SubscribeOk
  <2>2. subscribed' /\ connected /\ UNCHANGED <<client, connected>>
    BY <1>3 DEF SubscribeOk
  <2> QED BY <2>1, <2>2 DEF SubscribedOrWorkedOn, SomebodyReconnects, Succeeded
<1>4. CASE SubscribeFails(t)
  <2>1. pc[t] = "subscribe" /\ pc'[t] = "disconnect" /\ \A u \in Threads \ {t} : pc'[u] = pc[u]
    BY <1>4, GotoMoves DEF SubscribeFails, MainSteps, Attempt
  <2>2. UNCHANGED <<client, connected, subscribed, mqtt_closing>>
    BY <1>4 DEF SubscribeFails
  <2>3. SubscribedOrWorkedOn'
    BY <2>1, <2>2 DEF SubscribedOrWorkedOn
  <2>4. SomebodyReconnects'
    BY <2>1, <2>2 DEF SomebodyReconnects, Connecting
  <2> QED BY <2>1, <2>2, <2>3, <2>4
<1>5. CASE Disconnect(t)
  <2>1. pc[t] = "disconnect" /\ pc'[t] = Failed(t) /\ \A u \in Threads \ {t} : pc'[u] = pc[u]
    BY <1>5, GotoMoves, AttemptEnds DEF Disconnect
  <2>2. ~connected' /\ UNCHANGED <<client, mqtt_closing>>
    BY <1>5 DEF Disconnect, SessionEnds, NewSession
  <2>3. SomebodyReconnects'
    <3>1. CASE t = "main"
      BY <2>1, <3>1 DEF SomebodyReconnects, Failed
    <3>2. CASE t # "main"
      <4>1. t \in Handlers /\ Connecting(t)'
        BY <2>1, <3>2 DEF Threads, Connecting, Failed
      <4> QED BY <4>1 DEF SomebodyReconnects
    <3> QED BY <3>1, <3>2
  <2> QED BY <2>1, <2>2, <2>3 DEF SubscribedOrWorkedOn, Failed
<1> QED BY <1>1, <1>2, <1>3, <1>4, <1>5 DEF ConnectAndSubscribe

LEMMA HandleKeeps ==
  ASSUME TypeOK, ConnectionInv, NEW h \in Handlers, Handle(h) \/ ConnectionLost(h)
  PROVE  ConnectionInv'
<1> USE ThreadNames, MqttAssumption DEF ConnectionInv, ClosedIsGone, NoConnectionAfterClose, library
<1>1. CASE Connlost(h)
  <2>1. /\ pc[h] = "check" /\ pc'[h] = IF mqtt_closing THEN "none" ELSE "connect"
        /\ \A u \in Threads \ {h} : pc'[u] = pc[u]
    BY <1>1, GotoMoves DEF Connlost, HandlerSteps, Attempt
  <2>2. UNCHANGED <<client, connected, subscribed, mqtt_closing>>
    BY <1>1 DEF Connlost
  <2>3. SubscribedOrWorkedOn'
    BY <2>1, <2>2 DEF SubscribedOrWorkedOn
  <2>4. SomebodyReconnects'
    BY <2>1, <2>2 DEF SomebodyReconnects, Connecting
  <2> QED BY <2>1, <2>2, <2>3, <2>4
<1>2. CASE ConnectAndSubscribe(h)
  BY <1>2, ConnectKeeps
<1>3. CASE Sleep(h)
  <2>1. pc[h] = "sleep" /\ pc'[h] = "check" /\ \A u \in Threads \ {h} : pc'[u] = pc[u]
    BY <1>3, GotoMoves DEF Sleep, HandlerSteps
  <2>2. UNCHANGED <<client, connected, subscribed, mqtt_closing>>
    BY <1>3 DEF Sleep
  <2>3. SubscribedOrWorkedOn'
    BY <2>1, <2>2 DEF SubscribedOrWorkedOn
  <2>4. SomebodyReconnects'
    BY <2>1, <2>2 DEF SomebodyReconnects, Connecting
  <2> QED BY <2>1, <2>2, <2>3, <2>4
<1>4. CASE ConnectionLost(h)
  <2>1. pc'[h] = "check" /\ \A u \in Threads \ {h} : pc'[u] = pc[u]
    BY <1>4, GotoMoves DEF ConnectionLost, HandlerSteps
  <2>2. ~connected' /\ UNCHANGED <<client, mqtt_closing>>
    BY <1>4 DEF ConnectionLost, SessionEnds, NewSession
  <2> QED BY <2>1, <2>2 DEF SubscribedOrWorkedOn, SomebodyReconnects, Connecting
<1> QED BY <1>1, <1>2, <1>3, <1>4 DEF Handle

(* A step of main that leaves the connection to the others. *)
LEMMA MainMoves ==
  ASSUME TypeOK, ConnectionInv, NEW from \in MainSteps \ Attempt, NEW to \in MainSteps,
         Goto("main", from, to),
         UNCHANGED <<connected, subscribed>>,
         to \in {"inited", "up"} =>
           from \in {"inited", "up"} /\ (mqtt_closing => mqtt_closing'),
         to # "closed"
  PROVE  ConnectionInv'
<1>1. /\ pc["main"] = from /\ pc'["main"] = to
      /\ \A u \in Threads \ {"main"} : pc'[u] = pc[u]
  BY GotoMoves, ThreadNames
<1>2. SubscribedOrWorkedOn'
  <2>1. \A t \in Threads : pc[t] \in {"subscribe", "disconnect"} => t # "main"
    BY <1>1 DEF Attempt
  <2> QED BY <1>1, <2>1 DEF ConnectionInv, SubscribedOrWorkedOn
<1>3. SomebodyReconnects'
  BY <1>1, ThreadNames DEF ConnectionInv, SomebodyReconnects, Connecting
<1> QED BY <1>1, <1>2, <1>3 DEF ConnectionInv, ClosedIsGone, NoConnectionAfterClose

LEMMA MainKeeps ==
  ASSUME TypeOK, ConnectionInv, Main \/ Close
  PROVE  ConnectionInv'
<1> USE DEF library, Attempt, MainSteps
<1>1. CASE Create
  BY <1>1, MainMoves DEF Create
<1>2. CASE SetCallbacks
  BY <1>2, MainMoves DEF SetCallbacks
<1>3. CASE ConnectAndSubscribe("main")
  BY <1>3, ConnectKeeps, ThreadNames
<1>4. ASSUME NEW from, NEW to \in {"failed", "closed"}, Destroy(from, to)
      PROVE  ConnectionInv'
  <2>1. pc'["main"] = to
    BY <1>4, GotoMoves, ThreadNames DEF Destroy
  <2>2. ~connected' /\ ~client'
    BY <1>4 DEF Destroy, SessionEnds, NewSession
  <2> QED BY <2>1, <2>2 DEF ConnectionInv, SubscribedOrWorkedOn, SomebodyReconnects,
                            ClosedIsGone, NoConnectionAfterClose
<1>5. CASE RegisterCallback
  BY <1>5, MainMoves DEF RegisterCallback
<1>6. CASE CloseConnected
  <2>1. CASE connected
    <3>1. pc'["main"] = "closing" /\ ~connected'
      BY <1>6, <2>1, GotoMoves, ThreadNames DEF CloseConnected, SessionEnds, NewSession
    <3> QED BY <3>1 DEF ConnectionInv, SubscribedOrWorkedOn, SomebodyReconnects,
                        ClosedIsGone, NoConnectionAfterClose
  <2>2. CASE ~connected
    BY <1>6, <2>2, MainMoves DEF CloseConnected
  <2> QED BY <2>1, <2>2
<1>7. CASE Close
  BY <1>7, MainMoves DEF Close
<1> QED BY <1>1, <1>2, <1>3, <1>4, <1>5, <1>6, <1>7 DEF Main

LEMMA MessageKeeps ==
  ASSUME TypeOK, ConnectionInv,
         CommandArrives \/ Msgarrvd \/ FrameAcked \/ SendCheck \/ SendPublish
  PROVE  ConnectionInv'
<1>1. UNCHANGED <<pc, mqtt_closing, client, connected, subscribed>>
  BY DEF CommandArrives, Msgarrvd, FrameAcked, SendCheck, SendPublish, library
<1> QED BY <1>1 DEF ConnectionInv, SubscribedOrWorkedOn, SomebodyReconnects, Connecting,
                    ClosedIsGone, NoConnectionAfterClose

------------------------------------------------------------------------------
(* The commands *)

(* Nothing arrives and nothing is taken. *)
LEMMA OrderUnchanged ==
  ASSUME InboxInOrder, AcceptedInOrder, UNCHANGED <<commands, accepted>>,
         inbox' \in {inbox, <<>>}
  PROVE  InboxInOrder' /\ AcceptedInOrder'
BY DEF InboxInOrder, AcceptedInOrder

LEMMA ThreadsKeepOrder ==
  ASSUME InboxInOrder, AcceptedInOrder,
         Main \/ Close \/ \E h \in Handlers : Handle(h) \/ ConnectionLost(h)
  PROVE  InboxInOrder' /\ AcceptedInOrder'
<1> USE DEF downlink, library, SessionEnds, NewSession
<1>1. ASSUME NEW t, ConnectAndSubscribe(t)
      PROVE  UNCHANGED <<commands, accepted>> /\ inbox' \in {inbox, <<>>}
  BY <1>1 DEF ConnectAndSubscribe, ConnectOk, ConnectFails, SubscribeOk, SubscribeFails,
              Disconnect
<1>2. ASSUME NEW h, Handle(h) \/ ConnectionLost(h)
      PROVE  UNCHANGED <<commands, accepted>> /\ inbox' \in {inbox, <<>>}
  BY <1>1, <1>2 DEF Handle, Connlost, Sleep, ConnectionLost
<1>3. ASSUME Main \/ Close
      PROVE  UNCHANGED <<commands, accepted>> /\ inbox' \in {inbox, <<>>}
  BY <1>1, <1>3 DEF Main, Close, Create, SetCallbacks, Destroy, RegisterCallback, CloseConnected
<1> QED BY <1>2, <1>3, OrderUnchanged

LEMMA MessagesKeepOrder ==
  ASSUME TypeOK, InboxInOrder, AcceptedInOrder,
         CommandArrives \/ Msgarrvd \/ FrameAcked \/ SendCheck \/ SendPublish
  PROVE  InboxInOrder' /\ AcceptedInOrder'
<1>0. inbox \in Seq(Entries) /\ accepted \in Seq(Nat) /\ commands \in Nat
  BY DEF TypeOK
<1>1. CASE CommandArrives
  <2> DEFINE new == [id |-> commands + 1, freed |-> FALSE]
  <2>1. /\ inbox' = Append(inbox, new) /\ commands' = commands + 1
        /\ accepted' = accepted
    BY <1>1 DEF CommandArrives
  <2>2. new \in Entries /\ new.id = commands + 1
    BY <1>0 DEF Entries
  <2> HIDE DEF new
  <2>3. /\ DOMAIN inbox' = 1..(Len(inbox) + 1)
        /\ \A i \in DOMAIN inbox : inbox'[i] = inbox[i]
        /\ inbox'[Len(inbox) + 1] = new
        /\ DOMAIN inbox = 1..Len(inbox) /\ Len(inbox) \in Nat
    BY <1>0, <2>1, <2>2, AppendProperties, LenProperties
  <2>4. /\ \A i \in DOMAIN inbox : inbox[i].id \in Nat
        /\ \A i \in DOMAIN accepted : accepted[i] \in Nat
    <3>1. \A i \in DOMAIN inbox : inbox[i] \in Entries
      BY <1>0, ElementOfSeq, LenProperties
    <3>2. \A i \in DOMAIN accepted : accepted[i] \in Nat
      BY <1>0, ElementOfSeq, LenProperties
    <3> QED BY <3>1, <3>2 DEF Entries
  <2>5. \A i \in DOMAIN inbox' : i \in DOMAIN inbox \/ i = Len(inbox) + 1
    BY <2>3
  <2>6. \A i, j \in DOMAIN inbox' : i < j => i \in DOMAIN inbox
    BY <2>3
  <2>7. \A i, j \in DOMAIN inbox' : i < j => inbox'[i].id < inbox'[j].id
    BY <1>0, <2>2, <2>3, <2>4, <2>5, <2>6 DEF InboxInOrder
  <2>8. \A i \in DOMAIN inbox' : inbox'[i].id <= commands'
    BY <1>0, <2>1, <2>2, <2>3, <2>4, <2>5 DEF InboxInOrder
  <2>9. \A i \in DOMAIN accepted : accepted[i] <= commands'
    BY <1>0, <2>1, <2>4 DEF InboxInOrder
  <2>10. \A i \in DOMAIN accepted, j \in DOMAIN inbox' : accepted[i] < inbox'[j].id
    <3> SUFFICES ASSUME NEW i \in DOMAIN accepted, NEW j \in DOMAIN inbox'
                 PROVE  accepted[i] < inbox'[j].id
      OBVIOUS
    <3>1. CASE j \in DOMAIN inbox
      BY <2>3, <3>1 DEF InboxInOrder
    <3>2. CASE j = Len(inbox) + 1
      <4>1. accepted[i] <= commands /\ accepted[i] \in Nat
        BY <2>4 DEF InboxInOrder
      <4>2. inbox'[j].id = commands + 1
        BY <2>2, <2>3, <3>2
      <4> QED BY <1>0, <4>1, <4>2
    <3> QED BY <2>5, <3>1, <3>2
  <2> QED BY <2>1, <2>7, <2>8, <2>9, <2>10 DEF InboxInOrder, AcceptedInOrder
<1>2. CASE Msgarrvd
  <2>1. inbox # <<>> /\ commands' = commands
    BY <1>2 DEF Msgarrvd
  <2>2. /\ Len(inbox) \in Nat \ {0} /\ DOMAIN inbox = 1..Len(inbox)
        /\ Head(inbox) = inbox[1] /\ Head(inbox) \in Entries
        /\ Tail(inbox) \in Seq(Entries) /\ Len(Tail(inbox)) = Len(inbox) - 1
        /\ \A i \in 1..Len(Tail(inbox)) : Tail(inbox)[i] = inbox[i + 1]
    BY <1>0, <2>1, HeadTailProperties, EmptySeq, LenProperties
  <2>3. CASE Accept(Head(inbox))
    <3>1. inbox' = Tail(inbox) /\ accepted' = Append(accepted, inbox[1].id)
      BY <2>2, <2>3 DEF Accept
    <3>2. \A j \in DOMAIN inbox' : j + 1 \in DOMAIN inbox /\ 1 < j + 1 /\ inbox'[j] = inbox[j + 1]
      BY <2>2, <3>1, LenProperties
    <3>3. inbox[1].id \in Nat /\ 1 \in DOMAIN inbox
      BY <2>2 DEF Entries
    <3>4. /\ DOMAIN accepted' = 1..(Len(accepted) + 1) /\ Len(accepted) \in Nat
          /\ DOMAIN accepted = 1..Len(accepted)
          /\ \A i \in 1..Len(accepted) : accepted'[i] = accepted[i]
          /\ accepted'[Len(accepted) + 1] = inbox[1].id
      BY <1>0, <3>1, <3>3, AppendProperties, LenProperties
    <3>5. \A i, j \in DOMAIN inbox' : i < j => inbox'[i].id < inbox'[j].id
      <4> SUFFICES ASSUME NEW i \in DOMAIN inbox', NEW j \in DOMAIN inbox', i < j
                   PROVE  inbox'[i].id < inbox'[j].id
        OBVIOUS
      <4>1. i \in Nat /\ j \in Nat
        BY <2>2, <3>1, LenProperties
      <4>2. i + 1 < j + 1
        BY <4>1
      <4> QED BY <3>2, <4>2 DEF InboxInOrder
    <3>6. \A i \in DOMAIN inbox' : inbox'[i].id <= commands'
      BY <2>1, <3>2 DEF InboxInOrder
    <3>7. \A i \in DOMAIN accepted' : i \in DOMAIN accepted \/ i = Len(accepted) + 1
      BY <3>4
    <3>8. \A i \in DOMAIN accepted' : accepted'[i] <= commands'
      BY <2>1, <3>3, <3>4, <3>7 DEF InboxInOrder
    <3>9. \A i \in DOMAIN accepted', j \in DOMAIN inbox' : accepted'[i] < inbox'[j].id
      BY <3>2, <3>3, <3>4, <3>7 DEF InboxInOrder
    <3>10. \A i, j \in DOMAIN accepted' : i < j => i \in DOMAIN accepted
      BY <3>4
    <3>11. AcceptedInOrder'
      BY <3>3, <3>4, <3>7, <3>10 DEF AcceptedInOrder, InboxInOrder
    <3> QED BY <3>5, <3>6, <3>8, <3>9, <3>11 DEF InboxInOrder
  <2>4. CASE Refuse(Head(inbox))
    <3>1. /\ accepted' = accepted
          /\ inbox' = [inbox EXCEPT ![1] = [inbox[1] EXCEPT !.freed = TRUE]]
      BY <2>4 DEF Refuse
    <3>2. inbox[1] \in Entries /\ 1 \in DOMAIN inbox
      BY <2>2
    <3>3. [inbox[1] EXCEPT !.freed = TRUE].id = inbox[1].id
      BY <3>2 DEF Entries
    <3>4. DOMAIN inbox' = DOMAIN inbox /\ \A i \in DOMAIN inbox : inbox'[i].id = inbox[i].id
      BY <3>1, <3>2, <3>3
    <3> QED BY <2>1, <3>1, <3>4 DEF InboxInOrder, AcceptedInOrder
  <2>5. CASE Crash
    BY <2>1, <2>5 DEF Crash, InboxInOrder, AcceptedInOrder
  <2> QED BY <1>2, <2>3, <2>4, <2>5 DEF Msgarrvd
<1>3. CASE FrameAcked \/ SendCheck \/ SendPublish
  BY <1>3, OrderUnchanged DEF FrameAcked, SendCheck, SendPublish, library, downlink
<1> QED BY <1>1, <1>2, <1>3

------------------------------------------------------------------------------
(* The inductive invariant and what follows from it *)

LEMMA InitInvariant == Init => IInv
<1> SUFFICES ASSUME Init PROVE IInv
  OBVIOUS
<1>1. SubscribedOrWorkedOn /\ SomebodyReconnects /\ ClosedIsGone /\ NoConnectionAfterClose
  BY ThreadNames DEF Init, SubscribedOrWorkedOn, SomebodyReconnects, ClosedIsGone,
                     NoConnectionAfterClose
<1>2. InboxInOrder /\ AcceptedInOrder
  BY DEF Init, InboxInOrder, AcceptedInOrder
<1> QED BY <1>1, <1>2, InitTypes DEF IInv

LEMMA NextInvariant == IInv /\ [Next]_vars => IInv'
<1> SUFFICES ASSUME IInv, [Next]_vars PROVE IInv'
  OBVIOUS
<1>1. TypeOK'
  BY NextTypes DEF IInv
<1>2. CASE UNCHANGED vars
  <2>1. ConnectionInv'
    BY <1>2 DEF IInv, ConnectionInv, SubscribedOrWorkedOn, SomebodyReconnects, Connecting,
                ClosedIsGone, NoConnectionAfterClose, vars, library
  <2>2. InboxInOrder' /\ AcceptedInOrder'
    BY <1>2, OrderUnchanged DEF IInv, vars, library, downlink
  <2> QED BY <1>1, <2>1, <2>2 DEF IInv, ConnectionInv
<1>3. CASE Step
  <2>1. ConnectionInv'
    BY <1>3, MainKeeps, HandleKeeps, MessageKeeps DEF Step, IInv, ConnectionInv
  <2>2. InboxInOrder' /\ AcceptedInOrder'
    BY <1>3, ThreadsKeepOrder, MessagesKeepOrder DEF Step, IInv
  <2> QED BY <1>1, <2>1, <2>2 DEF IInv, ConnectionInv
<1> QED BY <1>2, <1>3 DEF Next

(* In every reachable state: where main and each thread in connlost are, what *)
(* the client and the connection are then, and which commands were taken     *)
(* (app_mqtt_init, connlost, msgarrvd and app_mqtt_close, in any order).     *)
THEOREM Invariance == Spec => []IInv
<1> QED BY InitInvariant, NextInvariant, PTL DEF Spec

(* The variables of app_mqtt.c and of the library have their types, for any  *)
(* number of threads in connlost.                                            *)
THEOREM TypeCorrect == Spec => []TypeOK
<1>1. IInv => TypeOK
  BY DEF IInv
<1> QED BY Invariance, <1>1, PTL

(* However many threads reconnect at the same time, a connection without its *)
(* subscription is one a thread is working on (app_mqtt.c:30-36, 70-78).     *)
THEOREM SubscriptionFollows == Spec => []SubscribedOrWorkedOn
<1>1. IInv => SubscribedOrWorkedOn
  BY DEF IInv
<1> QED BY Invariance, <1>1, PTL

(* While the application is up, a connection that is lost is being made      *)
(* anew, whichever of the threads take each other's connection down          *)
(* (app_mqtt.c:34, 64-84).                                                   *)
THEOREM ReconnectGoesOn == Spec => []SomebodyReconnects
<1>1. IInv => SomebodyReconnects
  BY DEF IInv
<1> QED BY Invariance, <1>1, PTL

(* No thread connects a client that app_mqtt_close closed                    *)
(* (app_mqtt.c:70, 126-131).                                                 *)
THEOREM ClosedStaysClosed == Spec => []NoConnectionAfterClose
<1>1. IInv => NoConnectionAfterClose
  BY DEF IInv
<1> QED BY Invariance, <1>1, PTL

(* Commands are taken at most once and in the order of the broker, however   *)
(* many of them are refused, freed twice or lost with a session              *)
(* (app_mqtt.c:47-57).                                                       *)
THEOREM TakenOnceInOrder == Spec => []AcceptedInOrder
<1>1. IInv => AcceptedInOrder
  BY DEF IInv
<1> QED BY Invariance, <1>1, PTL

------------------------------------------------------------------------------
(* After the close *)

(* mqtt_closing is set for good: app_mqtt_init comes before. *)
ClosingStays == mqtt_closing => pc["main"] \in {"isConnected", "closing", "closed"}

(* How far a thread in connlost is from its end when mqtt_closing is set. *)
StepsLeft(step) ==
  CASE step = "connect"    -> 5
    [] step = "subscribe"  -> 4
    [] step = "disconnect" -> 3
    [] step = "sleep"      -> 2
    [] step = "check"      -> 1
    [] step = "none"       -> 0

Attempting == {h \in Handlers : pc[h] = "connect"}

(* The connections there can still be: the one there is, and one for each    *)
(* thread that has looked at mqtt_closing before it was set.                 *)
ConnectionsLeft == Cardinality(Attempting) + (IF connected THEN 1 ELSE 0)

(* A step by which the threads in connlost come to their end. *)
WindsDown ==
  /\ mqtt_closing'
  /\ ConnectionsLeft' <= ConnectionsLeft
  /\ \A h \in Handlers : pc'[h] # pc[h] =>
       IF pc[h] = "none" THEN ConnectionsLeft' < ConnectionsLeft
                         ELSE StepsLeft(pc'[h]) < StepsLeft(pc[h])

LEMMA ClosingFrame ==
  ASSUME TypeOK, ClosingStays, [Next]_vars
  PROVE  ClosingStays' /\ (mqtt_closing => mqtt_closing')
<1> USE ThreadNames DEF library, downlink, uplink
<1>1. CASE UNCHANGED <<mqtt_closing, pc>>
  BY <1>1 DEF ClosingStays
<1>2. ASSUME NEW t \in Threads, ConnectAndSubscribe(t)
      PROVE  mqtt_closing' = mqtt_closing /\ pc[t] \in Attempt
             /\ \A u \in Threads \ {t} : pc'[u] = pc[u]
  BY <1>2, GotoMoves, AttemptEnds DEF ConnectAndSubscribe, ConnectOk, ConnectFails, SubscribeOk,
     SubscribeFails, Disconnect, Attempt, MainSteps
<1>3. ASSUME NEW h \in Handlers, Handle(h) \/ ConnectionLost(h)
      PROVE  mqtt_closing' = mqtt_closing /\ \A u \in Threads \ {h} : pc'[u] = pc[u]
  BY <1>2, <1>3, GotoMoves DEF Handle, Connlost, Sleep, ConnectionLost, HandlerSteps, Attempt
<1>4. CASE \E h \in Handlers : Handle(h) \/ ConnectionLost(h)
  BY <1>3, <1>4 DEF ClosingStays
<1>5. CASE ConnectAndSubscribe("main")
  BY <1>2, <1>5 DEF ClosingStays, Attempt
<1>6. CASE Main /\ ~ConnectAndSubscribe("main")
  BY <1>6 DEF Main, Create, SetCallbacks, Destroy, RegisterCallback, CloseConnected, Goto,
              ClosingStays, TypeOK
<1>7. CASE Close
  BY <1>7 DEF Close, Goto, ClosingStays, TypeOK
<1>8. CASE CommandArrives \/ Msgarrvd \/ FrameAcked \/ SendCheck \/ SendPublish
  BY <1>1, <1>8 DEF CommandArrives, Msgarrvd, FrameAcked, SendCheck, SendPublish
<1> QED BY <1>1, <1>4, <1>5, <1>6, <1>7, <1>8 DEF Next, Step, vars

LEMMA AttemptingType == /\ IsFiniteSet(Attempting) /\ Cardinality(Attempting) \in Nat
<1>1. IsFiniteSet(Handlers)
  BY MqttAssumption
<1>2. IsFiniteSet(Attempting)
  BY <1>1, FS_Subset DEF Attempting
<1> QED BY <1>2, FS_CardinalityType

LEMMA AttemptingTypeNext == IsFiniteSet(Attempting') /\ Cardinality(Attempting') \in Nat
<1>1. IsFiniteSet(Handlers)
  BY MqttAssumption
<1>2. IsFiniteSet(Attempting')
  BY <1>1, FS_Subset DEF Attempting
<1> QED BY <1>2, FS_CardinalityType

(* A thread that goes on without making a connection. *)
LEMMA HandlerNearer ==
  ASSUME TypeOK, NEW h \in Handlers, mqtt_closing', connected' => connected,
         pc[h] \in HandlerSteps \ {"none"}, pc'[h] \in HandlerSteps \ {"connect"},
         StepsLeft(pc'[h]) < StepsLeft(pc[h]),
         \A u \in Handlers \ {h} : pc'[u] = pc[u]
  PROVE  WindsDown
<1>1. Attempting' \subseteq Attempting
  BY DEF Attempting
<1>2. Cardinality(Attempting') <= Cardinality(Attempting)
  BY <1>1, AttemptingType, FS_Subset
<1>3. ConnectionsLeft' <= ConnectionsLeft
  BY <1>2, AttemptingType, AttemptingTypeNext DEF ConnectionsLeft
<1> QED BY <1>3 DEF WindsDown

LEMMA HandlersWindDown ==
  ASSUME TypeOK, mqtt_closing, NEW h \in Handlers, Handle(h) \/ ConnectionLost(h)
  PROVE  WindsDown
<1> USE ThreadNames DEF library
<1>1. CASE Connlost(h)
  <2>1. /\ pc[h] = "check" /\ pc'[h] = "none" /\ \A u \in Threads \ {h} : pc'[u] = pc[u]
        /\ mqtt_closing' /\ connected' = connected
    BY <1>1, GotoMoves DEF Connlost, HandlerSteps
  <2> QED BY <2>1, HandlerNearer DEF HandlerSteps, StepsLeft
<1>2. CASE ConnectOk(h)
  <2>1. /\ pc[h] = "connect" /\ pc'[h] = "subscribe" /\ \A u \in Threads \ {h} : pc'[u] = pc[u]
        /\ mqtt_closing' /\ connected'
    BY <1>2, GotoMoves DEF ConnectOk, NewSession, MainSteps, Attempt
  <2>2. h \in Attempting /\ Attempting' = Attempting \ {h}
    BY <2>1 DEF Attempting
  <2>3. Cardinality(Attempting') = Cardinality(Attempting) - 1
    BY <2>2, AttemptingType, FS_RemoveElement
  <2>4. ConnectionsLeft' <= ConnectionsLeft
    BY <2>1, <2>3, AttemptingType DEF ConnectionsLeft
  <2>5. StepsLeft(pc'[h]) < StepsLeft(pc[h])
    BY <2>1 DEF StepsLeft
  <2> QED BY <2>1, <2>4, <2>5 DEF WindsDown
<1>3. CASE ConnectFails(h)
  <2>1. /\ pc[h] = "connect" /\ pc'[h] = "sleep" /\ \A u \in Threads \ {h} : pc'[u] = pc[u]
        /\ mqtt_closing' /\ connected' = connected
    BY <1>3, GotoMoves, AttemptEnds DEF ConnectFails, Failed
  <2> QED BY <2>1, HandlerNearer DEF HandlerSteps, Attempt, StepsLeft
<1>4. CASE SubscribeOk(h)
  <2>1. /\ pc[h] = "subscribe" /\ pc'[h] = "none" /\ \A u \in Threads \ {h} : pc'[u] = pc[u]
        /\ mqtt_closing' /\ connected' = connected
    BY <1>4, GotoMoves, AttemptEnds DEF SubscribeOk, Succeeded
  <2> QED BY <2>1, HandlerNearer DEF HandlerSteps, Attempt, StepsLeft
<1>5. CASE SubscribeFails(h)
  <2>1. /\ pc[h] = "subscribe" /\ pc'[h] = "disconnect" /\ \A u \in Threads \ {h} : pc'[u] = pc[u]
        /\ mqtt_closing' /\ connected' = connected
    BY <1>5, GotoMoves DEF SubscribeFails, MainSteps, Attempt
  <2> QED BY <2>1, HandlerNearer DEF HandlerSteps, Attempt, StepsLeft
<1>6. CASE Disconnect(h)
  <2>1. /\ pc[h] = "disconnect" /\ pc'[h] = "sleep" /\ \A u \in Threads \ {h} : pc'[u] = pc[u]
        /\ mqtt_closing' /\ ~connected'
    BY <1>6, GotoMoves, AttemptEnds DEF Disconnect, Failed, SessionEnds, NewSession, TypeOK
  <2> QED BY <2>1, HandlerNearer DEF HandlerSteps, Attempt, StepsLeft
<1>7. CASE Sleep(h)
  <2>1. /\ pc[h] = "sleep" /\ pc'[h] = "check" /\ \A u \in Threads \ {h} : pc'[u] = pc[u]
        /\ mqtt_closing' /\ connected' = connected
    BY <1>7, GotoMoves DEF Sleep, HandlerSteps
  <2> QED BY <2>1, HandlerNearer DEF HandlerSteps, StepsLeft
<1>8. CASE ConnectionLost(h)
  <2>1. /\ pc[h] = "none" /\ pc'[h] = "check" /\ \A u \in Threads \ {h} : pc'[u] = pc[u]
        /\ mqtt_closing' /\ connected /\ ~connected'
    BY <1>8, GotoMoves DEF ConnectionLost, SessionEnds, NewSession, HandlerSteps
  <2>2. Attempting' = Attempting
    BY <2>1 DEF Attempting
  <2>3. ConnectionsLeft' < ConnectionsLeft
    BY <2>1, <2>2, AttemptingType DEF ConnectionsLeft
  <2> QED BY <2>1, <2>3, AttemptingType, AttemptingTypeNext DEF WindsDown, ConnectionsLeft
<1> QED BY <1>1, <1>2, <1>3, <1>4, <1>5, <1>6, <1>7, <1>8 DEF Handle, ConnectAndSubscribe

(* The other threads and the library make no connection then. *)
LEMMA OthersWindDown ==
  ASSUME TypeOK, mqtt_closing', \A h \in Handlers : pc'[h] = pc[h], connected' => connected
  PROVE  WindsDown
<1>1. Attempting' = Attempting
  BY DEF Attempting
<1>2. ConnectionsLeft' <= ConnectionsLeft
  BY <1>1, AttemptingType DEF ConnectionsLeft
<1> QED BY <1>2 DEF WindsDown

(* Once mqtt_closing is set, the threads in connlost come to their end: each *)
(* step of such a thread takes it nearer to its return, it cannot go round   *)
(* the loop again, and a new thread starts only for a connection of which    *)
(* there are a number left that never grows, although threads that looked at *)
(* the flag before it was set may connect once more (app_mqtt.c:64-84, 126). *)
(* HandlersEnd says in addition that they take their steps.                  *)
THEOREM ClosingWindsDown == Spec => [][mqtt_closing => WindsDown]_vars
<1>1. Init => ClosingStays
  BY DEF Init, ClosingStays
<1>2. IInv /\ ClosingStays /\ [Next]_vars => ClosingStays'
  BY ClosingFrame DEF IInv
<1>3. IInv /\ ClosingStays /\ [Next]_vars => [mqtt_closing => WindsDown]_vars
  <2> SUFFICES ASSUME IInv, ClosingStays, Next, mqtt_closing, vars' # vars
               PROVE  WindsDown
    OBVIOUS
  <2> USE ThreadNames DEF library, downlink, uplink
  <2>1. mqtt_closing' /\ TypeOK /\ pc["main"] \in {"isConnected", "closing", "closed"}
    BY ClosingFrame DEF IInv, ClosingStays
  <2>2. ASSUME Main \/ Close
        PROVE  connected' => connected
    BY <2>1, <2>2 DEF Main, Close, ConnectAndSubscribe, ConnectOk, ConnectFails, SubscribeOk,
       SubscribeFails, Disconnect, Create, SetCallbacks, Destroy, RegisterCallback,
       CloseConnected, SessionEnds, NewSession, Goto
  <2>3. ASSUME Main \/ Close
        PROVE  \A h \in Handlers : pc'[h] = pc[h]
    <3>1. \E to : pc' = [pc EXCEPT !["main"] = to]
      BY <2>3 DEF Main, Close, ConnectAndSubscribe, ConnectOk, ConnectFails, SubscribeOk,
         SubscribeFails, Disconnect, Create, SetCallbacks, Destroy, RegisterCallback,
         CloseConnected, Goto
    <3> QED BY <2>1, <3>1 DEF TypeOK
  <2>4. CASE Main \/ Close
    BY <2>1, <2>2, <2>3, <2>4, OthersWindDown
  <2>5. CASE \E h \in Handlers : Handle(h) \/ ConnectionLost(h)
    BY <2>1, <2>5, HandlersWindDown
  <2>6. CASE CommandArrives \/ Msgarrvd \/ FrameAcked \/ SendCheck \/ SendPublish
    <3>1. pc' = pc /\ connected' = connected
      BY <2>6 DEF CommandArrives, Msgarrvd, FrameAcked, SendCheck, SendPublish
    <3> QED BY <2>1, <3>1, OthersWindDown
  <2> QED BY <2>4, <2>5, <2>6 DEF Next, Step
<1> QED BY <1>1, <1>2, <1>3, Invariance, PTL DEF Spec

==============================================================================
