--------------------------- MODULE WsHost_proofs ---------------------------
(***************************************************************************)
(* The websocket host, for any number of callers and of connections: its   *)
(* goroutines use the transceivers as WsTransceiver allows, so that what   *)
(* is proved there holds of the host, and what the server takes for an     *)
(* acknowledge is one, as long as the client is not closed.                *)
(***************************************************************************)
EXTENDS WsHost, TLAPS
-----------------------------------------------------------------------------
(***************************************************************************)
(* The acknowledge protocol under the free environment of WsTransceiver.   *)
(***************************************************************************)
(***************************************************************************)
(* The inductive invariant.                                                *)
(***************************************************************************)
Started(c) == pc[c] # "idle"

(* A counter identifies a call of its transceiver.                         *)
CounterInv ==
    /\ \A c \in Calls : Started(c) => cnt[c] <= counter[c[2]]
    /\ \A c, d \in Calls :
         Started(c) /\ Started(d) /\ c[2] = d[2] /\ cnt[c] = cnt[d] => c = d

(* An entry of mapAck is the open channel of the call with that counter.   *)
MapInv ==
    /\ \A t \in Transceivers : \A p \in mapAck[t] :
         p[2][2] = t /\ Started(p[2]) /\ p[1] = cnt[p[2]] /\ p[2] \notin chClosed
    /\ \A c \in chClosed : Started(c)

IsPayload(k, i) == wire["srv"][k][i].type = "payload"
CallAt(k, i) == wire["srv"][k][i].call

(* A payload on its way to the server belongs to a call that has written   *)
(* it, carries that call's counter and has not been handled; it is there   *)
(* once.                                                                   *)
PayloadInv ==
    /\ \A k \in Conns : \A i \in DOMAIN wire["srv"][k] : IsPayload(k, i) =>
         /\ CallAt(k, i) \in ClientCalls
         /\ pc[CallAt(k, i)] \notin {"idle", "prepared"}
         /\ wire["srv"][k][i].counter = cnt[CallAt(k, i)]
         /\ handled[CallAt(k, i)] = "no"
    /\ \A k, l \in Conns : \A i \in DOMAIN wire["srv"][k], j \in DOMAIN wire["srv"][l] :
         IsPayload(k, i) /\ IsPayload(l, j) /\ CallAt(k, i) = CallAt(l, j) => k = l /\ i = j
    /\ \A k \in Conns : \A i \in DOMAIN wire["cli"][k] :
         wire["cli"][k][i].type = "payload" => wire["cli"][k][i].call \in ServerCalls
    /\ \A c \in ClientCalls : pc[c] \in {"idle", "prepared"} => handled[c] = "no"

(* An acknowledge the server writes, or has written, is for a call that    *)
(* was handled as it must be and carries that call's counter.              *)
Earned(m) == /\ m.call \in ClientCalls
             /\ Started(m.call)
             /\ m.counter = cnt[m.call]
             /\ handled[m.call] \in Acknowledgeable
AckInv ==
    /\ \A k \in Conns : \A i \in DOMAIN wire["cli"][k] :
         wire["cli"][k][i].type = "ack" => Earned(wire["cli"][k][i])
    /\ \A t \in Conns : listen[t] = "ack" => Earned(msg[t])
    /\ \A c \in ClientCalls : c \in chClosed => handled[c] \in Acknowledgeable
    /\ \A c \in ClientCalls : pc[c] = "acked" => c \in chClosed

IInv == TypeOK /\ CounterInv /\ MapInv /\ PayloadInv /\ AckInv
-----------------------------------------------------------------------------
(* The two sides' calls are disjoint, and a call names its transceiver.    *)
LEMMA CallFacts ==
    /\ 0 \in Transceivers /\ Conns \subseteq Transceivers /\ 0 \notin Conns
    /\ Transceivers = {0} \cup Conns
    /\ \A c \in Calls : c[2] \in Transceivers
    /\ \A c \in ClientCalls : c \in Calls /\ c[2] = 0
    /\ \A c \in ServerCalls : c \in Calls /\ c[2] \in Conns
    /\ \A c \in Calls : c[2] = 0 => c \in ClientCalls
    /\ \A c \in Calls : c[2] \in Conns => c \in ServerCalls
BY MaxConnsAssumption DEF Calls, ClientCalls, ServerCalls, Transceivers, Conns

(* The messages Send and sendAckIfNeeded build are messages.               *)
LEMMA MessageFacts ==
    /\ \A c \in Calls, n \in Nat : PayloadMessage(c, n) \in Messages
    /\ \A m \in Messages : AckMessage(m) \in Messages
BY DEF PayloadMessage, AckMessage, Messages

(* What a write does to the wires.                                         *)
LEMMA TransmitType ==
    ASSUME TypeOK, NEW t \in Transceivers, NEW m \in Messages, Transmit(t, m)
    PROVE  wire' \in [Sides -> [Conns -> Seq(Messages)]]
<1>1. SideOf(t) \in Sides /\ Other(SideOf(t)) \in Sides
  BY DEF SideOf, Other, Sides
<1>2. CASE link[conn[t]] # "up"
  BY <1>2 DEF Transmit, TypeOK
<1>3. CASE link[conn[t]] = "up"
  <2> DEFINE s == Other(SideOf(t))
             k == conn[t]
  <2>1. k \in Conns
    BY CallFacts DEF Transmit, TypeOK, Open
  <2>2. wire' = [wire EXCEPT ![s][k] = Append(@, m)]
    BY <1>3 DEF Transmit
  <2>3. Append(wire[s][k], m) \in Seq(Messages)
    BY <1>1, <2>1 DEF TypeOK
  <2> QED
    BY <1>1, <2>1, <2>2, <2>3 DEF TypeOK
<1> QED
  BY <1>2, <1>3

(* What reading a message does to the wires.                               *)
LEMMA ReceiveType ==
    ASSUME TypeOK, NEW t \in Transceivers, Receive(t)
    PROVE  /\ wire' \in [Sides -> [Conns -> Seq(Messages)]]
           /\ Head(Inbox(t)) \in Messages
           /\ Inbox(t) \in Seq(Messages)
           /\ rd[t] \in Conns
           /\ SideOf(t) \in Sides
<1>1. SideOf(t) \in Sides
  BY DEF SideOf, Sides
<1>2. rd[t] \in Conns
  BY DEF Receive, TypeOK
<1>3. Inbox(t) \in Seq(Messages) /\ Inbox(t) # <<>>
  BY <1>1, <1>2 DEF Receive, TypeOK, Inbox
<1>4. Tail(Inbox(t)) \in Seq(Messages) /\ Head(Inbox(t)) \in Messages
  BY <1>3
<1>5. wire' = [wire EXCEPT ![SideOf(t)][rd[t]] = Tail(Inbox(t))]
  BY DEF Receive, Inbox
<1> QED
  BY <1>1, <1>2, <1>3, <1>4, <1>5 DEF TypeOK

(* TypeOK is inductive.                                                    *)
LEMMA TypeInit == Init => TypeOK
<1> SUFFICES ASSUME Init PROVE TypeOK
  OBVIOUS
<1>1. 0 \in Transceivers
  BY CallFacts
<1>2. <<>> \in Seq(Messages)
  OBVIOUS
<1> QED
  BY <1>1, <1>2, InitialHandlerAssumption DEF Init, TypeOK, NoMessage

(* Every step, one case per action, keeps the types.                       *)
LEMMA TypeStep == TypeOK /\ [Next]_vars => TypeOK'
<1> SUFFICES ASSUME TypeOK, [Next]_vars PROVE TypeOK'
  OBVIOUS
<1> USE CallFacts
<1>1. CASE UNCHANGED vars
  BY <1>1 DEF TypeOK, vars, connVars, sendVars, listenVars, cfgVars
<1>2. ASSUME NEW k \in Conns, Break(k) PROVE TypeOK'
  BY <1>2 DEF TypeOK, Break, sendVars, listenVars, cfgVars
<1>3. ASSUME NEW k \in Conns, NEW h \in {"nil", "app"}, OpenConnection(k, h) PROVE TypeOK'
  BY <1>3 DEF TypeOK, OpenConnection, sendVars, listenVars
<1>4. ASSUME NEW c \in Calls, PrepareChanAndCounter(c) PROVE TypeOK'
  <2> DEFINE n == counter[c[2]] + 1
  <2>1. n \in Nat
    BY DEF TypeOK
  <2>2. Without(mapAck[c[2]], n) \cup {<<n, c>>} \in SUBSET (Nat \X Calls)
    BY <2>1 DEF TypeOK, Without
  <2>3. mapAck' \in [Transceivers -> SUBSET (Nat \X Calls)]
    BY <1>4, <2>2 DEF PrepareChanAndCounter, TypeOK
  <2> QED
    BY <1>4, <2>1, <2>3 DEF TypeOK, PrepareChanAndCounter, connVars, listenVars, cfgVars
<1>5. ASSUME NEW c \in Calls, SendFails(c) PROVE TypeOK'
  <2>1. /\ writeErr' \in [Transceivers -> BOOLEAN]
        /\ link' = link /\ conn' = conn /\ wire' = wire
    <3>1. CASE UNCHANGED connVars
      BY <3>1 DEF connVars, TypeOK
    <3>2. CASE WriteFails(c[2])
      <4>1. Open(c[2]) \in BOOLEAN
        BY DEF Open
      <4> QED
        BY <3>2, <4>1 DEF WriteFails, TypeOK
    <3> QED
      BY <1>5, <3>1, <3>2 DEF SendFails
  <2>2. pc' \in [Calls -> {"idle", "prepared", "waiting", "acked", "sent", "failed"}]
    BY <1>5 DEF SendFails, TypeOK
  <2> QED
    BY <1>5, <2>1, <2>2 DEF TypeOK, SendFails, listenVars, cfgVars
<1>6. ASSUME NEW c \in Calls, SendPayload(c) PROVE TypeOK'
  <2>1. PayloadMessage(c, cnt[c]) \in Messages
    BY MessageFacts DEF TypeOK
  <2>2. wire' \in [Sides -> [Conns -> Seq(Messages)]]
    BY <1>6, <2>1, TransmitType DEF SendPayload
  <2> QED
    BY <1>6, <2>2 DEF TypeOK, SendPayload, Transmit, listenVars, cfgVars
<1>7. ASSUME NEW c \in Calls, AckArrived(c) \/ AckTimeout(c) \/ ClosedWhileWaiting(c)
      PROVE TypeOK'
  <2>1. PICK r \in {"acked", "failed"} : WaitOver(c, r)
    BY <1>7 DEF AckArrived, AckTimeout, ClosedWhileWaiting
  <2>2. pc' \in [Calls -> {"idle", "prepared", "waiting", "acked", "sent", "failed"}]
    BY <2>1 DEF TypeOK, WaitOver
  <2> QED
    BY <2>1, <2>2 DEF TypeOK, WaitOver, connVars, listenVars, cfgVars
<1>8. ASSUME NEW t \in Transceivers, EnterListen(t) PROVE TypeOK'
  BY <1>8 DEF TypeOK, EnterListen, connVars, sendVars, cfgVars
<1>9. ASSUME NEW t \in Transceivers, GetConn(t) PROVE TypeOK'
  BY <1>9 DEF TypeOK, GetConn, Open, connVars, sendVars, cfgVars
<1>10. ASSUME NEW t \in Transceivers, ListenReturns(t) PROVE TypeOK'
  <2>1. wire' \in [Sides -> [Conns -> Seq(Messages)]]
    <3>1. <<>> \in Seq(Messages) /\ SideOf(t) \in Sides
      BY DEF SideOf, Sides
    <3>2. CASE listen[t] = "get"
      BY <1>10, <3>2 DEF ListenReturns, TypeOK
    <3>3. CASE listen[t] = "read"
      <4>1. rd[t] \in Conns /\ wire' = [wire EXCEPT ![SideOf(t)][rd[t]] = <<>>]
        BY <1>10, <3>3 DEF ListenReturns, TypeOK
      <4> QED
        BY <3>1, <4>1 DEF TypeOK
    <3> QED
      BY <1>10, <3>2, <3>3 DEF ListenReturns
  <2> QED
    BY <1>10, <2>1 DEF TypeOK, ListenReturns, sendVars, cfgVars
<1>11. ASSUME NEW t \in Transceivers, HandleAckMessage(t) PROVE TypeOK'
  <2> DEFINE n == Head(Inbox(t)).counter
  <2>1. Receive(t)
    BY <1>11 DEF HandleAckMessage
  <2>2. chClosed' \subseteq Calls
    BY <1>11 DEF HandleAckMessage, TypeOK
  <2>3. mapAck' \in [Transceivers -> SUBSET (Nat \X Calls)]
    BY <1>11 DEF HandleAckMessage, TypeOK, Without
  <2>4. wire' \in [Sides -> [Conns -> Seq(Messages)]]
    BY <2>1, ReceiveType
  <2>5. /\ listen' \in [Transceivers -> {"out", "get", "read", "ack", "true", "false"}]
        /\ rd' \in [Transceivers -> Transceivers]
        /\ \A u \in Transceivers : listen'[u] = "read" => rd'[u] \in Conns
        /\ \A u \in Transceivers : listen'[u] = "ack" => msg'[u] \in Messages
    BY <1>11, <2>1 DEF TypeOK, HandleAckMessage, Receive
  <2> QED
    BY <1>11, <2>1, <2>2, <2>3, <2>4, <2>5 DEF TypeOK, HandleAckMessage, Receive, cfgVars
<1>12. ASSUME NEW t \in Transceivers, ProcessPayload(t) PROVE TypeOK'
  <2>1. Receive(t)
    BY <1>12 DEF ProcessPayload
  <2>2. Head(Inbox(t)) \in Messages /\ Head(Inbox(t)).call \in Calls
    BY <2>1, ReceiveType DEF Messages
  <2>3. PICK o \in {"ok", "error"} : handled' = [handled EXCEPT ![Head(Inbox(t)).call] = o]
    BY <1>12 DEF ProcessPayload, HandlerOutcomes
  <2>4. handled' \in [Calls -> {"no", "ok", "error"}]
    BY <2>3 DEF TypeOK
  <2>5. \/ listen' = [listen EXCEPT ![t] = "ack"] /\ msg' = [msg EXCEPT ![t] = Head(Inbox(t))]
        \/ listen' = [listen EXCEPT ![t] = "get"] /\ UNCHANGED msg
    BY <1>12 DEF ProcessPayload
  <2>6. /\ listen' \in [Transceivers -> {"out", "get", "read", "ack", "true", "false"}]
        /\ \A u \in Transceivers : listen'[u] = "read" => u # t /\ listen[u] = "read"
    BY <2>5 DEF TypeOK
  <2>7. msg' \in [Transceivers -> Messages \cup {NoMessage}]
    BY <2>2, <2>5 DEF TypeOK
  <2>8. ASSUME NEW u \in Transceivers, listen'[u] = "ack" PROVE msg'[u] \in Messages
    BY <2>2, <2>5, <2>8 DEF TypeOK
  <2>9. wire' \in [Sides -> [Conns -> Seq(Messages)]]
    BY <2>1, ReceiveType
  <2>10. /\ rd' \in [Transceivers -> Transceivers]
         /\ \A u \in Transceivers : listen'[u] = "read" => rd'[u] \in Conns
    BY <2>1, <2>6 DEF TypeOK, Receive
  <2> QED
    BY <1>12, <2>1, <2>4, <2>6, <2>7, <2>8, <2>9, <2>10
    DEF TypeOK, ProcessPayload, Receive, cfgVars
<1>13. ASSUME NEW t \in Transceivers, SendAck(t) PROVE TypeOK'
  <2>1. AckMessage(msg[t]) \in Messages
    BY <1>13, MessageFacts DEF SendAck, TypeOK
  <2>2. wire' \in [Sides -> [Conns -> Seq(Messages)]]
    BY <1>13, <2>1, TransmitType DEF SendAck
  <2> QED
    BY <1>13, <2>2 DEF TypeOK, SendAck, Transmit, sendVars, cfgVars
<1>14. ASSUME NEW t \in Transceivers, SendAckFails(t) PROVE TypeOK'
  BY <1>14 DEF TypeOK, SendAckFails, WriteFails, Open, sendVars, cfgVars
<1>15. ASSUME NEW t \in Transceivers, CloseConn(t) \/ CloseConnFails(t) PROVE TypeOK'
  <2>1. conn[t] \in Conns /\ link' = [link EXCEPT ![conn[t]] = "down"]
    BY <1>15 DEF CloseConn, CloseConnFails, Open, TypeOK
  <2>2. link' \in [Conns -> {"new", "up", "down"}]
    BY <2>1 DEF TypeOK
  <2>3. conn' \in [Transceivers -> Transceivers]
    BY <1>15 DEF CloseConn, CloseConnFails, TypeOK
  <2>4. UNCHANGED <<writeErr, wire, sendVars, listenVars, cfgVars>>
    BY <1>15 DEF CloseConn, CloseConnFails
  <2> QED
    BY <2>2, <2>3, <2>4 DEF TypeOK, sendVars, listenVars, cfgVars
<1>16. ASSUME NEW t \in Transceivers, SetPayloadHandler(t) PROVE TypeOK'
  BY <1>16 DEF TypeOK, SetPayloadHandler, connVars, sendVars, listenVars
<1>17. ASSUME NEW t \in Transceivers, Close(t) PROVE TypeOK'
  BY <1>17 DEF TypeOK, Close, connVars, sendVars, listenVars
<1> QED
  BY <1>1, <1>2, <1>3, <1>4, <1>5, <1>6, <1>7, <1>8, <1>9, <1>10, <1>11, <1>12,
     <1>13, <1>14, <1>15, <1>16, <1>17 DEF Next, SendStep, ListenStep
-----------------------------------------------------------------------------
(* The elements of a sequence with one more, or one less.                  *)
LEMMA AppendElements ==
    ASSUME NEW M, NEW q \in Seq(M), NEW m \in M
    PROVE  \A i \in DOMAIN Append(q, m) :
             \/ i \in DOMAIN q /\ Append(q, m)[i] = q[i]
             \/ i \notin DOMAIN q /\ i = Len(q) + 1 /\ Append(q, m)[i] = m
OBVIOUS

(* The elements of the rest of a sequence are elements of it.              *)
LEMMA TailElements ==
    ASSUME NEW M, NEW q \in Seq(M), q # <<>>
    PROVE  /\ 1 \in DOMAIN q /\ Head(q) = q[1]
           /\ \A i \in DOMAIN Tail(q) : /\ i \in Nat \ {0}
                                      /\ i + 1 \in DOMAIN q
                                      /\ Tail(q)[i] = q[i + 1]
OBVIOUS

(* The messages on the wires after a write by t: the old ones, and one     *)
(* more travelling to the other side.                                      *)
LEMMA TransmitElements ==
    ASSUME TypeOK, NEW t \in Transceivers, NEW m \in Messages, Transmit(t, m)
    PROVE  \A s \in Sides, k \in Conns : \A i \in DOMAIN wire'[s][k] :
             \/ i \in DOMAIN wire[s][k] /\ wire'[s][k][i] = wire[s][k][i]
             \/ /\ s = Other(SideOf(t)) /\ k = conn[t] /\ i = Len(wire[s][k]) + 1
                /\ wire'[s][k][i] = m
<1>1. CASE link[conn[t]] # "up"
  BY <1>1 DEF Transmit
<1>2. CASE link[conn[t]] = "up"
  <2> DEFINE r == Other(SideOf(t))
             j == conn[t]
  <2>1. r \in Sides /\ j \in Conns
    BY CallFacts DEF Other, Sides, Transmit, TypeOK, Open
  <2>2. wire' = [wire EXCEPT ![r][j] = Append(wire[r][j], m)]
    BY <1>2 DEF Transmit
  <2>3. wire[r][j] \in Seq(Messages)
    BY <2>1 DEF TypeOK
  <2>4. wire'[r][j] = Append(wire[r][j], m)
    BY <2>1, <2>2 DEF TypeOK
  <2>5. \A s \in Sides, k \in Conns : s # r \/ k # j => wire'[s][k] = wire[s][k]
    BY <2>1, <2>2 DEF TypeOK
  <2>6. \A i \in DOMAIN Append(wire[r][j], m) :
          \/ i \in DOMAIN wire[r][j] /\ Append(wire[r][j], m)[i] = wire[r][j][i]
          \/ i = Len(wire[r][j]) + 1 /\ Append(wire[r][j], m)[i] = m
    BY <2>3, AppendElements
  <2> QED
    BY <2>1, <2>4, <2>5, <2>6
<1> QED
  BY <1>1, <1>2

(* The messages on the wires after t has read one.                         *)
LEMMA ReceiveElements ==
    ASSUME TypeOK, NEW t \in Transceivers, Receive(t)
    PROVE  /\ \A s \in Sides, k \in Conns : s # SideOf(t) \/ k # rd[t] =>
                wire'[s][k] = wire[s][k]
           /\ \A i \in DOMAIN wire'[SideOf(t)][rd[t]] :
                /\ i \in Nat \ {0}
                /\ i + 1 \in DOMAIN wire[SideOf(t)][rd[t]]
                /\ wire'[SideOf(t)][rd[t]][i] = wire[SideOf(t)][rd[t]][i + 1]
           /\ 1 \in DOMAIN wire[SideOf(t)][rd[t]]
           /\ Head(Inbox(t)) = wire[SideOf(t)][rd[t]][1]
<1> DEFINE s == SideOf(t)
           k == rd[t]
<1>1. s \in Sides /\ k \in Conns /\ wire[s][k] \in Seq(Messages)
  BY ReceiveType DEF Inbox
<1>2. wire' = [wire EXCEPT ![s][k] = Tail(wire[s][k])] /\ wire[s][k] # <<>>
  BY DEF Receive, Inbox
<1>3. wire'[s][k] = Tail(wire[s][k])
  BY <1>1, <1>2 DEF TypeOK
<1>4. \A u \in Sides, l \in Conns : u # s \/ l # k => wire'[u][l] = wire[u][l]
  BY <1>1, <1>2 DEF TypeOK
<1>5. /\ 1 \in DOMAIN wire[s][k] /\ Head(wire[s][k]) = wire[s][k][1]
      /\ \A i \in DOMAIN Tail(wire[s][k]) : /\ i \in Nat \ {0}
                                           /\ i + 1 \in DOMAIN wire[s][k]
                                           /\ Tail(wire[s][k])[i] = wire[s][k][i + 1]
  BY <1>1, <1>2, TailElements
<1> QED
  BY <1>3, <1>4, <1>5 DEF Inbox

(* A failed read leaves some wires as they are and empties another.        *)
LEMMA ListenReturnsElements ==
    ASSUME TypeOK, NEW t \in Transceivers, ListenReturns(t)
    PROVE  \A s \in Sides, k \in Conns : \A i \in DOMAIN wire'[s][k] :
             i \in DOMAIN wire[s][k] /\ wire'[s][k][i] = wire[s][k][i]
<1>1. CASE listen[t] = "get"
  BY <1>1 DEF ListenReturns
<1>2. CASE listen[t] = "read"
  <2>1. rd[t] \in Conns /\ SideOf(t) \in Sides
    BY <1>2 DEF TypeOK, SideOf, Sides
  <2>2. wire' = [wire EXCEPT ![SideOf(t)][rd[t]] = <<>>]
    BY <1>2 DEF ListenReturns
  <2>3. wire'[SideOf(t)][rd[t]] = <<>> /\ DOMAIN wire'[SideOf(t)][rd[t]] = {}
    BY <2>1, <2>2 DEF TypeOK
  <2>4. \A s \in Sides, k \in Conns : s # SideOf(t) \/ k # rd[t] => wire'[s][k] = wire[s][k]
    BY <2>1, <2>2 DEF TypeOK
  <2> QED
    BY <2>3, <2>4
<1> QED
  BY <1>1, <1>2 DEF ListenReturns
-----------------------------------------------------------------------------
(* Counters and mapAck.                                                    *)
LEMMA CounterStep == IInv /\ [Next]_vars => CounterInv' /\ MapInv'
<1> SUFFICES ASSUME IInv, [Next]_vars PROVE CounterInv' /\ MapInv'
  OBVIOUS
<1> USE CallFacts DEF IInv
<1>1. ASSUME UNCHANGED sendVars PROVE CounterInv' /\ MapInv'
  BY <1>1 DEF CounterInv, MapInv, Started, sendVars
<1>2. ASSUME NEW c \in Calls, PrepareChanAndCounter(c) PROVE CounterInv' /\ MapInv'
  <2> DEFINE t == c[2]
             n == counter[t] + 1
  <2>1. /\ pc[c] = "idle" /\ pc' = [pc EXCEPT ![c] = "prepared"]
        /\ counter' = [counter EXCEPT ![t] = n] /\ cnt' = [cnt EXCEPT ![c] = n]
        /\ chClosed' = chClosed
    BY <1>2 DEF PrepareChanAndCounter
  <2>2. t \in Transceivers /\ counter[t] \in Nat /\ n \in Nat
    BY DEF TypeOK
  <2>3. \A d \in Calls : d # c => cnt'[d] = cnt[d] /\ pc'[d] = pc[d]
    BY <2>1 DEF TypeOK
  <2>4. cnt'[c] = n /\ pc'[c] = "prepared" /\ counter'[t] = n
    BY <2>1, <2>2 DEF TypeOK
  <2>5. \A u \in Transceivers : counter[u] \in Nat /\ counter[u] <= counter'[u]
    BY <2>1, <2>2 DEF TypeOK
  <2>6. \A d \in Calls : Started(d) /\ d[2] = t => cnt[d] < n /\ d # c
    BY <2>1, <2>2 DEF CounterInv, Started, TypeOK
  <2>7. CounterInv'
    <3>1. ASSUME NEW d \in Calls, Started(d)' PROVE cnt'[d] <= counter'[d[2]]
      <4>1. CASE d = c
        BY <2>2, <2>4, <4>1
      <4>2. CASE d # c
        <5>1. cnt'[d] = cnt[d] /\ cnt[d] \in Nat /\ cnt[d] <= counter[d[2]]
          BY <2>3, <3>1, <4>2 DEF CounterInv, Started, TypeOK
        <5>2. /\ counter[d[2]] \in Nat /\ counter'[d[2]] \in Nat
              /\ counter[d[2]] <= counter'[d[2]]
          BY <2>1, <2>2, <2>5 DEF TypeOK
        <5> QED
          BY <5>1, <5>2
      <4> QED
        BY <4>1, <4>2
    <3>2. ASSUME NEW d \in Calls, NEW e \in Calls, Started(d)', Started(e)', d[2] = e[2],
                 cnt'[d] = cnt'[e]
          PROVE d = e
      <4>1. CASE d # c /\ e # c
        BY <2>3, <3>2, <4>1 DEF CounterInv, Started
      <4>2. CASE d = c /\ e # c
        BY <2>2, <2>3, <2>4, <2>6, <3>2, <4>2 DEF Started, TypeOK
      <4>3. CASE e = c /\ d # c
        BY <2>2, <2>3, <2>4, <2>6, <3>2, <4>3 DEF Started, TypeOK
      <4> QED
        BY <4>1, <4>2, <4>3
    <3> QED
      BY <3>1, <3>2 DEF CounterInv
  <2>8. MapInv'
    <3>1. ASSUME NEW u \in Transceivers, NEW p \in mapAck'[u]
          PROVE  p \in mapAck[u] \/ (u = t /\ p = <<n, c>>)
      BY <1>2, <2>2 DEF PrepareChanAndCounter, Without, TypeOK
    <3>2. ASSUME NEW u \in Transceivers, NEW p \in mapAck[u] PROVE p[2] # c /\ p[2] \in Calls
      BY <2>1 DEF MapInv, Started, TypeOK
    <3>3. c \notin chClosed /\ chClosed \subseteq Calls
      BY <2>1 DEF MapInv, Started, TypeOK
    <3> QED
      BY <2>1, <2>3, <2>4, <3>1, <3>2, <3>3 DEF MapInv, Started
  <2> QED
    BY <2>7, <2>8
<1>3. ASSUME NEW c \in Calls, SendStep(c) PROVE CounterInv' /\ MapInv'
  <2>1. UNCHANGED <<counter, mapAck, cnt, chClosed>>
    BY <1>3 DEF SendStep, SendFails, SendPayload, AckArrived, AckTimeout,
                ClosedWhileWaiting, WaitOver
  <2>2. \A d \in Calls : Started(d)' <=> Started(d)
    BY <1>3 DEF SendStep, SendFails, SendPayload, AckArrived, AckTimeout,
                ClosedWhileWaiting, WaitOver, Started, TypeOK
  <2>3. CounterInv'
    BY <2>1, <2>2 DEF CounterInv
  <2>4. chClosed \subseteq Calls /\ \A u \in Transceivers : \A p \in mapAck[u] : p[2] \in Calls
    BY DEF TypeOK
  <2>5. MapInv'
    BY <2>1, <2>2, <2>4 DEF MapInv
  <2> QED
    BY <2>3, <2>5
<1>4. ASSUME NEW t \in Transceivers, HandleAckMessage(t) PROVE CounterInv' /\ MapInv'
  <2> DEFINE n == Head(Inbox(t)).counter
  <2>1. UNCHANGED <<counter, pc, cnt>>
    BY <1>4 DEF HandleAckMessage, Receive
  <2>2. CounterInv'
    BY <2>1 DEF CounterInv, Started
  <2>3. /\ \A p \in mapAck'[t] : p \in mapAck[t] /\ p[1] # n
        /\ \A u \in Transceivers : u # t => mapAck'[u] = mapAck[u]
    BY <1>4 DEF HandleAckMessage, Without, TypeOK
  <2>4. \A c \in chClosed' : c \in chClosed \/ \E q \in mapAck[t] : q[1] = n /\ c = q[2]
    BY <1>4 DEF HandleAckMessage
  <2>5. ASSUME NEW u \in Transceivers, NEW p \in mapAck'[u] PROVE p[2] \notin chClosed'
    <3>1. p \in mapAck[u] /\ (u = t => p[1] # n)
      BY <2>3
    <3>2. p[2] \notin chClosed /\ p[2][2] = u /\ p[1] = cnt[p[2]]
      BY <3>1 DEF MapInv
    <3>3. ASSUME NEW q \in mapAck[t], q[1] = n PROVE p[2] # q[2]
      <4>1. q[2][2] = t /\ q[1] = cnt[q[2]]
        BY DEF MapInv
      <4> QED
        BY <3>1, <3>2, <3>3, <4>1
    <3> QED
      BY <2>4, <3>2, <3>3
  <2>6. MapInv'
    BY <2>1, <2>3, <2>4, <2>5 DEF MapInv, Started
  <2> QED
    BY <2>2, <2>6
<1> QED
  <2>1. CASE UNCHANGED vars
    BY <1>1, <2>1 DEF vars
  <2>2. CASE Next
    <3>1. ASSUME NEW k \in Conns, Break(k) \/ \E h \in {"nil", "app"} : OpenConnection(k, h)
          PROVE UNCHANGED sendVars
      BY <3>1 DEF Break, OpenConnection
    <3>2. ASSUME NEW t \in Transceivers, ~HandleAckMessage(t),
                 \/ EnterListen(t) \/ ListenStep(t)
                 \/ CloseConn(t) \/ CloseConnFails(t) \/ SetPayloadHandler(t) \/ Close(t)
          PROVE UNCHANGED sendVars
      BY <3>2 DEF ListenStep, EnterListen, GetConn, ListenReturns, ProcessPayload, Receive,
                  SendAck, SendAckFails, CloseConn, CloseConnFails, SetPayloadHandler, Close,
                  sendVars
    <3> QED
      BY <1>1, <1>2, <1>3, <1>4, <2>2, <3>1, <3>2 DEF Next
  <2> QED
    BY <2>1, <2>2
-----------------------------------------------------------------------------
(* The payloads on the wires.  InPlace: no message is new or has moved;    *)
(* CallsGoOn: no call that has written its payload loses its counter.      *)
InPlace(s) == \A k \in Conns : \A i \in DOMAIN wire'[s][k] :
                i \in DOMAIN wire[s][k] /\ wire'[s][k][i] = wire[s][k][i]
CallsGoOn == \A c \in Calls :
                 /\ Started(c) => Started(c)' /\ cnt'[c] = cnt[c]
                 /\ pc[c] \notin {"idle", "prepared"} => pc'[c] \notin {"idle", "prepared"}

(* The action changes no wire and no handled payload.                      *)
LEMMA PayloadKept ==
    ASSUME IInv, InPlace("srv"), InPlace("cli"), CallsGoOn, handled' = handled
    PROVE  PayloadInv'
<1> USE CallFacts DEF IInv
<1>1. ASSUME NEW k \in Conns, NEW i \in DOMAIN wire'["srv"][k], IsPayload(k, i)'
      PROVE  i \in DOMAIN wire["srv"][k] /\ IsPayload(k, i) /\ CallAt(k, i)' = CallAt(k, i)
             /\ wire'["srv"][k][i] = wire["srv"][k][i]
  BY <1>1 DEF InPlace, IsPayload, CallAt
<1>2. ASSUME NEW k \in Conns, NEW i \in DOMAIN wire'["srv"][k], IsPayload(k, i)'
      PROVE  /\ CallAt(k, i)' \in ClientCalls
             /\ pc'[CallAt(k, i)'] \notin {"idle", "prepared"}
             /\ wire'["srv"][k][i].counter = cnt'[CallAt(k, i)']
             /\ handled'[CallAt(k, i)'] = "no"
  <2>1. /\ CallAt(k, i) \in ClientCalls /\ pc[CallAt(k, i)] \notin {"idle", "prepared"}
        /\ wire["srv"][k][i].counter = cnt[CallAt(k, i)] /\ handled[CallAt(k, i)] = "no"
    BY <1>1, <1>2 DEF PayloadInv
  <2> QED
    BY <1>1, <1>2, <2>1 DEF CallsGoOn, Started
<1>3. \A k, l \in Conns : \A i \in DOMAIN wire'["srv"][k], j \in DOMAIN wire'["srv"][l] :
        IsPayload(k, i)' /\ IsPayload(l, j)' /\ CallAt(k, i)' = CallAt(l, j)' => k = l /\ i = j
  BY <1>1 DEF PayloadInv
<1>4. \A k \in Conns : \A i \in DOMAIN wire'["cli"][k] :
        wire'["cli"][k][i].type = "payload" => wire'["cli"][k][i].call \in ServerCalls
  BY DEF InPlace, PayloadInv
<1>5. \A c \in ClientCalls : pc'[c] \in {"idle", "prepared"} => handled'[c] = "no"
  BY DEF PayloadInv, CallsGoOn
<1> QED
  BY <1>2, <1>3, <1>4, <1>5 DEF PayloadInv

(* The payload a call writes is the only one of that call.                 *)
LEMMA PayloadSend ==
    ASSUME IInv, NEW c \in Calls, SendPayload(c)
    PROVE  PayloadInv'
<1> USE CallFacts DEF IInv
<1> DEFINE m == PayloadMessage(c, cnt[c])
           t == c[2]
           S == wire["srv"]
<1>1. m \in Messages /\ m.type = "payload" /\ m.call = c /\ m.counter = cnt[c]
  BY MessageFacts DEF TypeOK, PayloadMessage
<1>2. /\ pc[c] = "prepared" /\ cnt' = cnt /\ handled' = handled
      /\ \A d \in Calls : d # c => pc'[d] = pc[d]
      /\ pc'[c] \in {"waiting", "sent"}
  BY DEF SendPayload, listenVars, TypeOK
<1>3. \A s \in Sides, k \in Conns : \A i \in DOMAIN wire'[s][k] :
        \/ i \in DOMAIN wire[s][k] /\ wire'[s][k][i] = wire[s][k][i]
        \/ /\ s = Other(SideOf(t)) /\ k = conn[t] /\ i = Len(wire[s][k]) + 1
           /\ wire'[s][k][i] = m
  <2>1. TypeOK /\ t \in Transceivers /\ Transmit(t, m)
    BY DEF SendPayload
  <2> HIDE DEF m, t
  <2> QED
    BY ONLY <1>1, <2>1, TransmitElements
<1>4. "srv" \in Sides /\ "cli" \in Sides /\ (t = 0 <=> Other(SideOf(t)) = "srv")
  BY DEF Sides, Other, SideOf
<1>5. ASSUME NEW k \in Conns, NEW i \in DOMAIN wire'["srv"][k], IsPayload(k, i)'
      PROVE  \/ /\ i \in DOMAIN S[k] /\ IsPayload(k, i) /\ CallAt(k, i)' = CallAt(k, i)
                /\ wire'["srv"][k][i] = S[k][i] /\ CallAt(k, i) # c
             \/ /\ t = 0 /\ k = conn[t] /\ i = Len(S[k]) + 1
                /\ CallAt(k, i)' = c /\ wire'["srv"][k][i] = m
  BY <1>1, <1>2, <1>3, <1>4, <1>5 DEF IsPayload, CallAt, PayloadInv
<1>6. ASSUME NEW k \in Conns, NEW i \in DOMAIN wire'["srv"][k], IsPayload(k, i)'
      PROVE  /\ CallAt(k, i)' \in ClientCalls
             /\ pc'[CallAt(k, i)'] \notin {"idle", "prepared"}
             /\ wire'["srv"][k][i].counter = cnt'[CallAt(k, i)']
             /\ handled'[CallAt(k, i)'] = "no"
  <2>1. CASE CallAt(k, i)' = c
    BY <1>1, <1>2, <1>5, <1>6, <2>1 DEF PayloadInv
  <2>2. CASE CallAt(k, i)' # c
    <3>1. i \in DOMAIN S[k] /\ IsPayload(k, i) /\ CallAt(k, i)' = CallAt(k, i)
          /\ wire'["srv"][k][i] = S[k][i]
      BY <1>5, <1>6, <2>2
    <3>2. /\ CallAt(k, i) \in ClientCalls /\ pc[CallAt(k, i)] \notin {"idle", "prepared"}
          /\ S[k][i].counter = cnt[CallAt(k, i)] /\ handled[CallAt(k, i)] = "no"
      BY <3>1 DEF PayloadInv
    <3> QED
      BY <1>2, <2>2, <3>1, <3>2
  <2> QED
    BY <2>1, <2>2
<1>7. \A k, l \in Conns : \A i \in DOMAIN wire'["srv"][k], j \in DOMAIN wire'["srv"][l] :
        IsPayload(k, i)' /\ IsPayload(l, j)' /\ CallAt(k, i)' = CallAt(l, j)' => k = l /\ i = j
  BY <1>5 DEF PayloadInv
<1>8. \A k \in Conns : \A i \in DOMAIN wire'["cli"][k] :
        wire'["cli"][k][i].type = "payload" => wire'["cli"][k][i].call \in ServerCalls
  BY <1>1, <1>3, <1>4 DEF PayloadInv
<1>9. \A d \in ClientCalls : pc'[d] \in {"idle", "prepared"} => handled'[d] = "no"
  BY <1>2 DEF PayloadInv
<1> QED
  BY <1>6, <1>7, <1>8, <1>9 DEF PayloadInv

(* A message is read: the payloads behind it move up; when it is a payload *)
(* itself, the handled call has no other payload on the wires.             *)
LEMMA PayloadReceive ==
    ASSUME IInv, NEW t \in Transceivers, Receive(t),
           \/ handled' = handled
           \/ /\ Head(Inbox(t)).type = "payload"
              /\ \E o \in {"ok", "error"} :
                   handled' = [handled EXCEPT ![Head(Inbox(t)).call] = o]
    PROVE  PayloadInv'
<1> USE CallFacts DEF IInv
<1> DEFINE m == Head(Inbox(t))
           r == rd[t]
           S == wire["srv"]
           C == wire["cli"]
           from(k, i) == IF t # 0 /\ k = r THEN i + 1 ELSE i
<1>1. m \in Messages /\ m.call \in Calls /\ r \in Conns
  BY ReceiveType DEF Messages
<1>2. pc' = pc /\ cnt' = cnt
  BY DEF Receive
<1>3. SideOf(t) = (IF t = 0 THEN "cli" ELSE "srv") /\ "cli" \in Sides /\ "srv" \in Sides
  BY DEF SideOf, Sides
<1>4. ASSUME NEW k \in Conns, NEW i \in DOMAIN wire'["srv"][k]
      PROVE  /\ i \in Nat \ {0} /\ from(k, i) \in DOMAIN S[k]
             /\ wire'["srv"][k][i] = S[k][from(k, i)]
             /\ t # 0 /\ k = r => from(k, i) # 1
  <2>1. CASE t # 0 /\ k = r
    BY <1>3, <2>1, ReceiveElements
  <2>2. CASE ~(t # 0 /\ k = r)
    <3>1. wire'["srv"][k] = S[k]
      BY <1>3, <2>2, ReceiveElements
    <3>2. S[k] \in Seq(Messages)
      BY <1>3 DEF TypeOK
    <3> QED
      BY <2>2, <3>1, <3>2
  <2> QED
    BY <2>1, <2>2
<1>5. ASSUME NEW k \in Conns, NEW i \in DOMAIN wire'["srv"][k], IsPayload(k, i)'
      PROVE  IsPayload(k, from(k, i)) /\ CallAt(k, i)' = CallAt(k, from(k, i))
  BY <1>4, <1>5 DEF IsPayload, CallAt
<1>6. t # 0 => 1 \in DOMAIN S[r] /\ m = S[r][1]
  BY <1>3, ReceiveElements
<1>7. t = 0 => 1 \in DOMAIN C[r] /\ m = C[r][1]
  BY <1>3, ReceiveElements
<1>8. ASSUME NEW k \in Conns, NEW i \in DOMAIN wire'["srv"][k], IsPayload(k, i)'
      PROVE  /\ CallAt(k, i)' \in ClientCalls
             /\ pc'[CallAt(k, i)'] \notin {"idle", "prepared"}
             /\ wire'["srv"][k][i].counter = cnt'[CallAt(k, i)']
             /\ handled'[CallAt(k, i)'] = "no"
  <2> DEFINE j == from(k, i)
             d == CallAt(k, j)
  <2>1. /\ j \in DOMAIN S[k] /\ IsPayload(k, j) /\ CallAt(k, i)' = d
        /\ wire'["srv"][k][i] = S[k][j]
    BY <1>4, <1>5, <1>8
  <2>2. /\ d \in ClientCalls /\ pc[d] \notin {"idle", "prepared"}
        /\ S[k][j].counter = cnt[d] /\ handled[d] = "no"
    BY <2>1 DEF PayloadInv
  <2>3. m.type = "payload" => m.call # d
    <3>1. CASE t = 0
      <4>1. \A l \in Conns : \A n \in DOMAIN wire["cli"][l] :
              wire["cli"][l][n].type = "payload" => wire["cli"][l][n].call \in ServerCalls
        BY DEF PayloadInv
      <4>2. r \in Conns /\ 1 \in DOMAIN wire["cli"][r] /\ m = wire["cli"][r][1]
        BY <1>1, <1>7, <3>1
      <4> HIDE DEF m, r
      <4>3. m.type = "payload" => m.call \in ServerCalls
        BY ONLY <4>1, <4>2
      <4> QED
        BY <2>2, <4>3
    <3>2. CASE t # 0
      <4>1. m.type = "payload" => IsPayload(r, 1) /\ CallAt(r, 1) = m.call
        BY <1>6, <3>2 DEF IsPayload, CallAt
      <4>2. ~(k = r /\ j = 1)
        BY <1>4, <3>2
      <4>3. IsPayload(k, j) /\ IsPayload(r, 1) /\ CallAt(k, j) = CallAt(r, 1) => k = r /\ j = 1
        <5>1. \A k1, l1 \in Conns :
                \A i1 \in DOMAIN wire["srv"][k1], j1 \in DOMAIN wire["srv"][l1] :
                  IsPayload(k1, i1) /\ IsPayload(l1, j1) /\ CallAt(k1, i1) = CallAt(l1, j1)
                    => k1 = l1 /\ i1 = j1
          BY DEF PayloadInv
        <5>2. j \in DOMAIN wire["srv"][k] /\ 1 \in DOMAIN wire["srv"][r] /\ r \in Conns
          BY <1>1, <1>6, <2>1, <3>2
        <5> QED
          BY <5>1, <5>2
      <4> QED
        BY <2>1, <4>1, <4>2, <4>3
    <3> QED
      BY <3>1, <3>2
  <2>4. handled'[d] = "no"
    BY <1>1, <2>2, <2>3 DEF TypeOK
  <2> QED
    BY <1>2, <2>1, <2>2, <2>4
<1>9. ASSUME NEW k \in Conns, NEW l \in Conns, NEW i \in DOMAIN wire'["srv"][k],
             NEW j \in DOMAIN wire'["srv"][l],
             IsPayload(k, i)', IsPayload(l, j)', CallAt(k, i)' = CallAt(l, j)'
      PROVE  k = l /\ i = j
  <2>1. k = l /\ from(k, i) = from(l, j)
    <3>1. \A k1, l1 \in Conns :
            \A i1 \in DOMAIN wire["srv"][k1], j1 \in DOMAIN wire["srv"][l1] :
              IsPayload(k1, i1) /\ IsPayload(l1, j1) /\ CallAt(k1, i1) = CallAt(l1, j1)
                => k1 = l1 /\ i1 = j1
      BY DEF PayloadInv
    <3>2. from(k, i) \in DOMAIN wire["srv"][k] /\ from(l, j) \in DOMAIN wire["srv"][l]
      BY <1>4
    <3>3. /\ IsPayload(k, from(k, i)) /\ IsPayload(l, from(l, j))
          /\ CallAt(k, from(k, i)) = CallAt(l, from(l, j))
      BY <1>5, <1>9
    <3> HIDE DEF from
    <3> QED
      BY <3>1, <3>2, <3>3
  <2> QED
    BY <1>4, <2>1
<1>10. ASSUME NEW k \in Conns, NEW i \in DOMAIN wire'["cli"][k],
              wire'["cli"][k][i].type = "payload"
       PROVE  wire'["cli"][k][i].call \in ServerCalls
  <2>1. CASE t = 0 /\ k = r
    BY <1>3, <1>10, <2>1, ReceiveElements DEF PayloadInv
  <2>2. CASE ~(t = 0 /\ k = r)
    BY <1>3, <1>10, <2>2, ReceiveElements DEF PayloadInv
  <2> QED
    BY <2>1, <2>2
<1>11. ASSUME NEW d \in ClientCalls, pc'[d] \in {"idle", "prepared"} PROVE handled'[d] = "no"
  <2>1. handled[d] = "no" /\ pc[d] \in {"idle", "prepared"}
    BY <1>2, <1>11 DEF PayloadInv
  <2>2. m.type = "payload" => m.call # d
    <3>1. CASE t = 0
      <4>1. \A l \in Conns : \A n \in DOMAIN wire["cli"][l] :
              wire["cli"][l][n].type = "payload" => wire["cli"][l][n].call \in ServerCalls
        BY DEF PayloadInv
      <4>2. r \in Conns /\ 1 \in DOMAIN wire["cli"][r] /\ m = wire["cli"][r][1]
        BY <1>1, <1>7, <3>1
      <4> HIDE DEF m, r
      <4>3. m.type = "payload" => m.call \in ServerCalls
        BY ONLY <4>1, <4>2
      <4> QED
        BY <4>3
    <3>2. CASE t # 0
      <4>1. m.type = "payload" => IsPayload(r, 1) /\ CallAt(r, 1) = m.call
        BY <1>6, <3>2 DEF IsPayload, CallAt
      <4>2. IsPayload(r, 1) => pc[CallAt(r, 1)] \notin {"idle", "prepared"}
        BY <1>1, <1>6, <3>2 DEF PayloadInv
      <4> QED
        BY <2>1, <4>1, <4>2
    <3> QED
      BY <3>1, <3>2
  <2> QED
    BY <1>1, <2>1, <2>2 DEF TypeOK
<1> QED
  BY <1>8, <1>9, <1>10, <1>11 DEF PayloadInv

(* Writing an acknowledge adds no payload.                                 *)
LEMMA PayloadAck ==
    ASSUME IInv, NEW t \in Transceivers, SendAck(t), CallsGoOn
    PROVE  PayloadInv'
<1> USE CallFacts DEF IInv
<1> DEFINE m == AckMessage(msg[t])
           S == wire["srv"]
<1>1. m \in Messages /\ m.type = "ack"
  BY MessageFacts DEF SendAck, TypeOK, AckMessage
<1>2. handled' = handled
  BY DEF SendAck
<1>3. \A s \in Sides, k \in Conns : \A i \in DOMAIN wire'[s][k] :
        \/ i \in DOMAIN wire[s][k] /\ wire'[s][k][i] = wire[s][k][i]
        \/ wire'[s][k][i] = m
  <2>1. TypeOK /\ Transmit(t, m)
    BY DEF SendAck
  <2> HIDE DEF m
  <2> QED
    BY ONLY <1>1, <2>1, t \in Transceivers, TransmitElements
<1>4. ASSUME NEW k \in Conns, NEW i \in DOMAIN wire'["srv"][k], IsPayload(k, i)'
      PROVE  /\ i \in DOMAIN S[k] /\ IsPayload(k, i) /\ CallAt(k, i)' = CallAt(k, i)
             /\ wire'["srv"][k][i] = S[k][i]
  BY <1>1, <1>3, <1>4 DEF IsPayload, CallAt, Sides
<1>5. ASSUME NEW k \in Conns, NEW i \in DOMAIN wire'["srv"][k], IsPayload(k, i)'
      PROVE  /\ CallAt(k, i)' \in ClientCalls
             /\ pc'[CallAt(k, i)'] \notin {"idle", "prepared"}
             /\ wire'["srv"][k][i].counter = cnt'[CallAt(k, i)']
             /\ handled'[CallAt(k, i)'] = "no"
  <2>1. /\ CallAt(k, i) \in ClientCalls /\ pc[CallAt(k, i)] \notin {"idle", "prepared"}
        /\ S[k][i].counter = cnt[CallAt(k, i)] /\ handled[CallAt(k, i)] = "no"
    BY <1>4, <1>5 DEF PayloadInv
  <2> QED
    BY <1>2, <1>4, <1>5, <2>1 DEF CallsGoOn, Started
<1>6. \A k, l \in Conns : \A i \in DOMAIN wire'["srv"][k], j \in DOMAIN wire'["srv"][l] :
        IsPayload(k, i)' /\ IsPayload(l, j)' /\ CallAt(k, i)' = CallAt(l, j)' => k = l /\ i = j
  BY <1>4 DEF PayloadInv
<1>7. \A k \in Conns : \A i \in DOMAIN wire'["cli"][k] :
        wire'["cli"][k][i].type = "payload" => wire'["cli"][k][i].call \in ServerCalls
  BY <1>1, <1>3 DEF PayloadInv, Sides
<1>8. \A c \in ClientCalls : pc'[c] \in {"idle", "prepared"} => handled'[c] = "no"
  BY <1>2 DEF PayloadInv, CallsGoOn
<1> QED
  BY <1>5, <1>6, <1>7, <1>8 DEF PayloadInv
-----------------------------------------------------------------------------
(* No step takes a call back.                                              *)
LEMMA GoOn == IInv /\ [Next]_vars => CallsGoOn
<1> SUFFICES ASSUME IInv, [Next]_vars PROVE CallsGoOn
  OBVIOUS
<1> USE CallFacts DEF IInv
<1>1. ASSUME pc' = pc, cnt' = cnt PROVE CallsGoOn
  BY <1>1 DEF CallsGoOn, Started
<1>2. ASSUME NEW c \in Calls, PrepareChanAndCounter(c) PROVE CallsGoOn
  BY <1>2 DEF PrepareChanAndCounter, CallsGoOn, Started, TypeOK
<1>3. ASSUME NEW c \in Calls, SendStep(c) PROVE CallsGoOn
  <2>1. PICK r \in {"waiting", "sent", "acked", "failed"} : pc' = [pc EXCEPT ![c] = r]
    BY <1>3 DEF SendStep, SendFails, SendPayload, AckArrived, AckTimeout,
                ClosedWhileWaiting, WaitOver
  <2>2. cnt' = cnt
    BY <1>3 DEF SendStep, SendFails, SendPayload, AckArrived, AckTimeout,
                ClosedWhileWaiting, WaitOver
  <2> QED
    BY <2>1, <2>2 DEF CallsGoOn, Started, TypeOK
<1>4. ASSUME NEW k \in Conns, Break(k) \/ \E h \in {"nil", "app"} : OpenConnection(k, h)
      PROVE pc' = pc /\ cnt' = cnt
  BY <1>4 DEF Break, OpenConnection, sendVars
<1>5. ASSUME NEW t \in Transceivers,
             \/ EnterListen(t) \/ ListenStep(t)
             \/ CloseConn(t) \/ CloseConnFails(t) \/ SetPayloadHandler(t) \/ Close(t)
      PROVE pc' = pc /\ cnt' = cnt
  BY <1>5 DEF ListenStep, EnterListen, GetConn, ListenReturns, HandleAckMessage,
              ProcessPayload, Receive, SendAck, SendAckFails, CloseConn, CloseConnFails,
              SetPayloadHandler, Close, sendVars
<1>6. CASE UNCHANGED vars
  BY <1>1, <1>6 DEF vars, sendVars
<1> QED
  BY <1>1, <1>2, <1>3, <1>4, <1>5, <1>6 DEF Next

(* PayloadInv is preserved.                                                *)
LEMMA PayloadStep == IInv /\ [Next]_vars => PayloadInv'
<1> SUFFICES ASSUME IInv, [Next]_vars PROVE PayloadInv'
  OBVIOUS
<1>0. CallsGoOn
  BY GoOn
<1>1. ASSUME wire' = wire, handled' = handled PROVE PayloadInv'
  BY <1>0, <1>1, PayloadKept DEF InPlace
<1>2. ASSUME NEW k \in Conns, Break(k) \/ \E h \in {"nil", "app"} : OpenConnection(k, h)
      PROVE wire' = wire /\ handled' = handled
  BY <1>2 DEF Break, OpenConnection, listenVars
<1>3. ASSUME NEW c \in Calls, PrepareChanAndCounter(c) PROVE wire' = wire /\ handled' = handled
  BY <1>3 DEF PrepareChanAndCounter, connVars, listenVars
<1>4. ASSUME NEW c \in Calls, SendStep(c), ~SendPayload(c)
      PROVE wire' = wire /\ handled' = handled
  BY <1>4 DEF SendStep, SendFails, WriteFails, AckArrived, AckTimeout, ClosedWhileWaiting,
              WaitOver, connVars, listenVars
<1>5. ASSUME NEW t \in Transceivers,
             \/ EnterListen(t) \/ GetConn(t) \/ SendAckFails(t)
             \/ CloseConn(t) \/ CloseConnFails(t) \/ SetPayloadHandler(t) \/ Close(t)
      PROVE wire' = wire /\ handled' = handled
  BY <1>5 DEF EnterListen, GetConn, SendAckFails, WriteFails, CloseConn, CloseConnFails,
              SetPayloadHandler, Close, connVars, listenVars
<1>6. ASSUME NEW t \in Transceivers, ListenReturns(t) PROVE PayloadInv'
  <2>1. InPlace("srv") /\ InPlace("cli")
    BY <1>6, ListenReturnsElements DEF InPlace, IInv, Sides
  <2>2. handled' = handled
    BY <1>6 DEF ListenReturns
  <2> QED
    BY <1>0, <2>1, <2>2, PayloadKept
<1>7. ASSUME NEW t \in Transceivers, HandleAckMessage(t) PROVE PayloadInv'
  BY <1>7, PayloadReceive DEF HandleAckMessage
<1>8. ASSUME NEW t \in Transceivers, ProcessPayload(t) PROVE PayloadInv'
  <2>1. /\ Receive(t) /\ Head(Inbox(t)).type = "payload"
        /\ \E o \in {"ok", "error"} : handled' = [handled EXCEPT ![Head(Inbox(t)).call] = o]
    BY <1>8 DEF ProcessPayload, HandlerOutcomes
  <2> QED
    BY <2>1, PayloadReceive
<1>9. ASSUME NEW t \in Transceivers, SendAck(t) PROVE PayloadInv'
  BY <1>0, <1>9, PayloadAck
<1>10. ASSUME NEW c \in Calls, SendPayload(c) PROVE PayloadInv'
  BY <1>10, PayloadSend
<1>11. CASE UNCHANGED vars
  BY <1>1, <1>11 DEF vars, connVars, listenVars
<1> QED
  BY <1>1, <1>2, <1>3, <1>4, <1>5, <1>6, <1>7, <1>8, <1>9, <1>10, <1>11 DEF Next, ListenStep
-----------------------------------------------------------------------------
(* A payload of the client is handled at most once.                        *)
HandledKept == \A c \in ClientCalls : handled[c] # "no" => handled'[c] = handled[c]

(* A handled payload is never handled again.                               *)
LEMMA HandledOnce == IInv /\ [Next]_vars => HandledKept
<1> SUFFICES ASSUME IInv, [Next]_vars PROVE HandledKept
  OBVIOUS
<1> USE CallFacts DEF IInv
<1>1. ASSUME NEW t \in Transceivers, ProcessPayload(t) PROVE HandledKept
  <2> DEFINE m == Head(Inbox(t))
  <2>1. Receive(t) /\ m.type = "payload"
    BY <1>1 DEF ProcessPayload
  <2>2. PICK o \in {"ok", "error"} : handled' = [handled EXCEPT ![m.call] = o]
    BY <1>1 DEF ProcessPayload, HandlerOutcomes
  <2>3. m.call \in Calls /\ rd[t] \in Conns
    BY <2>1, ReceiveType DEF Messages
  <2>4. m.call \in ClientCalls => handled[m.call] = "no"
    <3>1. 1 \in DOMAIN wire[SideOf(t)][rd[t]] /\ m = wire[SideOf(t)][rd[t]][1]
      BY <2>1, ReceiveElements
    <3>2. CASE t = 0
      <4>1. \A k \in Conns : \A i \in DOMAIN wire["cli"][k] :
              wire["cli"][k][i].type = "payload" => wire["cli"][k][i].call \in ServerCalls
        BY DEF PayloadInv
      <4>2. 1 \in DOMAIN wire["cli"][rd[t]] /\ m = wire["cli"][rd[t]][1]
        BY <3>1, <3>2 DEF SideOf
      <4>3. m.call \in ServerCalls
        BY <2>1, <2>3, <4>1, <4>2
      <4> QED
        BY <4>3
    <3>3. CASE t # 0
      <4>1. IsPayload(rd[t], 1) /\ CallAt(rd[t], 1) = m.call /\ 1 \in DOMAIN wire["srv"][rd[t]]
        BY <2>1, <3>1, <3>3 DEF IsPayload, CallAt, SideOf
      <4>2. \A k \in Conns : \A i \in DOMAIN wire["srv"][k] :
              IsPayload(k, i) => handled[CallAt(k, i)] = "no"
        BY DEF PayloadInv
      <4> QED
        BY <2>3, <4>1, <4>2
    <3> QED
      BY <3>2, <3>3
  <2> QED
    BY <2>2, <2>3, <2>4 DEF HandledKept, TypeOK
<1>2. ASSUME handled' = handled PROVE HandledKept
  BY <1>2 DEF HandledKept
<1>3. CASE UNCHANGED vars
  BY <1>2, <1>3 DEF vars, listenVars
<1>4. CASE Next /\ \A t \in Transceivers : ~ProcessPayload(t)
  <2>1. handled' = handled
    BY <1>4 DEF Next, SendStep, ListenStep, Break, OpenConnection, PrepareChanAndCounter,
                SendFails, SendPayload, AckArrived, AckTimeout, ClosedWhileWaiting, WaitOver,
                EnterListen, GetConn, ListenReturns, HandleAckMessage, SendAck, SendAckFails,
                CloseConn, CloseConnFails, SetPayloadHandler, Close, listenVars
  <2> QED
    BY <1>2, <2>1
<1> QED
  BY <1>1, <1>3, <1>4

(* What AckInv needs of a step: whatever is new in it is earned.           *)
AckSteps ==
    /\ \A k \in Conns : \A i \in DOMAIN wire'["cli"][k] : wire'["cli"][k][i].type = "ack" =>
         \/ \E j \in DOMAIN wire["cli"][k] : wire'["cli"][k][i] = wire["cli"][k][j]
         \/ Earned(wire["cli"][k][i])'
    /\ \A t \in Conns : listen'[t] = "ack" =>
         (listen[t] = "ack" /\ msg'[t] = msg[t]) \/ Earned(msg[t])'
    /\ \A c \in ClientCalls : c \in chClosed' =>
         c \in chClosed \/ handled[c] \in Acknowledgeable
    /\ chClosed \subseteq chClosed'
    /\ \A c \in ClientCalls : pc'[c] = "acked" => pc[c] = "acked" \/ c \in chClosed

(* A step that adds only earned acknowledges preserves AckInv.             *)
LEMMA AckKept ==
    ASSUME IInv, CallsGoOn, HandledKept, AckSteps
    PROVE  AckInv'
<1> USE CallFacts DEF IInv
<1>0. "no" \notin Acknowledgeable
  BY DEF Acknowledgeable
<1>1. \A m : Earned(m) => /\ m.call \in ClientCalls
                         /\ pc'[m.call] # "idle"
                         /\ m.counter = cnt'[m.call]
                         /\ handled'[m.call] \in Acknowledgeable
  BY <1>0 DEF Earned, CallsGoOn, HandledKept, Started
<1>2. ASSUME NEW k \in Conns, NEW i \in DOMAIN wire'["cli"][k], wire'["cli"][k][i].type = "ack"
      PROVE  Earned(wire["cli"][k][i])'
  <2>1. CASE \E j \in DOMAIN wire["cli"][k] : wire'["cli"][k][i] = wire["cli"][k][j]
    <3>1. PICK j \in DOMAIN wire["cli"][k] : wire'["cli"][k][i] = wire["cli"][k][j]
      BY <2>1
    <3>2. Earned(wire["cli"][k][j])
      BY <1>2, <3>1 DEF AckInv
    <3> QED
      BY <1>1, <3>1, <3>2 DEF Earned, Started
  <2> QED
    BY <1>2, <2>1 DEF AckSteps
<1>3. ASSUME NEW t \in Conns, listen'[t] = "ack" PROVE Earned(msg[t])'
  <2>1. CASE listen[t] = "ack" /\ msg'[t] = msg[t]
    <3>1. Earned(msg[t])
      BY <2>1 DEF AckInv
    <3> QED
      BY <1>1, <2>1, <3>1 DEF Earned, Started
  <2> QED
    BY <1>3, <2>1 DEF AckSteps
<1>4. ASSUME NEW c \in ClientCalls, c \in chClosed' PROVE handled'[c] \in Acknowledgeable
  BY <1>0, <1>4 DEF AckSteps, AckInv, HandledKept
<1>5. ASSUME NEW c \in ClientCalls, pc'[c] = "acked" PROVE c \in chClosed'
  BY <1>5 DEF AckSteps, AckInv
<1> QED
  BY <1>2, <1>3, <1>4, <1>5 DEF AckInv

(* Every step is one of AckSteps.                                          *)
LEMMA AckStep == IInv /\ [Next]_vars => AckInv'
<1> SUFFICES ASSUME IInv, [Next]_vars PROVE AckSteps
  BY GoOn, HandledOnce, AckKept
<1> USE CallFacts DEF IInv
<1>1. ASSUME InPlace("cli"), chClosed' = chClosed, pc' = pc,
             \A t \in Conns : listen'[t] = "ack" => listen[t] = "ack" /\ msg'[t] = msg[t]
      PROVE  AckSteps
  BY <1>1 DEF AckSteps, InPlace
<1>2. ASSUME wire' = wire, chClosed' = chClosed, pc' = pc, listen' = listen, msg' = msg
      PROVE  AckSteps
  BY <1>1, <1>2 DEF InPlace
<1>3. ASSUME NEW k \in Conns, Break(k) \/ \E h \in {"nil", "app"} : OpenConnection(k, h)
      PROVE  AckSteps
  BY <1>2, <1>3 DEF Break, OpenConnection, sendVars, listenVars
<1>4. ASSUME NEW t \in Transceivers,
             CloseConn(t) \/ CloseConnFails(t) \/ SetPayloadHandler(t) \/ Close(t)
      PROVE  AckSteps
  BY <1>2, <1>4 DEF CloseConn, CloseConnFails, SetPayloadHandler, Close, connVars, sendVars,
                    listenVars
<1>5. ASSUME NEW t \in Transceivers, EnterListen(t) \/ GetConn(t) \/ SendAckFails(t)
      PROVE  AckSteps
  <2>1. wire' = wire /\ chClosed' = chClosed /\ pc' = pc
    BY <1>5 DEF EnterListen, GetConn, SendAckFails, WriteFails, connVars, sendVars
  <2>2. \A u \in Transceivers : listen'[u] = "ack" => listen[u] = "ack" /\ msg'[u] = msg[u]
    BY <1>5 DEF EnterListen, GetConn, SendAckFails, TypeOK
  <2> QED
    BY <1>1, <2>1, <2>2 DEF InPlace
<1>6. ASSUME NEW t \in Transceivers, ListenReturns(t) PROVE AckSteps
  <2>1. chClosed' = chClosed /\ pc' = pc /\ InPlace("cli")
    BY <1>6, ListenReturnsElements DEF ListenReturns, sendVars, InPlace, Sides
  <2>2. \A u \in Transceivers : listen'[u] = "ack" => listen[u] = "ack" /\ msg'[u] = msg[u]
    BY <1>6 DEF ListenReturns, TypeOK
  <2> QED
    BY <1>1, <2>1, <2>2
<1>7. ASSUME NEW c \in Calls, PrepareChanAndCounter(c) PROVE AckSteps
  <2>1. wire' = wire /\ chClosed' = chClosed /\ listen' = listen /\ msg' = msg
    BY <1>7 DEF PrepareChanAndCounter, connVars, listenVars
  <2>2. \A d \in Calls : pc'[d] = "acked" => pc[d] = "acked"
    BY <1>7 DEF PrepareChanAndCounter, TypeOK
  <2> QED
    BY <2>1, <2>2 DEF AckSteps
<1>8. ASSUME NEW c \in Calls, SendStep(c), ~SendPayload(c) PROVE AckSteps
  <2>1. wire' = wire /\ chClosed' = chClosed /\ listen' = listen /\ msg' = msg
    BY <1>8 DEF SendStep, SendFails, WriteFails, AckArrived, AckTimeout, ClosedWhileWaiting,
                WaitOver, connVars, listenVars
  <2>2. \A d \in Calls : pc'[d] = "acked" => pc[d] = "acked" \/ d \in chClosed
    BY <1>8 DEF SendStep, SendFails, AckArrived, AckTimeout, ClosedWhileWaiting, WaitOver, TypeOK
  <2> QED
    BY <2>1, <2>2 DEF AckSteps
<1>9. ASSUME NEW c \in Calls, SendPayload(c) PROVE AckSteps
  <2> DEFINE m == PayloadMessage(c, cnt[c])
  <2>1. m \in Messages /\ m.type = "payload"
    BY MessageFacts DEF TypeOK, PayloadMessage
  <2>2. \A k \in Conns : \A i \in DOMAIN wire'["cli"][k] :
          \/ i \in DOMAIN wire["cli"][k] /\ wire'["cli"][k][i] = wire["cli"][k][i]
          \/ wire'["cli"][k][i] = m
    BY <1>9, <2>1, TransmitElements DEF SendPayload, Sides
  <2>3. chClosed' = chClosed /\ listen' = listen /\ msg' = msg
    BY <1>9 DEF SendPayload, listenVars
  <2>4. \A d \in Calls : pc'[d] = "acked" => pc[d] = "acked"
    BY <1>9 DEF SendPayload, TypeOK
  <2> QED
    BY <2>1, <2>2, <2>3, <2>4 DEF AckSteps
<1>10. ASSUME NEW t \in Transceivers, HandleAckMessage(t) PROVE AckSteps
  <2> DEFINE m == Head(Inbox(t))
  <2>1. Receive(t) /\ m.type = "ack" /\ pc' = pc /\ msg' = msg
    BY <1>10 DEF HandleAckMessage, Receive
  <2>2. \A k \in Conns : \A i \in DOMAIN wire'["cli"][k] :
          \E j \in DOMAIN wire["cli"][k] : wire'["cli"][k][i] = wire["cli"][k][j]
    BY <2>1, ReceiveElements DEF Sides
  <2>3. \A u \in Transceivers : listen'[u] = "ack" => listen[u] = "ack"
    BY <1>10 DEF HandleAckMessage, TypeOK
  <2>4. chClosed' = chClosed \cup {p[2] : p \in {q \in mapAck[t] : q[1] = m.counter}}
    BY <1>10 DEF HandleAckMessage
  <2>5. ASSUME NEW p \in mapAck[t], p[1] = m.counter, p[2] \in ClientCalls
        PROVE  handled[p[2]] \in Acknowledgeable
    <3>1. p[2][2] = t /\ Started(p[2]) /\ p[1] = cnt[p[2]]
      BY DEF MapInv
    <3>2. t = 0
      BY <2>5, <3>1
    <3>3. Earned(m)
      <4>1. m = wire["cli"][rd[t]][1] /\ 1 \in DOMAIN wire["cli"][rd[t]] /\ rd[t] \in Conns
        BY <2>1, <3>2, ReceiveElements, ReceiveType DEF SideOf
      <4> QED
        BY <2>1, <4>1 DEF AckInv
    <3>4. m.call = p[2]
      BY <2>5, <3>1, <3>3 DEF Earned, CounterInv
    <3> QED
      BY <3>3, <3>4 DEF Earned
  <2> QED
    BY <2>1, <2>2, <2>3, <2>4, <2>5 DEF AckSteps
<1>11. ASSUME NEW t \in Transceivers, ProcessPayload(t) PROVE AckSteps
  <2> DEFINE m == Head(Inbox(t))
  <2>1. Receive(t) /\ m.type = "payload" /\ pc' = pc /\ cnt' = cnt /\ chClosed' = chClosed
    BY <1>11 DEF ProcessPayload, Receive
  <2>2. \A k \in Conns : \A i \in DOMAIN wire'["cli"][k] :
          \E j \in DOMAIN wire["cli"][k] : wire'["cli"][k][i] = wire["cli"][k][j]
    BY <2>1, ReceiveElements DEF Sides
  <2>3. PICK o \in {"ok", "error"} :
          /\ handled' = [handled EXCEPT ![m.call] = o]
          /\ \/ /\ ~(o = "error" /\ BlockingAckOnError)
                /\ listen' = [listen EXCEPT ![t] = "ack"]
                /\ msg' = [msg EXCEPT ![t] = m]
             \/ /\ listen' = [listen EXCEPT ![t] = "get"]
                /\ UNCHANGED msg
    BY <1>11 DEF ProcessPayload, HandlerOutcomes
  <2>4. \A u \in Transceivers : u # t => listen'[u] = listen[u] /\ msg'[u] = msg[u]
    BY <2>3 DEF TypeOK
  <2>5. ASSUME t \in Conns, listen'[t] = "ack" PROVE Earned(msg[t])'
    <3>1. msg'[t] = m /\ o \in Acknowledgeable
      BY <2>3, <2>5, BlockingAckAssumption DEF TypeOK, Acknowledgeable
    <3>2. rd[t] \in Conns /\ 1 \in DOMAIN wire["srv"][rd[t]] /\ m = wire["srv"][rd[t]][1]
      BY <2>1, <2>5, ReceiveElements, ReceiveType DEF SideOf
    <3>3. IsPayload(rd[t], 1) /\ CallAt(rd[t], 1) = m.call
      BY <2>1, <3>2 DEF IsPayload, CallAt
    <3>4. m.call \in ClientCalls /\ pc[m.call] # "idle" /\ m.counter = cnt[m.call]
      BY <3>2, <3>3 DEF PayloadInv
    <3>5. handled'[m.call] = o
      BY <2>3, <3>4 DEF TypeOK
    <3> QED
      BY <2>1, <3>1, <3>4, <3>5 DEF Earned, Started, Acknowledgeable
  <2> QED
    BY <2>1, <2>2, <2>4, <2>5 DEF AckSteps
<1>12. ASSUME NEW t \in Transceivers, SendAck(t) PROVE AckSteps
  <2> DEFINE m == AckMessage(msg[t])
  <2>1. m \in Messages /\ m.call = msg[t].call /\ m.counter = msg[t].counter
    BY <1>12, MessageFacts DEF SendAck, TypeOK, AckMessage
  <2>2. \A s \in Sides, k \in Conns : \A i \in DOMAIN wire'[s][k] :
          \/ i \in DOMAIN wire[s][k] /\ wire'[s][k][i] = wire[s][k][i]
          \/ s = Other(SideOf(t)) /\ wire'[s][k][i] = m
    BY <1>12, <2>1, TransmitElements DEF SendAck
  <2>3. pc' = pc /\ cnt' = cnt /\ chClosed' = chClosed /\ handled' = handled
    BY <1>12 DEF SendAck, sendVars
  <2>4. \A u \in Transceivers : listen'[u] = "ack" => listen[u] = "ack" /\ msg'[u] = msg[u]
    BY <1>12 DEF SendAck, TypeOK
  <2>5. t \in Conns => Earned(msg[t])
    BY <1>12 DEF SendAck, AckInv
  <2>6. t \notin Conns => Other(SideOf(t)) = "srv"
    BY DEF SideOf, Other
  <2>7. ASSUME NEW k \in Conns, NEW i \in DOMAIN wire'["cli"][k], wire'["cli"][k][i] = m,
               t \in Conns
        PROVE  Earned(wire["cli"][k][i])'
    BY <2>1, <2>3, <2>5, <2>7 DEF Earned, Started, Acknowledgeable
  <2>8. \A k \in Conns : \A i \in DOMAIN wire'["cli"][k] :
          \/ \E j \in DOMAIN wire["cli"][k] : wire'["cli"][k][i] = wire["cli"][k][j]
          \/ Earned(wire["cli"][k][i])'
    BY <2>2, <2>6, <2>7 DEF Sides
  <2> QED
    BY <2>3, <2>4, <2>8 DEF AckSteps
<1>13. CASE UNCHANGED vars
  BY <1>2, <1>13 DEF vars, connVars, sendVars, listenVars
<1> QED
  BY <1>3, <1>4, <1>5, <1>6, <1>7, <1>8, <1>9, <1>10, <1>11, <1>12, <1>13
  DEF Next, ListenStep
-----------------------------------------------------------------------------
(* The invariant holds initially.                                          *)
LEMMA IInvInit == Init => IInv
<1> SUFFICES ASSUME Init PROVE IInv
  OBVIOUS
<1> USE CallFacts
<1>1. TypeOK
  BY TypeInit
<1>2. CounterInv /\ MapInv
  BY DEF Init, CounterInv, MapInv, Started
<1>3. \A s \in Sides, k \in Conns : wire[s][k] = <<>> /\ DOMAIN wire[s][k] = {}
  BY DEF Init
<1>4. PayloadInv /\ AckInv
  BY <1>3 DEF Init, PayloadInv, AckInv, Sides
<1> QED
  BY <1>1, <1>2, <1>4 DEF IInv

(* The invariant is preserved, conjunct by conjunct.                       *)
LEMMA IInvStep == IInv /\ [Next]_vars => IInv'
BY TypeStep, CounterStep, PayloadStep, AckStep DEF IInv

(* The acknowledge protocol never leaves the types of its state, whatever  *)
(* the environment does with the connections.                              *)
THEOREM TypeCorrect == Spec => []TypeOK
<1>1. QED
  BY TypeInit, TypeStep, PTL DEF Spec

(* The invariant holds in every reachable state.                           *)
LEMMA Invariance == Spec => []IInv
<1>1. QED
  BY IInvInit, IInvStep, PTL DEF Spec

(* For any number of callers and connections: a Send of the client that    *)
(* returns nil was handled by the server, successfully if it must be       *)
(* (transceiver.go, Send to waitForAck and handleAckMessage).              *)
THEOREM ClientAckIsSound == Spec => []ClientAckMeansHandled
<1>1. IInv => ClientAckMeansHandled
  BY DEF IInv, AckInv, ClientAckMeansHandled
<1> QED
  BY <1>1, Invariance, PTL

(* handleAckMessage never closes a channel twice, on either side.          *)
THEOREM ChannelsCloseOnce == Spec => []NoDoubleClose
<1>1. IInv => NoDoubleClose
  BY DEF IInv, MapInv, NoDoubleClose
<1> QED
  BY <1>1, Invariance, PTL

(* The protocol implements AckedDelivery for the client's calls.           *)
THEOREM ImplementsAckedDelivery == Spec => ClientSendsAreAckedDeliveries
<1> DEFINE st == [c \in ClientCalls |-> CallStatus(c)]
           oc == [c \in ClientCalls |-> IF handled[c] = "no" THEN "none" ELSE handled[c]]
<1>1. Init => Delivery!Init
  BY CallFacts DEF Init, Delivery!Init, CallStatus
<1>2. IInv /\ [Next]_vars => [Delivery!Next]_(Delivery!vars)
  <2> SUFFICES ASSUME IInv, [Next]_vars PROVE Delivery!Next \/ UNCHANGED Delivery!vars
    OBVIOUS
  <2> USE CallFacts DEF IInv
  <2>1. ASSUME pc' = pc, handled' = handled PROVE UNCHANGED Delivery!vars
    BY <2>1 DEF Delivery!vars, CallStatus
  <2>2. ASSUME NEW c \in Calls, handled' = handled,
               \A d \in Calls : d # c => pc'[d] = pc[d],
               \/ pc[c] = "idle" /\ pc'[c] = "prepared"
               \/ pc[c] \in {"prepared", "waiting"} /\ pc'[c] \in {"waiting", "sent", "failed"}
               \/ pc[c] = "waiting" /\ pc'[c] = "acked" /\ c \in chClosed
        PROVE  Delivery!Next \/ UNCHANGED Delivery!vars
    <3>1. CASE c \notin ClientCalls
      BY <2>2, <3>1 DEF Delivery!vars, CallStatus
    <3>2. CASE c \in ClientCalls
      <4>1. oc' = oc
        BY <2>2
      <4>2. \A d \in ClientCalls : d # c => CallStatus(d)' = CallStatus(d)
        BY <2>2 DEF CallStatus
      <4>3. st' = [st EXCEPT ![c] = CallStatus(c)']
        BY <3>2, <4>2
      <4>4. CASE pc[c] = "idle" /\ pc'[c] = "prepared"
        <5>1. CallStatus(c) = "idle" /\ CallStatus(c)' = "pending"
          BY <4>4 DEF CallStatus
        <5> QED
          BY <3>2, <4>1, <4>3, <5>1 DEF Delivery!Next, Delivery!Begin
      <4>5. CASE pc[c] \in {"prepared", "waiting"} /\ pc'[c] = "waiting"
        <5>1. CallStatus(c) = "pending" /\ CallStatus(c)' = "pending"
          BY <4>5 DEF CallStatus
        <5>2. st' = st
          BY <4>3, <5>1
        <5> QED
          BY <4>1, <5>2 DEF Delivery!vars
      <4>6. CASE pc[c] \in {"prepared", "waiting"} /\ pc'[c] \in {"sent", "failed"}
        <5>1. CallStatus(c) = "pending" /\ CallStatus(c)' = "failed"
          BY <4>6 DEF CallStatus
        <5> QED
          BY <3>2, <4>1, <4>3, <5>1 DEF Delivery!Next, Delivery!ReturnError
      <4>7. CASE pc[c] = "waiting" /\ pc'[c] = "acked" /\ c \in chClosed
        <5>1. CallStatus(c) = "pending" /\ CallStatus(c)' = "confirmed"
          BY <4>7 DEF CallStatus
        <5>2. handled[c] \in Acknowledgeable
          BY <3>2, <4>7 DEF AckInv
        <5>3. Delivery!Confirmable(c)
          BY <3>2, <5>2 DEF Delivery!Confirmable, Acknowledgeable
        <5> QED
          BY <3>2, <4>1, <4>3, <5>1, <5>3 DEF Delivery!Next, Delivery!ReturnNil
      <4> QED
        BY <2>2, <4>4, <4>5, <4>6, <4>7
    <3> QED
      BY <3>1, <3>2
  <2>3. ASSUME NEW c \in Calls, PrepareChanAndCounter(c) \/ SendStep(c)
        PROVE  Delivery!Next \/ UNCHANGED Delivery!vars
    <3>1. handled' = handled
      BY <2>3 DEF PrepareChanAndCounter, SendStep, SendFails, SendPayload, AckArrived,
                  AckTimeout, ClosedWhileWaiting, WaitOver, listenVars
    <3>2. \A d \in Calls : d # c => pc'[d] = pc[d]
      BY <2>3 DEF PrepareChanAndCounter, SendStep, SendFails, SendPayload, AckArrived,
                  AckTimeout, ClosedWhileWaiting, WaitOver, TypeOK
    <3>3. \/ pc[c] = "idle" /\ pc'[c] = "prepared"
          \/ pc[c] \in {"prepared", "waiting"} /\ pc'[c] \in {"waiting", "sent", "failed"}
          \/ pc[c] = "waiting" /\ pc'[c] = "acked" /\ c \in chClosed
      BY <2>3 DEF PrepareChanAndCounter, SendStep, SendFails, SendPayload, AckArrived,
                  AckTimeout, ClosedWhileWaiting, WaitOver, TypeOK
    <3> QED
      BY <2>2, <3>1, <3>2, <3>3
  <2>4. ASSUME NEW t \in Transceivers, ProcessPayload(t)
        PROVE  Delivery!Next \/ UNCHANGED Delivery!vars
    <3> DEFINE m == Head(Inbox(t))
    <3>1. Receive(t) /\ m.type = "payload" /\ pc' = pc
      BY <2>4 DEF ProcessPayload, Receive
    <3>2. PICK o \in {"ok", "error"} : handled' = [handled EXCEPT ![m.call] = o]
      BY <2>4 DEF ProcessPayload, HandlerOutcomes
    <3>3. m.call \in Calls /\ rd[t] \in Conns
      BY <3>1, ReceiveType DEF Messages
    <3>4. st' = st
      BY <3>1 DEF CallStatus
    <3>5. CASE m.call \notin ClientCalls
      <4>1. oc' = oc
        BY <3>2, <3>3, <3>5 DEF TypeOK
      <4> QED
        BY <3>4, <4>1 DEF Delivery!vars
    <3>6. CASE m.call \in ClientCalls
      <4>1. 1 \in DOMAIN wire[SideOf(t)][rd[t]] /\ m = wire[SideOf(t)][rd[t]][1]
        BY <3>1, ReceiveElements
      <4>2. t # 0
        BY <3>1, <3>3, <3>6, <4>1 DEF PayloadInv, SideOf
      <4>3. /\ IsPayload(rd[t], 1) /\ CallAt(rd[t], 1) = m.call
            /\ 1 \in DOMAIN wire["srv"][rd[t]]
        BY <3>1, <4>1, <4>2 DEF IsPayload, CallAt, SideOf
      <4>4. handled[m.call] = "no" /\ pc[m.call] \notin {"idle", "prepared"}
        <5>1. /\ handled[CallAt(rd[t], 1)] = "no"
              /\ pc[CallAt(rd[t], 1)] \notin {"idle", "prepared"}
          BY <3>3, <4>3 DEF PayloadInv
        <5> QED
          BY <4>3, <5>1
      <4>5. oc' = [oc EXCEPT ![m.call] = o] /\ oc[m.call] = "none"
        <5>1. handled'[m.call] = o /\ \A d \in Calls : d # m.call => handled'[d] = handled[d]
          BY <3>2, <3>3 DEF TypeOK
        <5>2. \A d \in ClientCalls :
                oc'[d] = IF d = m.call THEN o ELSE oc[d]
          BY <5>1
        <5> QED
          BY <3>6, <4>4, <5>2
      <4>6. CallStatus(m.call) # "idle"
        BY <4>4 DEF CallStatus
      <4> QED
        BY <3>4, <3>6, <4>5, <4>6 DEF Delivery!Next, Delivery!Handle
    <3> QED
      BY <3>5, <3>6
  <2>5. ASSUME NEW k \in Conns, Break(k) \/ \E h \in {"nil", "app"} : OpenConnection(k, h)
        PROVE  pc' = pc /\ handled' = handled
    BY <2>5 DEF Break, OpenConnection, sendVars, listenVars
  <2>6. ASSUME NEW t \in Transceivers, ~ProcessPayload(t),
               \/ EnterListen(t) \/ ListenStep(t)
               \/ CloseConn(t) \/ CloseConnFails(t) \/ SetPayloadHandler(t) \/ Close(t)
        PROVE  pc' = pc /\ handled' = handled
    BY <2>6 DEF ListenStep, EnterListen, GetConn, ListenReturns, HandleAckMessage, Receive,
                SendAck, SendAckFails, CloseConn, CloseConnFails, SetPayloadHandler, Close,
                sendVars, listenVars
  <2>7. CASE UNCHANGED vars
    BY <2>1, <2>7 DEF vars, sendVars, listenVars
  <2> QED
    BY <2>1, <2>3, <2>4, <2>5, <2>6, <2>7 DEF Next
<1> QED
  BY <1>1, <1>2, Invariance, PTL DEF Spec, ClientSendsAreAckedDeliveries, Delivery!Spec
-----------------------------------------------------------------------------
(***************************************************************************)
(* The host.                                                               *)
(***************************************************************************)
(***************************************************************************)
(* The host's own state: Listen of the client runs only while its          *)
(* goroutine waits for it, and client.Close closes the transceiver first.  *)
(***************************************************************************)
Listening == {"get", "read", "ack"}
HostInv ==
    /\ srvHandler \in {"nil", "app"}
    /\ cliClose # "no" => safeClosed[0]
    /\ listen[0] \in Listening => listener = "listen"

(* While Listen of the client runs and the client is not being closed, no  *)
(* step takes the connection from it.                                      *)
ConnHeld == ~safeClosed'[0] /\ listen[0] \in Listening /\ Open(0) => conn'[0] = conn[0]
-----------------------------------------------------------------------------
(* Every step of the host is one of the transceivers' or leaves them alone.*)
LEMMA HostStep == HostInv /\ [HostNext]_hostVars => [Next]_vars
<1> SUFFICES ASSUME HostInv, [HostNext]_hostVars PROVE Next \/ UNCHANGED vars
  OBVIOUS
<1> USE CallFacts
<1>1. CASE UNCHANGED hostVars
  BY <1>1 DEF hostVars
<1>2. CASE Transceive
  BY <1>2 DEF Transceive, Next
<1>3. ASSUME NEW k \in Conns, OpenerOpens(k) PROVE Next
  BY <1>3 DEF OpenerOpens, Next, HostInv
<1>4. CASE OpenerDoesNotOpen \/ OpenerTimer \/ OpenerEnds \/ ListenerEnds \/ ClientCloseReturns
  BY <1>4 DEF OpenerDoesNotOpen, OpenerTimer, OpenerEnds, ListenerEnds, ClientCloseReturns
<1>5. CASE ListenerEnters
  BY <1>5 DEF ListenerEnters, Next
<1>6. CASE ListenerCloses \/ ListenerCloseFails
  BY <1>6 DEF ListenerCloses, ListenerCloseFails, Next
<1>7. ASSUME NEW c \in ClientCalls, ClientSend(c) PROVE Next
  BY <1>7 DEF ClientSend, Next
<1>8. ASSUME NEW c \in ClientCalls, ClientDrops(c) PROVE UNCHANGED vars
  BY <1>8 DEF ClientDrops
<1>9. CASE ClientSetsHandler
  BY <1>9 DEF ClientSetsHandler, Next
<1>10. CASE ClientClosesTransceiver
  BY <1>10 DEF ClientClosesTransceiver, Next
<1>11. CASE ClientClosesConn
  BY <1>11 DEF ClientClosesConn, Next
<1>12. ASSUME NEW k \in Conns, AddTransceiverAndConn(k) PROVE Next
  BY <1>12 DEF AddTransceiverAndConn, Next
<1>13. ASSUME NEW k \in Conns, NewTransceiverFails(k) \/ Remove(k) PROVE UNCHANGED vars
  BY <1>13 DEF NewTransceiverFails, Remove
<1>14. ASSUME NEW s \in SrvCallers, ServerSend(s) \/ ServerSendReturns(s) PROVE UNCHANGED vars
  BY <1>14 DEF ServerSend, ServerSendReturns
<1>15. ASSUME NEW s \in SrvCallers, NEW k \in Conns, ServerSendsTo(s, k) PROVE Next
  <2>1. <<s, k>> \in Calls
    BY DEF Calls, ServerCalls
  <2> QED
    BY <1>15, <2>1 DEF ServerSendsTo, Next
<1>16. CASE ServerSetsHandler \/ ServerShutsDown \/ ServerGetsAll \/ ServerCloseReturns
  BY <1>16 DEF ServerSetsHandler, ServerShutsDown, ServerGetsAll, ServerCloseReturns
<1>17. ASSUME NEW k \in Conns, ServerClosesTransceiver(k) PROVE Next
  BY <1>17 DEF ServerClosesTransceiver, Next
<1>18. ASSUME NEW k \in Conns, ServerClosesConn(k) PROVE Next \/ UNCHANGED vars
  BY <1>18 DEF ServerClosesConn, Next
<1> QED
  BY <1>1, <1>2, <1>3, <1>4, <1>5, <1>6, <1>7, <1>8, <1>9, <1>10, <1>11, <1>12, <1>13,
     <1>14, <1>15, <1>16, <1>17, <1>18 DEF HostNext, Client, Server

(* The host's own state goes on as it must.                                *)
LEMMA HostInvStep == TypeOK /\ HostInv /\ [HostNext]_hostVars => HostInv' /\ ConnHeld
<1> SUFFICES ASSUME TypeOK, HostInv, [HostNext]_hostVars PROVE HostInv' /\ ConnHeld
  OBVIOUS
<1> USE CallFacts
<1>0. ASSUME UNCHANGED <<listen, conn, safeClosed>>, srvHandler' \in {"nil", "app"},
             cliClose' # "no" => safeClosed[0],
             listener' = listener \/ listen[0] \notin Listening
      PROVE  HostInv' /\ ConnHeld
  BY <1>0 DEF HostInv, ConnHeld, Open
<1>1. CASE UNCHANGED hostVars
  BY <1>0, <1>1 DEF hostVars, vars, connVars, listenVars, cfgVars, clientVars, serverVars, HostInv
<1>2. CASE Transceive
  <2>1. UNCHANGED <<clientVars, serverVars>>
    BY <1>2 DEF Transceive
  <2>2. ASSUME NEW t \in Transceivers, ListenStep(t)
        PROVE  /\ conn' = conn /\ safeClosed' = safeClosed
               /\ listen'[0] # listen[0] => listen[0] \in Listening
    <3>1. conn' = conn /\ safeClosed' = safeClosed
      BY <2>2 DEF ListenStep, GetConn, ListenReturns, HandleAckMessage, ProcessPayload, Receive,
                  SendAck, SendAckFails, Transmit, WriteFails, connVars, cfgVars
    <3>2. listen[t] \in Listening
      BY <2>2 DEF ListenStep, GetConn, ListenReturns, HandleAckMessage, ProcessPayload, Receive,
                  SendAck, SendAckFails, Listening
    <3>3. t # 0 => listen'[0] = listen[0]
      BY <2>2 DEF ListenStep, GetConn, ListenReturns, HandleAckMessage, ProcessPayload, Receive,
                  SendAck, SendAckFails, TypeOK
    <3> QED
      BY <3>1, <3>2, <3>3
  <2>3. ASSUME NEW c \in Calls, SendStep(c)
        PROVE  conn' = conn /\ safeClosed' = safeClosed /\ listen' = listen
    BY <2>3 DEF SendStep, SendFails, SendPayload, AckArrived, AckTimeout, ClosedWhileWaiting,
                WaitOver, Transmit, WriteFails, connVars, listenVars, cfgVars
  <2>4. ASSUME NEW k \in Conns, Break(k)
        PROVE  conn' = conn /\ safeClosed' = safeClosed /\ listen' = listen
    BY <2>4 DEF Break, listenVars, cfgVars
  <2>5. /\ conn' = conn /\ safeClosed' = safeClosed
        /\ listen'[0] # listen[0] => listen[0] \in Listening
    BY <1>2, <2>2, <2>3, <2>4 DEF Transceive
  <2> QED
    BY <2>1, <2>5 DEF HostInv, ConnHeld, Open, clientVars, serverVars
<1>3. ASSUME NEW k \in Conns, OpenerOpens(k) PROVE HostInv' /\ ConnHeld
  BY <1>3 DEF OpenerOpens, OpenConnection, HostInv, ConnHeld, Open, listenVars, TypeOK
<1>4. CASE OpenerDoesNotOpen \/ OpenerTimer \/ OpenerEnds \/ ListenerEnds \/ ClientCloseReturns
  <2>1. listener' = listener \/ listener = "wait"
    BY <1>4 DEF OpenerDoesNotOpen, OpenerTimer, OpenerEnds, ListenerEnds, ClientCloseReturns
  <2>2. UNCHANGED <<listen, conn, safeClosed>> /\ srvHandler' = srvHandler
    BY <1>4 DEF OpenerDoesNotOpen, OpenerTimer, OpenerEnds, ListenerEnds, ClientCloseReturns,
                vars, connVars, listenVars, cfgVars, serverVars
  <2>3. cliClose' = cliClose \/ cliClose = "conn"
    BY <1>4 DEF OpenerDoesNotOpen, OpenerTimer, OpenerEnds, ListenerEnds, ClientCloseReturns
  <2> QED
    BY <1>0, <2>1, <2>2, <2>3 DEF HostInv
<1>5. CASE ListenerEnters
  BY <1>5 DEF ListenerEnters, EnterListen, HostInv, ConnHeld, connVars, cfgVars, serverVars
<1>6. CASE ListenerCloses \/ ListenerCloseFails
  <2>1. /\ listen[0] \notin Listening /\ UNCHANGED <<listen, safeClosed>>
        /\ srvHandler' = srvHandler /\ cliClose' = cliClose
    BY <1>6 DEF ListenerCloses, ListenerCloseFails, CloseConn, CloseConnFails, Listening, vars,
                listenVars, cfgVars, serverVars
  <2> QED
    BY <2>1 DEF HostInv, ConnHeld
<1>7. ASSUME NEW c \in ClientCalls, ClientSend(c) \/ ClientDrops(c) PROVE HostInv' /\ ConnHeld
  <2>1. UNCHANGED <<listen, conn, safeClosed, srvHandler, cliClose, listener>>
    BY <1>7 DEF ClientSend, ClientDrops, PrepareChanAndCounter, vars, connVars, listenVars,
                cfgVars, clientVars, serverVars
  <2> QED
    BY <1>0, <2>1 DEF HostInv
<1>8. CASE ClientSetsHandler
  <2>1. UNCHANGED <<listen, conn, safeClosed, srvHandler, cliClose, listener>>
    BY <1>8 DEF ClientSetsHandler, SetPayloadHandler, connVars, listenVars, clientVars, serverVars
  <2> QED
    BY <1>0, <2>1 DEF HostInv
<1>9. CASE ClientClosesTransceiver
  <2>1. safeClosed'[0] /\ listen' = listen /\ srvHandler' = srvHandler /\ listener' = listener
    BY <1>9 DEF ClientClosesTransceiver, Close, listenVars, serverVars, TypeOK
  <2> QED
    BY <2>1 DEF HostInv, ConnHeld
<1>10. CASE ClientClosesConn
  <2>1. /\ cliClose = "transceiver" /\ UNCHANGED <<listen, safeClosed>>
        /\ srvHandler' = srvHandler /\ listener' = listener
    BY <1>10 DEF ClientClosesConn, CloseConn, CloseConnFails, vars, listenVars, cfgVars, serverVars
  <2> QED
    BY <2>1 DEF HostInv, ConnHeld
<1>11. ASSUME NEW k \in Conns, AddTransceiverAndConn(k) PROVE HostInv' /\ ConnHeld
  <2>1. /\ listen'[0] = listen[0] /\ conn' = conn /\ safeClosed' = safeClosed
        /\ UNCHANGED <<srvHandler, cliClose, listener>>
    BY <1>11 DEF AddTransceiverAndConn, EnterListen, connVars, cfgVars, clientVars, TypeOK
  <2> QED
    BY <2>1 DEF HostInv, ConnHeld
<1>12. CASE \/ \E k \in Conns : NewTransceiverFails(k) \/ Remove(k)
            \/ \E s \in SrvCallers : ServerSend(s) \/ ServerSendReturns(s)
            \/ ServerSetsHandler \/ ServerShutsDown \/ ServerGetsAll \/ ServerCloseReturns
  <2>1. UNCHANGED <<vars, clientVars>> /\ (srvHandler' = srvHandler \/ srvHandler' = "app")
    BY <1>12 DEF NewTransceiverFails, Remove, ServerSend, ServerSendReturns, ServerSetsHandler, ServerShutsDown,
                 ServerGetsAll, ServerCloseReturns
  <2> QED
    BY <1>0, <2>1 DEF HostInv, vars, connVars, listenVars, cfgVars, clientVars
<1>13. ASSUME NEW s \in SrvCallers, NEW k \in Conns, ServerSendsTo(s, k)
       PROVE  HostInv' /\ ConnHeld
  <2>1. UNCHANGED <<listen, conn, safeClosed, srvHandler, cliClose, listener>>
    BY <1>13 DEF ServerSendsTo, PrepareChanAndCounter, connVars, listenVars, cfgVars, clientVars
  <2> QED
    BY <1>0, <2>1 DEF HostInv
<1>14. ASSUME NEW k \in Conns, ServerClosesTransceiver(k) PROVE HostInv' /\ ConnHeld
  <2>1. /\ safeClosed'[0] = safeClosed[0] /\ listen' = listen /\ conn' = conn
        /\ UNCHANGED <<srvHandler, cliClose, listener>>
    BY <1>14 DEF ServerClosesTransceiver, Close, connVars, listenVars, clientVars, serverVars, TypeOK
  <2> QED
    BY <2>1 DEF HostInv, ConnHeld
<1>15. ASSUME NEW k \in Conns, ServerClosesConn(k) PROVE HostInv' /\ ConnHeld
  <2>1. /\ conn'[0] = conn[0] /\ UNCHANGED <<listen, safeClosed>>
        /\ UNCHANGED <<srvHandler, cliClose, listener>>
    BY <1>15 DEF ServerClosesConn, CloseConn, CloseConnFails, vars, connVars, listenVars, cfgVars,
                 clientVars, TypeOK
  <2> QED
    BY <2>1 DEF HostInv, ConnHeld
<1> QED
  BY <1>1, <1>2, <1>3, <1>4, <1>5, <1>6, <1>7, <1>8, <1>9, <1>10, <1>11, <1>12, <1>13,
     <1>14, <1>15 DEF HostNext, Client, Server

(* The host starts as the transceivers do.                                 *)
LEMMA HostInvInit == HostInit => Init /\ HostInv
BY CallFacts, InitialHandlerAssumption DEF HostInit, Init, HostInv, Listening
-----------------------------------------------------------------------------
(* The host's invariant and that of the transceivers hold together.        *)
LEMMA HostInvariance == HostSpec => [](IInv /\ HostInv)
<1>1. HostInit => IInv /\ HostInv
  BY HostInvInit, IInvInit
<1>2. (IInv /\ HostInv) /\ [HostNext]_hostVars => (IInv /\ HostInv)'
  BY HostStep, HostInvStep, IInvStep DEF IInv
<1> QED
  BY <1>1, <1>2, PTL DEF HostSpec

(* The goroutines of the client and of the server are an environment that  *)
(* WsTransceiver allows, which its actions make plain; with it what is     *)
(* proved of the transceivers carries over to the host.                    *)
LEMMA HostImplements == HostSpec => Spec
<1>1. HostInit => Init
  BY HostInvInit
<1>2. HostInv /\ [HostNext]_hostVars => [Next]_vars
  BY HostStep
<1> QED
  BY <1>1, <1>2, HostInvariance, PTL DEF HostSpec, Spec
-----------------------------------------------------------------------------
(***************************************************************************)
(* The server's calls.  A transceiver of the server has one connection for *)
(* its whole life, and its payloads travel on that connection only.        *)
(***************************************************************************)
OwnConn ==
    \A k \in Conns : conn[k] \in {0, k} /\ (listen[k] = "read" => rd[k] = k)

PayloadToClient(k, i) == wire["cli"][k][i].type = "payload"
CallToClient(k, i) == wire["cli"][k][i].call

(* A payload on its way to the client was written by a call on that        *)
(* connection and has not been handled; it is there once.                  *)
ToClientInv ==
    /\ \A k \in Conns : \A i \in DOMAIN wire["cli"][k] : PayloadToClient(k, i) =>
         /\ CallToClient(k, i) \in ServerCalls
         /\ CallToClient(k, i)[2] = k
         /\ pc[CallToClient(k, i)] \notin {"idle", "prepared"}
         /\ wire["cli"][k][i].counter = cnt[CallToClient(k, i)]
         /\ handled[CallToClient(k, i)] = "no"
    /\ \A k \in Conns : \A i, j \in DOMAIN wire["cli"][k] :
         PayloadToClient(k, i) /\ PayloadToClient(k, j) /\ CallToClient(k, i) = CallToClient(k, j)
           => i = j
    /\ \A c \in ServerCalls : pc[c] \in {"idle", "prepared"} => handled[c] = "no"

(* An acknowledge the client writes on connection k, or has written there. *)
EarnedOn(m, k) == /\ m.call \in ServerCalls
                  /\ m.call[2] = k
                  /\ Started(m.call)
                  /\ m.counter = cnt[m.call]
                  /\ handled[m.call] \in Acknowledgeable

(* Until the client is closed it answers on the connection it has read     *)
(* from, and every acknowledge on the way to the server is earned there.   *)
ToServerInv ==
    /\ \A c \in ServerCalls : pc[c] = "acked" => c \in chClosed
    /\ ~safeClosed[0] =>
         /\ \A k \in Conns : \A i \in DOMAIN wire["srv"][k] :
              wire["srv"][k][i].type = "ack" => EarnedOn(wire["srv"][k][i], k)
         /\ listen[0] = "read" => rd[0] = conn[0]
         /\ listen[0] = "ack" => conn[0] # 0 /\ EarnedOn(msg[0], conn[0])
         /\ \A c \in ServerCalls : c \in chClosed => handled[c] \in Acknowledgeable

ServerInv == OwnConn /\ ToClientInv /\ ToServerInv
-----------------------------------------------------------------------------
(* OwnConn is preserved.                                                   *)
LEMMA OwnConnStep == IInv /\ OwnConn /\ [Next]_vars => OwnConn'
<1> SUFFICES ASSUME IInv, OwnConn, [Next]_vars PROVE OwnConn'
  OBVIOUS
<1> USE CallFacts DEF IInv
<1>1. ASSUME conn' = conn, listen' = listen, rd' = rd PROVE OwnConn'
  BY <1>1 DEF OwnConn
<1>2. ASSUME NEW k \in Conns, NEW h \in {"nil", "app"}, OpenConnection(k, h) PROVE OwnConn'
  BY <1>2 DEF OpenConnection, OwnConn, listenVars, TypeOK
<1>3. ASSUME NEW t \in Transceivers, CloseConn(t) \/ CloseConnFails(t) PROVE OwnConn'
  BY <1>3 DEF CloseConn, CloseConnFails, OwnConn, listenVars, TypeOK
<1>4. ASSUME NEW t \in Transceivers, GetConn(t) PROVE OwnConn'
  BY <1>4 DEF GetConn, OwnConn, Open, connVars, TypeOK
<1>5. ASSUME NEW t \in Transceivers, EnterListen(t) \/ (ListenStep(t) /\ ~GetConn(t))
      PROVE  OwnConn'
  <2>1. conn' = conn
    BY <1>5 DEF EnterListen, ListenStep, ListenReturns, HandleAckMessage, ProcessPayload, Receive,
                SendAck, SendAckFails, Transmit, WriteFails, connVars
  <2>2. listen'[t] # "read"
    BY <1>5 DEF EnterListen, ListenStep, ListenReturns, HandleAckMessage, ProcessPayload, Receive,
                SendAck, SendAckFails, TypeOK
  <2>3. \A u \in Transceivers : u # t => listen'[u] = listen[u] /\ rd'[u] = rd[u]
    BY <1>5 DEF EnterListen, ListenStep, ListenReturns, HandleAckMessage, ProcessPayload, Receive,
                SendAck, SendAckFails, TypeOK
  <2> QED
    BY <2>1, <2>2, <2>3 DEF OwnConn
<1>6. ASSUME NEW c \in Calls, PrepareChanAndCounter(c) \/ SendStep(c)
      PROVE  conn' = conn /\ listen' = listen /\ rd' = rd
  BY <1>6 DEF PrepareChanAndCounter, SendStep, SendFails, SendPayload, AckArrived, AckTimeout,
              ClosedWhileWaiting, WaitOver, Transmit, WriteFails, connVars, listenVars
<1>7. ASSUME NEW k \in Conns, Break(k) PROVE conn' = conn /\ listen' = listen /\ rd' = rd
  BY <1>7 DEF Break, listenVars
<1>8. ASSUME NEW t \in Transceivers, SetPayloadHandler(t) \/ Close(t)
      PROVE  conn' = conn /\ listen' = listen /\ rd' = rd
  BY <1>8 DEF SetPayloadHandler, Close, connVars, listenVars
<1>9. CASE UNCHANGED vars
  BY <1>1, <1>9 DEF vars, connVars, listenVars
<1> QED
  BY <1>1, <1>2, <1>3, <1>4, <1>5, <1>6, <1>7, <1>8, <1>9 DEF Next
-----------------------------------------------------------------------------
(* No payload for the client is new or has moved.                          *)
NoNewPayload ==
    \A k \in Conns : \A i \in DOMAIN wire'["cli"][k] : wire'["cli"][k][i].type = "payload" =>
      i \in DOMAIN wire["cli"][k] /\ wire'["cli"][k][i] = wire["cli"][k][i]
ServerHandledSame == \A c \in ServerCalls : handled'[c] = handled[c]

(* A step that adds no payload for the client and handles none.            *)
LEMMA ToClientKept ==
    ASSUME IInv, ToClientInv, CallsGoOn, NoNewPayload, ServerHandledSame
    PROVE  ToClientInv'
<1> USE CallFacts
<1>1. ASSUME NEW k \in Conns, NEW i \in DOMAIN wire'["cli"][k], PayloadToClient(k, i)'
      PROVE  /\ i \in DOMAIN wire["cli"][k] /\ PayloadToClient(k, i)
             /\ CallToClient(k, i)' = CallToClient(k, i)
             /\ wire'["cli"][k][i] = wire["cli"][k][i]
  BY <1>1 DEF NoNewPayload, PayloadToClient, CallToClient
<1>2. ASSUME NEW k \in Conns, NEW i \in DOMAIN wire'["cli"][k], PayloadToClient(k, i)'
      PROVE  /\ CallToClient(k, i)' \in ServerCalls
             /\ CallToClient(k, i)'[2] = k
             /\ pc'[CallToClient(k, i)'] \notin {"idle", "prepared"}
             /\ wire'["cli"][k][i].counter = cnt'[CallToClient(k, i)']
             /\ handled'[CallToClient(k, i)'] = "no"
  <2> DEFINE d == CallToClient(k, i)
  <2>1. /\ d \in ServerCalls /\ d[2] = k /\ pc[d] \notin {"idle", "prepared"}
        /\ wire["cli"][k][i].counter = cnt[d] /\ handled[d] = "no"
    BY <1>1, <1>2 DEF ToClientInv
  <2>2. d \in Calls /\ handled'[d] = "no"
    BY <2>1 DEF ServerHandledSame
  <2>3. pc'[d] \notin {"idle", "prepared"} /\ cnt'[d] = cnt[d]
    BY <2>1, <2>2 DEF CallsGoOn, Started
  <2> QED
    BY <1>1, <1>2, <2>1, <2>2, <2>3
<1>3. ASSUME NEW k \in Conns, NEW i \in DOMAIN wire'["cli"][k], NEW j \in DOMAIN wire'["cli"][k],
             PayloadToClient(k, i)', PayloadToClient(k, j)',
             CallToClient(k, i)' = CallToClient(k, j)'
      PROVE  i = j
  <2>1. /\ i \in DOMAIN wire["cli"][k] /\ PayloadToClient(k, i)
        /\ j \in DOMAIN wire["cli"][k] /\ PayloadToClient(k, j)
        /\ CallToClient(k, i) = CallToClient(k, j)
    BY <1>1, <1>3
  <2> QED
    BY <2>1 DEF ToClientInv
<1>4. \A c \in ServerCalls : pc'[c] \in {"idle", "prepared"} => handled'[c] = "no"
  BY DEF ToClientInv, CallsGoOn, ServerHandledSame
<1> QED
  BY <1>2, <1>3, <1>4 DEF ToClientInv

(* The payload a call of the server writes is the only one of that call.   *)
LEMMA ToClientSend ==
    ASSUME IInv, OwnConn, ToClientInv, NEW c \in ServerCalls, SendPayload(c)
    PROVE  ToClientInv'
<1> USE CallFacts DEF IInv
<1> DEFINE m == PayloadMessage(c, cnt[c])
           t == c[2]
           C == wire["cli"]
<1>1. m \in Messages /\ m.type = "payload" /\ m.call = c /\ m.counter = cnt[c]
  BY MessageFacts DEF TypeOK, PayloadMessage
<1>2. /\ pc[c] = "prepared" /\ cnt' = cnt /\ handled' = handled
      /\ \A d \in Calls : d # c => pc'[d] = pc[d]
      /\ pc'[c] \in {"waiting", "sent"}
  BY DEF SendPayload, listenVars, TypeOK
<1>3. conn[t] = t /\ t \in Conns
  BY DEF OwnConn, SendPayload, Transmit, Open
<1>4. \A k \in Conns : \A i \in DOMAIN wire'["cli"][k] :
        \/ i \in DOMAIN C[k] /\ wire'["cli"][k][i] = C[k][i]
        \/ k = t /\ i = Len(C[k]) + 1 /\ wire'["cli"][k][i] = m
  <2>1. \A s \in Sides, k \in Conns : \A i \in DOMAIN wire'[s][k] :
          \/ i \in DOMAIN wire[s][k] /\ wire'[s][k][i] = wire[s][k][i]
          \/ /\ s = Other(SideOf(t)) /\ k = conn[t] /\ i = Len(wire[s][k]) + 1
             /\ wire'[s][k][i] = m
    <3>1. TypeOK /\ t \in Transceivers /\ Transmit(t, m)
      BY <1>3 DEF SendPayload
    <3> QED
      BY ONLY <1>1, <3>1, TransmitElements
  <2> QED
    BY <1>3, <2>1 DEF Sides
<1>5. handled[c] = "no"
  BY <1>2 DEF ToClientInv
<1>6. ASSUME NEW k \in Conns, NEW i \in DOMAIN wire'["cli"][k], PayloadToClient(k, i)'
      PROVE  \/ /\ i \in DOMAIN C[k] /\ PayloadToClient(k, i)
                /\ CallToClient(k, i)' = CallToClient(k, i)
                /\ wire'["cli"][k][i] = C[k][i] /\ CallToClient(k, i) # c
             \/ /\ k = t /\ i = Len(C[k]) + 1
                /\ CallToClient(k, i)' = c /\ wire'["cli"][k][i] = m
  BY <1>1, <1>2, <1>4, <1>6 DEF PayloadToClient, CallToClient, ToClientInv
<1>7. ASSUME NEW k \in Conns, NEW i \in DOMAIN wire'["cli"][k], PayloadToClient(k, i)'
      PROVE  /\ CallToClient(k, i)' \in ServerCalls
             /\ CallToClient(k, i)'[2] = k
             /\ pc'[CallToClient(k, i)'] \notin {"idle", "prepared"}
             /\ wire'["cli"][k][i].counter = cnt'[CallToClient(k, i)']
             /\ handled'[CallToClient(k, i)'] = "no"
  <2>1. CASE CallToClient(k, i)' = c
    <3>1. k = t /\ wire'["cli"][k][i] = m
      BY <1>6, <1>7, <2>1
    <3> QED
      BY <1>1, <1>2, <1>5, <2>1, <3>1
  <2>2. CASE CallToClient(k, i)' # c
    <3> DEFINE d == CallToClient(k, i)
    <3>1. i \in DOMAIN C[k] /\ PayloadToClient(k, i) /\ CallToClient(k, i)' = d
          /\ wire'["cli"][k][i] = C[k][i]
      BY <1>6, <1>7, <2>2
    <3>2. /\ d \in ServerCalls /\ d[2] = k /\ pc[d] \notin {"idle", "prepared"}
          /\ C[k][i].counter = cnt[d] /\ handled[d] = "no"
      BY <3>1 DEF ToClientInv
    <3> QED
      BY <1>2, <2>2, <3>1, <3>2
  <2> QED
    BY <2>1, <2>2
<1>8. ASSUME NEW k \in Conns, NEW i \in DOMAIN wire'["cli"][k], NEW j \in DOMAIN wire'["cli"][k],
             PayloadToClient(k, i)', PayloadToClient(k, j)',
             CallToClient(k, i)' = CallToClient(k, j)'
      PROVE  i = j
  <2>1. CASE CallToClient(k, i)' = c
    BY <1>6, <1>8, <2>1
  <2>2. CASE CallToClient(k, i)' # c
    <3>1. /\ i \in DOMAIN C[k] /\ PayloadToClient(k, i)
          /\ j \in DOMAIN C[k] /\ PayloadToClient(k, j)
          /\ CallToClient(k, i) = CallToClient(k, j)
      BY <1>6, <1>8, <2>2
    <3> QED
      BY <3>1 DEF ToClientInv
  <2> QED
    BY <2>1, <2>2
<1>9. \A d \in ServerCalls : pc'[d] \in {"idle", "prepared"} => handled'[d] = "no"
  BY <1>2 DEF ToClientInv
<1> QED
  BY <1>7, <1>8, <1>9 DEF ToClientInv

(* The client reads a message: those behind it move up; when it is a       *)
(* payload, the handled call has no other payload on its way.              *)
LEMMA ToClientReceive ==
    ASSUME IInv, ToClientInv, Receive(0),
           \/ handled' = handled
           \/ /\ Head(Inbox(0)).type = "payload"
              /\ \E o \in {"ok", "error"} :
                   handled' = [handled EXCEPT ![Head(Inbox(0)).call] = o]
    PROVE  ToClientInv'
<1> USE CallFacts DEF IInv
<1> DEFINE m == Head(Inbox(0))
           r == rd[0]
           C == wire["cli"]
           from(k, i) == IF k = r THEN i + 1 ELSE i
<1>1. m \in Messages /\ m.call \in Calls /\ r \in Conns
  BY ReceiveType DEF Messages
<1>2. pc' = pc /\ cnt' = cnt
  BY DEF Receive
<1>3. SideOf(0) = "cli" /\ "cli" \in Sides
  BY DEF SideOf, Sides
<1>4. ASSUME NEW k \in Conns, NEW i \in DOMAIN wire'["cli"][k]
      PROVE  /\ i \in Nat \ {0} /\ from(k, i) \in DOMAIN C[k]
             /\ wire'["cli"][k][i] = C[k][from(k, i)]
             /\ k = r => from(k, i) # 1
  <2>1. CASE k = r
    BY <1>3, <2>1, ReceiveElements
  <2>2. CASE k # r
    <3>1. wire'["cli"][k] = C[k]
      BY <1>3, <2>2, ReceiveElements
    <3>2. C[k] \in Seq(Messages)
      BY <1>3 DEF TypeOK
    <3> QED
      BY <2>2, <3>1, <3>2
  <2> QED
    BY <2>1, <2>2
<1>5. ASSUME NEW k \in Conns, NEW i \in DOMAIN wire'["cli"][k], PayloadToClient(k, i)'
      PROVE  /\ PayloadToClient(k, from(k, i))
             /\ CallToClient(k, i)' = CallToClient(k, from(k, i))
  BY <1>4, <1>5 DEF PayloadToClient, CallToClient
<1>6. 1 \in DOMAIN C[r] /\ m = C[r][1]
  BY <1>3, ReceiveElements
<1>7. m.type = "payload" => PayloadToClient(r, 1) /\ CallToClient(r, 1) = m.call
  BY <1>6 DEF PayloadToClient, CallToClient
<1>8. \A d \in ServerCalls : (m.type = "payload" => m.call # d) => handled'[d] = handled[d]
  BY <1>1 DEF TypeOK
<1>9. ASSUME NEW k \in Conns, NEW i \in DOMAIN wire'["cli"][k], PayloadToClient(k, i)'
      PROVE  /\ CallToClient(k, i)' \in ServerCalls
             /\ CallToClient(k, i)'[2] = k
             /\ pc'[CallToClient(k, i)'] \notin {"idle", "prepared"}
             /\ wire'["cli"][k][i].counter = cnt'[CallToClient(k, i)']
             /\ handled'[CallToClient(k, i)'] = "no"
  <2> DEFINE j == from(k, i)
             d == CallToClient(k, j)
  <2>1. /\ j \in DOMAIN C[k] /\ PayloadToClient(k, j) /\ CallToClient(k, i)' = d
        /\ wire'["cli"][k][i] = C[k][j] /\ (k = r => j # 1)
    BY <1>4, <1>5, <1>9
  <2>2. /\ d \in ServerCalls /\ d[2] = k /\ pc[d] \notin {"idle", "prepared"}
        /\ C[k][j].counter = cnt[d] /\ handled[d] = "no"
    BY <2>1 DEF ToClientInv
  <2>3. m.type = "payload" => m.call # d
    <3> SUFFICES ASSUME m.type = "payload", m.call = d PROVE FALSE
      OBVIOUS
    <3>1. PayloadToClient(r, 1) /\ CallToClient(r, 1) = d
      BY <1>7
    <3>2. d[2] = r
      BY <1>1, <1>6, <3>1 DEF ToClientInv
    <3>3. k = r /\ j # 1
      BY <2>1, <2>2, <3>2
    <3> QED
      BY <1>1, <1>6, <2>1, <3>1, <3>3 DEF ToClientInv
  <2>4. handled'[d] = "no"
    BY <1>8, <2>2, <2>3
  <2> QED
    BY <1>2, <2>1, <2>2, <2>4
<1>10. ASSUME NEW k \in Conns, NEW i \in DOMAIN wire'["cli"][k], NEW j \in DOMAIN wire'["cli"][k],
              PayloadToClient(k, i)', PayloadToClient(k, j)',
              CallToClient(k, i)' = CallToClient(k, j)'
       PROVE  i = j
  <2>1. /\ from(k, i) \in DOMAIN C[k] /\ PayloadToClient(k, from(k, i))
        /\ from(k, j) \in DOMAIN C[k] /\ PayloadToClient(k, from(k, j))
        /\ CallToClient(k, from(k, i)) = CallToClient(k, from(k, j))
    BY <1>4, <1>5, <1>10
  <2>2. from(k, i) = from(k, j)
    BY <2>1 DEF ToClientInv
  <2> QED
    BY <1>4, <2>2
<1>11. ASSUME NEW d \in ServerCalls, pc'[d] \in {"idle", "prepared"} PROVE handled'[d] = "no"
  <2>1. handled[d] = "no" /\ pc[d] \in {"idle", "prepared"}
    BY <1>2, <1>11 DEF ToClientInv
  <2>2. m.type = "payload" => m.call # d
    <3>1. PayloadToClient(r, 1) => pc[CallToClient(r, 1)] \notin {"idle", "prepared"}
      BY <1>1, <1>6 DEF ToClientInv
    <3> QED
      BY <1>7, <2>1, <3>1
  <2> QED
    BY <1>8, <2>1, <2>2
<1> QED
  BY <1>9, <1>10, <1>11 DEF ToClientInv

(* A payload of the server is handled at most once.                        *)
ServerHandledKept == \A c \in ServerCalls : handled[c] # "no" => handled'[c] = handled[c]

(* What a step other than the client's reading does to handled payloads.   *)
LEMMA ServerHandled ==
    ASSUME IInv, [Next]_vars, ~ProcessPayload(0)
    PROVE  ServerHandledSame
<1> USE CallFacts DEF IInv
<1>1. ASSUME NEW t \in Conns, ProcessPayload(t) PROVE ServerHandledSame
  <2> DEFINE m == Head(Inbox(t))
  <2>1. Receive(t) /\ m.type = "payload"
    BY <1>1 DEF ProcessPayload
  <2>2. PICK o : handled' = [handled EXCEPT ![m.call] = o]
    BY <1>1 DEF ProcessPayload
  <2>3. rd[t] \in Conns /\ 1 \in DOMAIN wire["srv"][rd[t]] /\ m = wire["srv"][rd[t]][1]
    BY <2>1, ReceiveElements, ReceiveType DEF SideOf
  <2>4. m.call \in ClientCalls
    <3>1. IsPayload(rd[t], 1) /\ CallAt(rd[t], 1) = m.call
      BY <2>1, <2>3 DEF IsPayload, CallAt
    <3> QED
      BY <2>3, <3>1 DEF PayloadInv
  <2>5. m.call \notin ServerCalls
    BY <2>4
  <2> QED
    BY <2>2, <2>5 DEF ServerHandledSame, TypeOK
<1>2. ASSUME handled' = handled PROVE ServerHandledSame
  BY <1>2 DEF ServerHandledSame
<1>3. CASE UNCHANGED vars
  BY <1>2, <1>3 DEF vars, listenVars
<1>4. CASE Next /\ \A t \in Transceivers : ~ProcessPayload(t)
  <2>1. handled' = handled
    BY <1>4 DEF Next, SendStep, ListenStep, Break, OpenConnection, PrepareChanAndCounter,
                SendFails, SendPayload, AckArrived, AckTimeout, ClosedWhileWaiting, WaitOver,
                EnterListen, GetConn, ListenReturns, HandleAckMessage, SendAck, SendAckFails,
                CloseConn, CloseConnFails, SetPayloadHandler, Close, listenVars
  <2> QED
    BY <1>2, <2>1
<1> QED
  BY <1>1, <1>3, <1>4

(* A handled payload is never handled again.                               *)
LEMMA ServerHandledOnce == IInv /\ ToClientInv /\ [Next]_vars => ServerHandledKept
<1> SUFFICES ASSUME IInv, ToClientInv, [Next]_vars PROVE ServerHandledKept
  OBVIOUS
<1> USE CallFacts DEF IInv
<1>1. CASE ProcessPayload(0)
  <2> DEFINE m == Head(Inbox(0))
  <2>1. Receive(0) /\ m.type = "payload"
    BY <1>1 DEF ProcessPayload
  <2>2. PICK o : handled' = [handled EXCEPT ![m.call] = o]
    BY <1>1 DEF ProcessPayload
  <2>3. rd[0] \in Conns /\ 1 \in DOMAIN wire["cli"][rd[0]] /\ m = wire["cli"][rd[0]][1]
    BY <2>1, ReceiveElements, ReceiveType DEF SideOf
  <2>4. PayloadToClient(rd[0], 1) /\ CallToClient(rd[0], 1) = m.call
    BY <2>1, <2>3 DEF PayloadToClient, CallToClient
  <2>5. handled[m.call] = "no"
    <3>1. \A k \in Conns : \A i \in DOMAIN wire["cli"][k] :
            PayloadToClient(k, i) => handled[CallToClient(k, i)] = "no"
      BY ONLY ToClientInv DEF ToClientInv
    <3>2. rd[0] \in Conns /\ 1 \in DOMAIN wire["cli"][rd[0]]
      BY <2>3
    <3>3. handled[CallToClient(rd[0], 1)] = "no"
      BY ONLY <2>4, <3>1, <3>2
    <3> QED
      BY <2>4, <3>3
  <2> QED
    BY <2>2, <2>5 DEF ServerHandledKept, TypeOK
<1>2. CASE ~ProcessPayload(0)
  BY <1>2, ServerHandled DEF ServerHandledSame, ServerHandledKept
<1> QED
  BY <1>1, <1>2

(* ToClientInv is preserved.                                               *)
LEMMA ToClientStep == IInv /\ OwnConn /\ ToClientInv /\ [Next]_vars => ToClientInv'
<1> SUFFICES ASSUME IInv, OwnConn, ToClientInv, [Next]_vars PROVE ToClientInv'
  OBVIOUS
<1> USE CallFacts DEF IInv
<1>0. CallsGoOn
  BY GoOn
<1>1. ASSUME NoNewPayload, ~ProcessPayload(0) PROVE ToClientInv'
  BY <1>0, <1>1, ServerHandled, ToClientKept
<1>2. CASE ProcessPayload(0)
  <2>1. /\ Receive(0) /\ Head(Inbox(0)).type = "payload"
        /\ \E o \in {"ok", "error"} : handled' = [handled EXCEPT ![Head(Inbox(0)).call] = o]
    BY <1>2 DEF ProcessPayload, HandlerOutcomes
  <2> QED
    BY <2>1, ToClientReceive
<1>3. CASE HandleAckMessage(0)
  BY <1>3, ToClientReceive DEF HandleAckMessage
<1>4. ASSUME NEW c \in ServerCalls, SendPayload(c) PROVE ToClientInv'
  BY <1>4, ToClientSend
<1>5. ASSUME wire' = wire PROVE NoNewPayload
  BY <1>5 DEF NoNewPayload
<1>6. ASSUME NEW t \in Transceivers, ListenReturns(t) PROVE NoNewPayload
  BY <1>6, ListenReturnsElements DEF NoNewPayload, Sides
<1>7. ASSUME NEW t \in Conns, Receive(t) PROVE NoNewPayload
  <2>1. \A k \in Conns : wire'["cli"][k] = wire["cli"][k]
    BY <1>7, ReceiveElements DEF SideOf, Sides
  <2> QED
    BY <2>1 DEF NoNewPayload
<1>8. ASSUME NEW t \in Transceivers, SendAck(t) PROVE NoNewPayload
  <2> DEFINE m == AckMessage(msg[t])
  <2>1. m \in Messages /\ m.type = "ack" /\ Transmit(t, m)
    BY <1>8, MessageFacts DEF SendAck, TypeOK, AckMessage
  <2>2. \A s \in Sides, k \in Conns : \A i \in DOMAIN wire'[s][k] :
          \/ i \in DOMAIN wire[s][k] /\ wire'[s][k][i] = wire[s][k][i]
          \/ wire'[s][k][i] = m
    BY <2>1, TransmitElements
  <2> QED
    BY <2>1, <2>2 DEF NoNewPayload, Sides
<1>9. ASSUME NEW c \in ClientCalls, SendPayload(c) PROVE NoNewPayload
  <2> DEFINE m == PayloadMessage(c, cnt[c])
  <2>1. m \in Messages /\ Transmit(0, m) /\ Other(SideOf(0)) = "srv"
    BY <1>9, MessageFacts DEF SendPayload, TypeOK, Other, SideOf
  <2>2. \A s \in Sides, k \in Conns : \A i \in DOMAIN wire'[s][k] :
          \/ i \in DOMAIN wire[s][k] /\ wire'[s][k][i] = wire[s][k][i]
          \/ s = "srv"
    BY <2>1, TransmitElements
  <2> QED
    BY <2>2 DEF NoNewPayload, Sides
<1>10. ASSUME NEW k \in Conns, Break(k) \/ \E h \in {"nil", "app"} : OpenConnection(k, h)
       PROVE  wire' = wire
  BY <1>10 DEF Break, OpenConnection
<1>11. ASSUME NEW c \in Calls, PrepareChanAndCounter(c) \/ (SendStep(c) /\ ~SendPayload(c))
       PROVE  wire' = wire
  BY <1>11 DEF PrepareChanAndCounter, SendStep, SendFails, WriteFails, AckArrived, AckTimeout,
               ClosedWhileWaiting, WaitOver, connVars
<1>12. ASSUME NEW t \in Transceivers,
             \/ EnterListen(t) \/ GetConn(t) \/ SendAckFails(t)
             \/ CloseConn(t) \/ CloseConnFails(t) \/ SetPayloadHandler(t) \/ Close(t)
       PROVE  wire' = wire
  BY <1>12 DEF EnterListen, GetConn, SendAckFails, WriteFails, CloseConn, CloseConnFails,
               SetPayloadHandler, Close, connVars
<1>13. CASE UNCHANGED vars
  <2>1. wire' = wire /\ ServerHandledSame
    BY <1>13 DEF vars, connVars, listenVars, ServerHandledSame
  <2> QED
    BY <1>0, <1>5, <2>1, ToClientKept
<1>14. CASE Next /\ ~ProcessPayload(0) /\ ~HandleAckMessage(0)
            /\ \A c \in ServerCalls : ~SendPayload(c)
  <2>1. ASSUME NEW c \in Calls, SendStep(c) PROVE NoNewPayload
    <3>1. CASE SendPayload(c)
      <4>1. c \in ClientCalls
        BY <1>14, <3>1 DEF Calls
      <4> QED
        BY <1>9, <3>1, <4>1
    <3>2. CASE ~SendPayload(c)
      BY <1>5, <1>11, <2>1, <3>2
    <3> QED
      BY <3>1, <3>2
  <2>2. ASSUME NEW t \in Transceivers, ListenStep(t) PROVE NoNewPayload
    <3>1. CASE ProcessPayload(t) \/ HandleAckMessage(t)
      <4>1. t \in Conns /\ Receive(t)
        BY <1>14, <3>1 DEF ProcessPayload, HandleAckMessage
      <4> QED
        BY <1>7, <4>1
    <3>2. CASE ~(ProcessPayload(t) \/ HandleAckMessage(t))
      BY <1>5, <1>6, <1>8, <1>12, <2>2, <3>2 DEF ListenStep
    <3> QED
      BY <3>1, <3>2
  <2>3. NoNewPayload
    BY <1>5, <1>10, <1>11, <1>12, <1>14, <2>1, <2>2 DEF Next
  <2> QED
    BY <1>1, <1>14, <2>3
<1> QED
  BY <1>2, <1>3, <1>4, <1>13, <1>14
-----------------------------------------------------------------------------
(* What ToServerInv needs of a step: whatever is new in it is earned.      *)
NewAcksEarned ==
    \A k \in Conns : \A i \in DOMAIN wire'["srv"][k] : wire'["srv"][k][i].type = "ack" =>
      \/ \E j \in DOMAIN wire["srv"][k] : wire'["srv"][k][i] = wire["srv"][k][j]
      \/ EarnedOn(wire["srv"][k][i], k)'
ReadsOwnConn ==
    listen'[0] = "read" => (listen[0] = "read" /\ rd'[0] = rd[0]) \/ rd'[0] = conn'[0]
AnswersOwnConn ==
    listen'[0] = "ack" => \/ listen[0] = "ack" /\ msg'[0] = msg[0]
                          \/ conn'[0] # 0 /\ EarnedOn(msg[0], conn[0])'
ClosesEarned ==
    \A c \in ServerCalls : c \in chClosed' => c \in chClosed \/ handled[c] \in Acknowledgeable
CallsConfirmed ==
    /\ \A c \in ServerCalls : pc'[c] = "acked" => pc[c] = "acked" \/ c \in chClosed
    /\ chClosed \subseteq chClosed'
    /\ safeClosed[0] => safeClosed'[0]

(* Listen of the client keeps its connection from reading to answering.    *)
LEMMA ConnStays ==
    ASSUME TypeOK, ToServerInv, ConnHeld, ~safeClosed[0], ~safeClosed'[0],
           listen[0] \in {"read", "ack"}
    PROVE  conn'[0] = conn[0] /\ conn[0] \in Conns
<1>1. conn[0] \in Conns
  <2>1. CASE listen[0] = "read"
    BY <2>1, CallFacts DEF ToServerInv, TypeOK
  <2>2. CASE listen[0] = "ack"
    <3>1. conn[0] # 0 /\ conn[0] \in Transceivers
      BY <2>2, CallFacts DEF ToServerInv, TypeOK
    <3> QED
      BY <3>1, CallFacts
  <2> QED
    BY <2>1, <2>2
<1>2. Open(0) /\ listen[0] \in Listening
  BY <1>1, CallFacts DEF Open, Listening
<1> QED
  BY <1>1, <1>2 DEF ConnHeld

(* An acknowledge once earned stays earned.                                *)
LEMMA StaysEarned ==
    ASSUME CallsGoOn, ServerHandledKept
    PROVE  \A m, k : EarnedOn(m, k) => /\ m.call \in ServerCalls
                                      /\ m.call[2] = k
                                      /\ pc'[m.call] # "idle"
                                      /\ m.counter = cnt'[m.call]
                                      /\ handled'[m.call] \in Acknowledgeable
<1>1. "no" \notin Acknowledgeable
  BY DEF Acknowledgeable
<1> QED
  BY <1>1, CallFacts DEF EarnedOn, CallsGoOn, ServerHandledKept, Started

(* A step whose new acknowledges are earned preserves ToServerInv.         *)
LEMMA ToServerKept ==
    ASSUME IInv, ToServerInv, CallsGoOn, ServerHandledKept, ConnHeld, CallsConfirmed,
           ~safeClosed'[0] => NewAcksEarned /\ ReadsOwnConn /\ AnswersOwnConn /\ ClosesEarned
    PROVE  ToServerInv'
<1> USE CallFacts DEF IInv
<1>0. "no" \notin Acknowledgeable
  BY DEF Acknowledgeable
<1>1. \A c \in ServerCalls : pc'[c] = "acked" => c \in chClosed'
  BY DEF CallsConfirmed, ToServerInv
<1>2. ASSUME ~safeClosed'[0]
      PROVE  /\ ~safeClosed[0]
             /\ \A k \in Conns : \A i \in DOMAIN wire["srv"][k] :
                  wire["srv"][k][i].type = "ack" => EarnedOn(wire["srv"][k][i], k)
             /\ listen[0] = "read" => rd[0] = conn[0]
             /\ listen[0] = "ack" => conn[0] # 0 /\ EarnedOn(msg[0], conn[0])
             /\ \A c \in ServerCalls : c \in chClosed => handled[c] \in Acknowledgeable
  BY <1>2 DEF CallsConfirmed, ToServerInv
<1>3. ASSUME ~safeClosed'[0], NEW k \in Conns, NEW i \in DOMAIN wire'["srv"][k],
             wire'["srv"][k][i].type = "ack"
      PROVE  EarnedOn(wire["srv"][k][i], k)'
  <2>1. CASE \E j \in DOMAIN wire["srv"][k] : wire'["srv"][k][i] = wire["srv"][k][j]
    <3>1. PICK j \in DOMAIN wire["srv"][k] : wire'["srv"][k][i] = wire["srv"][k][j]
      BY <2>1
    <3>2. EarnedOn(wire["srv"][k][j], k)
      BY <1>2, <1>3, <3>1
    <3> QED
      BY <3>1, <3>2, StaysEarned DEF EarnedOn, Started, Acknowledgeable
  <2> QED
    BY <1>3, <2>1 DEF NewAcksEarned
<1>4. ASSUME ~safeClosed'[0], listen'[0] = "read" PROVE rd'[0] = conn'[0]
  BY <1>2, <1>4, ConnStays DEF ReadsOwnConn
<1>5. ASSUME ~safeClosed'[0], listen'[0] = "ack" PROVE conn'[0] # 0 /\ EarnedOn(msg[0], conn[0])'
  <2>1. CASE listen[0] = "ack" /\ msg'[0] = msg[0]
    <3>1. conn'[0] = conn[0] /\ conn[0] # 0
      BY <1>2, <1>5, <2>1, ConnStays
    <3>2. EarnedOn(msg[0], conn[0])
      BY <1>2, <1>5, <2>1
    <3> QED
      BY <2>1, <3>1, <3>2, StaysEarned DEF EarnedOn, Started, Acknowledgeable
  <2> QED
    BY <1>5, <2>1 DEF AnswersOwnConn
<1>6. ASSUME ~safeClosed'[0], NEW c \in ServerCalls, c \in chClosed'
      PROVE  handled'[c] \in Acknowledgeable
  <2>1. handled[c] \in Acknowledgeable
    BY <1>2, <1>6 DEF ClosesEarned
  <2> QED
    BY <1>0, <2>1 DEF ServerHandledKept
<1> QED
  BY <1>1, <1>3, <1>4, <1>5, <1>6 DEF ToServerInv, Acknowledgeable

(* The three conjuncts of a step that touches neither the acknowledges nor *)
(* the client's Listen.                                                    *)
LEMMA NothingNew ==
    ASSUME InPlace("srv"), listen'[0] = "read" => listen[0] = "read" /\ rd'[0] = rd[0],
           listen'[0] = "ack" => listen[0] = "ack" /\ msg'[0] = msg[0], chClosed' = chClosed
    PROVE  NewAcksEarned /\ ReadsOwnConn /\ AnswersOwnConn /\ ClosesEarned
BY DEF InPlace, NewAcksEarned, ReadsOwnConn, AnswersOwnConn, ClosesEarned

(* Every step of the transceivers confirms only what it may.               *)
LEMMA ConfirmStep == IInv /\ [Next]_vars => CallsConfirmed
<1> SUFFICES ASSUME IInv, [Next]_vars PROVE CallsConfirmed
  OBVIOUS
<1> USE CallFacts DEF IInv
<1>1. ASSUME pc' = pc, chClosed \subseteq chClosed', safeClosed[0] => safeClosed'[0]
      PROVE  CallsConfirmed
  BY <1>1 DEF CallsConfirmed
<1>2. ASSUME NEW c \in Calls, PrepareChanAndCounter(c) \/ SendStep(c) PROVE CallsConfirmed
  <2>1. chClosed' = chClosed /\ safeClosed' = safeClosed
    BY <1>2 DEF PrepareChanAndCounter, SendStep, SendFails, SendPayload, AckArrived, AckTimeout,
                ClosedWhileWaiting, WaitOver, cfgVars
  <2>2. \A d \in Calls : pc'[d] = "acked" => pc[d] = "acked" \/ d \in chClosed
    BY <1>2 DEF PrepareChanAndCounter, SendStep, SendFails, SendPayload, AckArrived, AckTimeout,
                ClosedWhileWaiting, WaitOver, TypeOK
  <2> QED
    BY <2>1, <2>2 DEF CallsConfirmed
<1>3. ASSUME NEW k \in Conns, Break(k) \/ \E h \in {"nil", "app"} : OpenConnection(k, h)
      PROVE  CallsConfirmed
  BY <1>1, <1>3 DEF Break, OpenConnection, sendVars, cfgVars
<1>4. ASSUME NEW t \in Transceivers, ListenStep(t) \/ EnterListen(t) PROVE CallsConfirmed
  <2>1. pc' = pc /\ safeClosed' = safeClosed
    BY <1>4 DEF EnterListen, ListenStep, GetConn, ListenReturns, HandleAckMessage, ProcessPayload,
                Receive, SendAck, SendAckFails, sendVars, cfgVars
  <2>2. chClosed \subseteq chClosed'
    BY <1>4 DEF EnterListen, ListenStep, GetConn, ListenReturns, HandleAckMessage, ProcessPayload,
                Receive, SendAck, SendAckFails, sendVars
  <2> QED
    BY <1>1, <2>1, <2>2
<1>5. ASSUME NEW t \in Transceivers, CloseConn(t) \/ CloseConnFails(t) \/ SetPayloadHandler(t)
      PROVE  CallsConfirmed
  BY <1>1, <1>5 DEF CloseConn, CloseConnFails, SetPayloadHandler, sendVars, cfgVars
<1>6. ASSUME NEW t \in Transceivers, Close(t) PROVE CallsConfirmed
  BY <1>1, <1>6 DEF Close, sendVars, TypeOK
<1>7. CASE UNCHANGED vars
  BY <1>1, <1>7 DEF vars, sendVars, cfgVars
<1> QED
  BY <1>2, <1>3, <1>4, <1>5, <1>6, <1>7 DEF Next

(* The acknowledge the server reads closes the channel of the call it is   *)
(* for: a transceiver's counters are those of its own connection.          *)
LEMMA ClosesOwnCall ==
    ASSUME IInv, OwnConn, ToServerInv, ~safeClosed[0], NEW t \in Transceivers, HandleAckMessage(t)
    PROVE  ClosesEarned
<1> USE CallFacts DEF IInv
<1> DEFINE m == Head(Inbox(t))
<1>1. Receive(t) /\ m.type = "ack" /\ listen[t] = "read"
  BY DEF HandleAckMessage, Receive
<1>2. chClosed' = chClosed \cup {p[2] : p \in {q \in mapAck[t] : q[1] = m.counter}}
  BY DEF HandleAckMessage
<1>3. ASSUME NEW p \in mapAck[t], p[1] = m.counter, p[2] \in ServerCalls
      PROVE  handled[p[2]] \in Acknowledgeable
  <2>1. p[2][2] = t /\ Started(p[2]) /\ p[1] = cnt[p[2]]
    BY DEF MapInv
  <2>2. t \in Conns
    BY <1>3, <2>1
  <2>3. rd[t] = t
    BY <1>1, <2>2 DEF OwnConn
  <2>4. m = wire["srv"][t][1] /\ 1 \in DOMAIN wire["srv"][t]
    BY <1>1, <2>2, <2>3, ReceiveElements DEF SideOf
  <2>5. EarnedOn(m, t)
    BY <1>1, <2>2, <2>4 DEF ToServerInv
  <2>6. m.call = p[2]
    BY <1>3, <2>1, <2>5 DEF EarnedOn, CounterInv
  <2> QED
    BY <2>5, <2>6 DEF EarnedOn
<1> QED
  BY <1>2, <1>3 DEF ClosesEarned

(* The client answers a payload on the connection it came from.            *)
LEMMA AnswersPayload ==
    ASSUME IInv, ToClientInv, ToServerInv, ConnHeld, ~safeClosed[0], ~safeClosed'[0],
           ProcessPayload(0)
    PROVE  AnswersOwnConn
<1> USE CallFacts DEF IInv
<1> DEFINE m == Head(Inbox(0))
           k == rd[0]
<1>1. /\ Receive(0) /\ m.type = "payload" /\ pc' = pc /\ cnt' = cnt /\ listen[0] = "read"
  BY DEF ProcessPayload, Receive
<1>2. PICK o \in {"ok", "error"} :
        /\ handled' = [handled EXCEPT ![m.call] = o]
        /\ \/ /\ ~(o = "error" /\ BlockingAckOnError)
              /\ listen' = [listen EXCEPT ![0] = "ack"]
              /\ msg' = [msg EXCEPT ![0] = m]
           \/ listen' = [listen EXCEPT ![0] = "get"]
  BY DEF ProcessPayload, HandlerOutcomes
<1>3. conn'[0] = k /\ k \in Conns
  <2>1. rd[0] = conn[0]
    BY <1>1 DEF ToServerInv
  <2> QED
    BY <1>1, <2>1, ConnStays
<1>4. 1 \in DOMAIN wire["cli"][k] /\ m = wire["cli"][k][1]
  BY <1>1, ReceiveElements DEF SideOf
<1>5. PayloadToClient(k, 1) /\ CallToClient(k, 1) = m.call
  BY <1>1, <1>4 DEF PayloadToClient, CallToClient
<1>6. /\ m.call \in ServerCalls /\ m.call[2] = k /\ pc[m.call] # "idle"
      /\ m.counter = cnt[m.call]
  <2>1. \A l \in Conns : \A i \in DOMAIN wire["cli"][l] : PayloadToClient(l, i) =>
          /\ CallToClient(l, i) \in ServerCalls
          /\ CallToClient(l, i)[2] = l
          /\ pc[CallToClient(l, i)] \notin {"idle", "prepared"}
          /\ wire["cli"][l][i].counter = cnt[CallToClient(l, i)]
    BY ONLY ToClientInv DEF ToClientInv
  <2>2. /\ CallToClient(k, 1) \in ServerCalls
        /\ CallToClient(k, 1)[2] = k
        /\ pc[CallToClient(k, 1)] \notin {"idle", "prepared"}
        /\ wire["cli"][k][1].counter = cnt[CallToClient(k, 1)]
    BY ONLY <1>3, <1>4, <1>5, <2>1
  <2> QED
    BY <1>4, <1>5, <2>2
<1>7. ASSUME listen'[0] = "ack" PROVE conn'[0] # 0 /\ EarnedOn(msg[0], conn[0])'
  <2>1. msg'[0] = m /\ o \in Acknowledgeable
    BY <1>2, <1>7, BlockingAckAssumption DEF TypeOK, Acknowledgeable
  <2>2. handled'[m.call] = o
    BY <1>2, <1>6 DEF TypeOK
  <2> QED
    BY <1>1, <1>3, <1>6, <2>1, <2>2 DEF EarnedOn, Started, Acknowledgeable
<1> QED
  BY <1>7 DEF AnswersOwnConn

(* ToServerInv is preserved, as long as the client keeps its connection.   *)
LEMMA ToServerStep ==
    IInv /\ ServerInv /\ ConnHeld /\ [Next]_vars => ToServerInv'
<1> SUFFICES ASSUME IInv, ServerInv, ConnHeld, [Next]_vars PROVE ToServerInv'
  OBVIOUS
<1>0. CallsGoOn /\ ServerHandledKept /\ CallsConfirmed
  BY GoOn, ServerHandledOnce, ConfirmStep DEF ServerInv
<1> SUFFICES ASSUME ~safeClosed'[0]
             PROVE  NewAcksEarned /\ ReadsOwnConn /\ AnswersOwnConn /\ ClosesEarned
  BY <1>0, ToServerKept DEF ServerInv
<1> USE CallFacts DEF IInv, ServerInv
<1>1. ~safeClosed[0]
  BY <1>0 DEF CallsConfirmed
<1> DEFINE Goal == NewAcksEarned /\ ReadsOwnConn /\ AnswersOwnConn /\ ClosesEarned
<1>2. ASSUME wire' = wire, listen' = listen, rd' = rd, msg' = msg, chClosed' = chClosed PROVE Goal
  BY <1>2, NothingNew DEF InPlace
<1>3. ASSUME NEW k \in Conns, Break(k) \/ \E h \in {"nil", "app"} : OpenConnection(k, h)
      PROVE  Goal
  BY <1>2, <1>3 DEF Break, OpenConnection, sendVars, listenVars
<1>4. ASSUME NEW t \in Transceivers,
             CloseConn(t) \/ CloseConnFails(t) \/ SetPayloadHandler(t) \/ Close(t)
      PROVE  Goal
  BY <1>2, <1>4 DEF CloseConn, CloseConnFails, SetPayloadHandler, Close, connVars, sendVars,
                    listenVars
<1>5. ASSUME NEW t \in Transceivers, EnterListen(t) \/ SendAckFails(t) \/ ListenReturns(t)
      PROVE  Goal
  <2>1. InPlace("srv")
    <3>1. CASE ListenReturns(t)
      BY <3>1, ListenReturnsElements DEF InPlace, Sides
    <3>2. CASE EnterListen(t) \/ SendAckFails(t)
      BY <3>2 DEF EnterListen, SendAckFails, WriteFails, connVars, InPlace
    <3> QED
      BY <1>5, <3>1, <3>2
  <2>2. chClosed' = chClosed
    BY <1>5 DEF EnterListen, SendAckFails, ListenReturns, sendVars
  <2>3. listen'[0] = "read" => listen[0] = "read" /\ rd'[0] = rd[0]
    BY <1>5 DEF EnterListen, SendAckFails, ListenReturns, TypeOK
  <2>4. listen'[0] = "ack" => listen[0] = "ack" /\ msg'[0] = msg[0]
    BY <1>5 DEF EnterListen, SendAckFails, ListenReturns, TypeOK
  <2> QED
    BY <2>1, <2>2, <2>3, <2>4, NothingNew
<1>6. ASSUME NEW t \in Transceivers, GetConn(t) PROVE Goal
  <2>1. wire' = wire /\ conn' = conn /\ chClosed' = chClosed /\ msg' = msg
    BY <1>6 DEF GetConn, connVars, sendVars
  <2>2. listen'[0] = "read" => (listen[0] = "read" /\ rd'[0] = rd[0]) \/ rd'[0] = conn'[0]
    BY <1>6, <2>1 DEF GetConn, TypeOK
  <2>3. listen'[0] = "ack" => listen[0] = "ack"
    BY <1>6 DEF GetConn, TypeOK
  <2> QED
    BY <2>1, <2>2, <2>3 DEF NewAcksEarned, ReadsOwnConn, AnswersOwnConn, ClosesEarned
<1>7. ASSUME NEW c \in Calls, PrepareChanAndCounter(c) \/ (SendStep(c) /\ ~SendPayload(c))
      PROVE  Goal
  <2>1. wire' = wire /\ chClosed' = chClosed /\ UNCHANGED listenVars
    BY <1>7 DEF PrepareChanAndCounter, SendStep, SendFails, WriteFails, AckArrived, AckTimeout,
                ClosedWhileWaiting, WaitOver, connVars
  <2> QED
    BY <1>2, <2>1 DEF listenVars
<1>8. ASSUME NEW c \in Calls, SendPayload(c) PROVE Goal
  <2> DEFINE m == PayloadMessage(c, cnt[c])
  <2>1. m \in Messages /\ m.type = "payload"
    BY MessageFacts DEF TypeOK, PayloadMessage
  <2>2. \A k \in Conns : \A i \in DOMAIN wire'["srv"][k] :
          \/ i \in DOMAIN wire["srv"][k] /\ wire'["srv"][k][i] = wire["srv"][k][i]
          \/ wire'["srv"][k][i] = m
    BY <1>8, <2>1, TransmitElements DEF SendPayload, Sides
  <2>3. chClosed' = chClosed /\ listen' = listen /\ msg' = msg /\ rd' = rd
    BY <1>8 DEF SendPayload, listenVars
  <2> QED
    BY <2>1, <2>2, <2>3 DEF NewAcksEarned, ReadsOwnConn, AnswersOwnConn, ClosesEarned
<1>9. ASSUME NEW t \in Transceivers, HandleAckMessage(t) \/ ProcessPayload(t)
      PROVE  NewAcksEarned /\ ReadsOwnConn
  <2>1. Receive(t)
    BY <1>9 DEF HandleAckMessage, ProcessPayload
  <2>2. \A k \in Conns : \A i \in DOMAIN wire'["srv"][k] :
          \E j \in DOMAIN wire["srv"][k] : wire'["srv"][k][i] = wire["srv"][k][j]
    BY <2>1, ReceiveElements DEF Sides
  <2>3. listen'[0] = "read" => listen[0] = "read" /\ rd'[0] = rd[0]
    BY <1>9, <2>1 DEF HandleAckMessage, ProcessPayload, Receive, TypeOK
  <2> QED
    BY <2>2, <2>3 DEF NewAcksEarned, ReadsOwnConn
<1>10. ASSUME NEW t \in Transceivers, HandleAckMessage(t) PROVE Goal
  <2>1. listen'[0] = "ack" => listen[0] = "ack" /\ msg'[0] = msg[0]
    BY <1>10 DEF HandleAckMessage, TypeOK
  <2>2. ClosesEarned
    BY <1>1, <1>10, ClosesOwnCall
  <2> QED
    BY <1>9, <1>10, <2>1, <2>2 DEF AnswersOwnConn
<1>11. ASSUME NEW t \in Transceivers, ProcessPayload(t) PROVE Goal
  <2>1. ClosesEarned
    BY <1>11 DEF ProcessPayload, ClosesEarned
  <2>2. AnswersOwnConn
    <3>1. CASE t = 0
      BY <1>1, <1>11, <3>1, AnswersPayload
    <3>2. CASE t # 0
      BY <1>11, <3>2 DEF ProcessPayload, AnswersOwnConn, TypeOK
    <3> QED
      BY <3>1, <3>2
  <2> QED
    BY <1>9, <1>11, <2>1, <2>2
<1>12. ASSUME NEW t \in Transceivers, SendAck(t) PROVE Goal
  <2> DEFINE m == AckMessage(msg[t])
  <2>1. m \in Messages /\ m.call = msg[t].call /\ m.counter = msg[t].counter
    BY <1>12, MessageFacts DEF SendAck, TypeOK, AckMessage
  <2>2. \A s \in Sides, k \in Conns : \A i \in DOMAIN wire'[s][k] :
          \/ i \in DOMAIN wire[s][k] /\ wire'[s][k][i] = wire[s][k][i]
          \/ s = Other(SideOf(t)) /\ k = conn[t] /\ wire'[s][k][i] = m
    BY <1>12, <2>1, TransmitElements DEF SendAck
  <2>3. /\ pc' = pc /\ cnt' = cnt /\ chClosed' = chClosed /\ handled' = handled
        /\ rd' = rd
    BY <1>12 DEF SendAck, sendVars
  <2>4. \A u \in Transceivers : /\ listen'[u] = "ack" => listen[u] = "ack" /\ msg'[u] = msg[u]
                                /\ listen'[u] = "read" => listen[u] = "read"
    BY <1>12 DEF SendAck, TypeOK
  <2>5. t = 0 => EarnedOn(msg[t], conn[t])
    BY <1>1, <1>12 DEF SendAck, ToServerInv
  <2>6. t # 0 => Other(SideOf(t)) = "cli"
    BY DEF SideOf, Other
  <2>7. ASSUME NEW k \in Conns, NEW i \in DOMAIN wire'["srv"][k], wire'["srv"][k][i] = m,
               t = 0, k = conn[t]
        PROVE  EarnedOn(wire["srv"][k][i], k)'
    BY <2>1, <2>3, <2>5, <2>7 DEF EarnedOn, Started, Acknowledgeable
  <2>8. NewAcksEarned
    <3>1. \A k \in Conns : \A i \in DOMAIN wire'["srv"][k] :
            \/ i \in DOMAIN wire["srv"][k] /\ wire'["srv"][k][i] = wire["srv"][k][i]
            \/ t = 0 /\ k = conn[t] /\ wire'["srv"][k][i] = m
      BY <2>2, <2>6 DEF Sides
    <3> QED
      BY <2>7, <3>1 DEF NewAcksEarned
  <2>9. ReadsOwnConn /\ AnswersOwnConn
    <3>1. /\ listen'[0] = "ack" => listen[0] = "ack" /\ msg'[0] = msg[0]
          /\ listen'[0] = "read" => listen[0] = "read"
      BY <2>4
    <3>2. ReadsOwnConn
      BY ONLY <2>3, <3>1 DEF ReadsOwnConn
    <3>3. AnswersOwnConn
      BY ONLY <3>1 DEF AnswersOwnConn
    <3> QED
      BY <3>2, <3>3
  <2>10. ClosesEarned
    BY ONLY <2>3 DEF ClosesEarned
  <2> QED
    BY <2>8, <2>9, <2>10
<1>13. CASE UNCHANGED vars
  BY <1>2, <1>13 DEF vars, connVars, sendVars, listenVars
<1> QED
  BY <1>3, <1>4, <1>5, <1>6, <1>7, <1>8, <1>10, <1>11, <1>12, <1>13 DEF Next, ListenStep, SendStep
-----------------------------------------------------------------------------
(* The invariant of the server's calls holds initially.                    *)
LEMMA ServerInvInit == Init => ServerInv
<1> SUFFICES ASSUME Init PROVE ServerInv
  OBVIOUS
<1> USE CallFacts
<1>1. \A s \in Sides, k \in Conns : wire[s][k] = <<>> /\ DOMAIN wire[s][k] = {}
  BY DEF Init
<1>2. OwnConn
  BY DEF Init, OwnConn
<1>3. ToClientInv /\ ToServerInv
  BY <1>1 DEF Init, ToClientInv, ToServerInv, Sides
<1> QED
  BY <1>2, <1>3 DEF ServerInv

(* Every reachable state of the host satisfies the three invariants.       *)
LEMMA ServerInvariance == HostSpec => []ServerInv
<1> DEFINE All == IInv /\ HostInv /\ ServerInv
<1>1. HostInit => All
  BY HostInvInit, IInvInit, ServerInvInit
<1>2. All /\ [HostNext]_hostVars => All'
  <2> SUFFICES ASSUME IInv, HostInv, ServerInv, [HostNext]_hostVars PROVE All'
    OBVIOUS
  <2>1. [Next]_vars /\ HostInv' /\ ConnHeld
    BY HostStep, HostInvStep DEF IInv
  <2>2. IInv' /\ OwnConn' /\ ToClientInv' /\ ToServerInv'
    BY <2>1, IInvStep, OwnConnStep, ToClientStep, ToServerStep DEF ServerInv
  <2> QED
    BY <2>1, <2>2 DEF ServerInv
<1> QED
  BY <1>1, <1>2, PTL DEF HostSpec

(* For any number of callers and connections: what the server's Send takes *)
(* for an acknowledge is for the payload it wrote on that connection, and  *)
(* the client's handler had done what it must, until the client is closed  *)
(* (transceiver.go, sendAckIfNeeded; client.go, listenOnWS and Close).     *)
THEOREM ServerAckIsSound == HostSpec => []ServerAckMeansHandled
<1>1. ServerInv => ServerAckMeansHandled
  BY DEF ServerInv, ToServerInv, ServerAckMeansHandled
<1> QED
  BY <1>1, ServerInvariance, PTL

(* What is proved of the transceivers holds of the host: the client's      *)
(* acknowledges mean that the server handled the payload, and no channel   *)
(* is closed twice.                                                        *)
THEOREM HostClientAckIsSound == HostSpec => []ClientAckMeansHandled /\ []NoDoubleClose
<1>1. QED
  BY HostImplements, ClientAckIsSound, ChannelsCloseOnce, PTL
=============================================================================
