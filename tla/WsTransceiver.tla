--------------------------- MODULE WsTransceiver ---------------------------
(***************************************************************************)
(* The acknowledge protocol of websocket/transceiver over the connection   *)
(* wrapper of websocket/connection.                                        *)
(*                                                                         *)
(* Transceiver 0 is the client's: one object for the client's whole life,  *)
(* whose wrapper conn[0] points to whatever connection the client has      *)
(* opened last.  Transceiver k > 0 is the one the server creates for the   *)
(* k-th accepted connection; its wrapper only ever points to connection k. *)
(*                                                                         *)
(* The environment of a transceiver (who opens, closes and breaks          *)
(* connections, who re-enters Listen) is left free here: module WsHost     *)
(* says what the client and the server really do, and implements Spec.     *)
(***************************************************************************)
EXTENDS Naturals, Sequences

CONSTANTS CliCallers,   \* goroutines, each of which calls the client's Send once
          SrvCallers,   \* goroutines, each of which calls the server's Send once
          MaxConns,     \* bound: connections ever established
          WithAck,      \* the sides whose configuration sets withAcknowledge
          BlockingAckOnError,   \* the configuration flag, the same on both sides
          InitialHandler,       \* "nil" until SetPayloadHandler is called, or set already
          Faults        \* which rare failures the environment may produce

Sides == {"cli", "srv"}
FaultKinds == {"construct",        \* ConstructPayload returns an error
               "connClose",        \* closing the underlying connection returns an error
               "newTransceiver"}   \* the server cannot create a transceiver

ASSUME MaxConnsAssumption == MaxConns \in Nat \ {0}
ASSUME WithAckAssumption == WithAck \subseteq Sides
ASSUME BlockingAckAssumption == BlockingAckOnError \in BOOLEAN
ASSUME InitialHandlerAssumption == InitialHandler \in {"nil", "app"}
ASSUME FaultsAssumption == Faults \subseteq FaultKinds

Conns == 1..MaxConns
Transceivers == 0..MaxConns
ClientCalls == CliCallers \X {0}
ServerCalls == SrvCallers \X Conns
Calls == ClientCalls \cup ServerCalls   \* caller c[1] calls Send of transceiver c[2]

SideOf(t) == IF t = 0 THEN "cli" ELSE "srv"
Other(side) == IF side = "cli" THEN "srv" ELSE "cli"

VARIABLES
    link,         \* link[k]: the network connection k, "new", "up" or "down"
    conn,         \* conn[t]: wsConnClient.conn, 0 for nil
    writeErr,     \* writeErr[t]: a write on conn[t] has failed, all later ones will
    wire,         \* wire[side][k]: messages on connection k travelling to that side
    counter,      \* counter[t]: wsTransceiver.counter
    mapAck,       \* mapAck[t]: the map from a counter to the channel of a call, as its pairs
    safeClosed,   \* safeClosed[t]: the transceiver's safeCloser channel is closed
    handler,      \* handler[t]: wsTransceiver.payloadHandler, "nil" (NilPayloadHandler) or "app"
    pc,           \* pc[c]: where the call c is in Send
    cnt,          \* cnt[c]: the localCounter of the call c
    chClosed,     \* the calls whose acknowledge channel has been closed
    listen,       \* listen[t]: where Listen of t is, or what it returned
    rd,           \* rd[t]: the connection ReadMessage of t has fetched
    msg,          \* msg[t]: the message whose acknowledge t is writing
    handled       \* handled[c]: what the remote payload handler did with c's payload

connVars == <<link, conn, writeErr, wire>>
sendVars == <<counter, mapAck, pc, cnt, chClosed>>
listenVars == <<listen, rd, msg, handled>>
cfgVars == <<safeClosed, handler>>
vars == <<connVars, sendVars, listenVars, cfgVars>>

PayloadMessage(c, n) ==
    [type |-> "payload", counter |-> n, ack |-> SideOf(c[2]) \in WithAck, call |-> c]
(* An acknowledge carries the counter only; call is a history field that    *)
(* no action reads, naming the payload that was handled.                    *)
AckMessage(m) == [type |-> "ack", counter |-> m.counter, ack |-> FALSE, call |-> m.call]

Messages == [type : {"payload", "ack"}, counter : Nat, ack : BOOLEAN, call : Calls]
NoMessage == [type |-> "none"]

Open(t) == conn[t] # 0

Init ==
    /\ link = [k \in Conns |-> "new"]
    /\ conn = [t \in Transceivers |-> 0]
    /\ writeErr = [t \in Transceivers |-> FALSE]
    /\ wire = [s \in Sides |-> [k \in Conns |-> <<>>]]
    /\ counter = [t \in Transceivers |-> 0]
    /\ mapAck = [t \in Transceivers |-> {}]
    /\ safeClosed = [t \in Transceivers |-> FALSE]
    /\ handler = [t \in Transceivers |-> InitialHandler]
    /\ pc = [c \in Calls |-> "idle"]
    /\ cnt = [c \in Calls |-> 0]
    /\ chClosed = {}
    /\ listen = [t \in Transceivers |-> "out"]
    /\ rd = [t \in Transceivers |-> 0]
    /\ msg = [t \in Transceivers |-> NoMessage]
    /\ handled = [c \in Calls |-> "no"]
-----------------------------------------------------------------------------
(***************************************************************************)
(* The connection wrapper (wsConnClient).  Its mutex makes each operation  *)
(* one step, except ReadMessage, which fetches the connection under the    *)
(* mutex and reads from it outside.                                        *)
(***************************************************************************)

(* The client dials and the server upgrades the request: connection k      *)
(* exists on both ends.  A nil pointer is required (ErrConnectionAlreadyOpen *)
(* and a failed dial change nothing).  h is the server's current handler.  *)
OpenConnection(k, h) ==
    /\ ~Open(0)
    /\ link[k] = "new"
    /\ \A j \in 1..(k - 1) : link[j] # "new"
    /\ link' = [link EXCEPT ![k] = "up"]
    /\ conn' = [conn EXCEPT ![0] = k, ![k] = k]
    /\ writeErr' = [writeErr EXCEPT ![0] = FALSE]
    /\ handler' = [handler EXCEPT ![k] = h]
    /\ UNCHANGED <<wire, sendVars, listenVars, safeClosed>>

(* The close frame and the closing of the socket: both ends will see it.   *)
CloseConn(t) ==
    /\ Open(t)
    /\ link' = [link EXCEPT ![conn[t]] = "down"]
    /\ conn' = [conn EXCEPT ![t] = 0]
    /\ UNCHANGED <<writeErr, wire, sendVars, listenVars, cfgVars>>

(* conn.Close returns an error: the pointer is not reset.                  *)
CloseConnFails(t) ==
    /\ "connClose" \in Faults
    /\ Open(t)
    /\ link' = [link EXCEPT ![conn[t]] = "down"]
    /\ UNCHANGED <<conn, writeErr, wire, sendVars, listenVars, cfgVars>>

Break(k) ==
    /\ link[k] = "up"
    /\ link' = [link EXCEPT ![k] = "down"]
    /\ UNCHANGED <<conn, writeErr, wire, sendVars, listenVars, cfgVars>>

(* A write that succeeds: on a connection that is down it may still be     *)
(* accepted by the local socket, and is lost.                              *)
Transmit(t, m) ==
    /\ Open(t) /\ ~writeErr[t]
    /\ wire' = IF link[conn[t]] = "up"
               THEN [wire EXCEPT ![Other(SideOf(t))][conn[t]] = Append(@, m)]
               ELSE wire
    /\ UNCHANGED <<link, conn, writeErr>>

(* A write that fails: the pointer is nil, or the connection is down; the  *)
(* error of the websocket library is sticky.                               *)
WriteFails(t) ==
    /\ Open(t) => link[conn[t]] = "down"
    /\ writeErr' = [writeErr EXCEPT ![t] = Open(t)]
    /\ UNCHANGED <<link, conn, wire>>
-----------------------------------------------------------------------------
(***************************************************************************)
(* Send, on transceiver c[2].                                              *)
(***************************************************************************)
Without(map, n) == {p \in map : p[1] # n}

(* Mutant: the counter is read without being incremented.                  *)
ReuseCounter(c) ==
    LET t == c[2]
    IN  /\ pc[c] = "idle"
        /\ t \in Conns => link[t] # "new"
        /\ mapAck' = [mapAck EXCEPT ![t] = Without(@, counter[t]) \cup {<<counter[t], c>>}]
        /\ pc' = [pc EXCEPT ![c] = "prepared"]
        /\ UNCHANGED <<connVars, counter, cnt, chClosed, listenVars, cfgVars>>

PrepareChanAndCounter(c) ==
    LET t == c[2]
        n == counter[t] + 1
    IN  /\ pc[c] = "idle"
        /\ t \in Conns => link[t] # "new"      \* the transceiver exists
        /\ counter' = [counter EXCEPT ![t] = n]
        /\ cnt' = [cnt EXCEPT ![c] = n]
        /\ mapAck' = IF SideOf(t) \in WithAck
                     THEN [mapAck EXCEPT ![t] = Without(@, n) \cup {<<n, c>>}]
                     ELSE mapAck
        /\ pc' = [pc EXCEPT ![c] = "prepared"]
        /\ UNCHANGED <<connVars, chClosed, listenVars, cfgVars>>

(* Mutant: a write that fails is tried again instead of being reported.    *)
RetryWrite(c) ==
    /\ pc[c] = "prepared"
    /\ WriteFails(c[2])
    /\ UNCHANGED <<sendVars, listenVars, cfgVars>>

(* Send returns an error before anything is written: ConstructPayload or   *)
(* WriteMessage failed.  The registered channel stays in mapAck.           *)
SendFails(c) ==
    /\ pc[c] = "prepared"
    /\ \/ "construct" \in Faults /\ UNCHANGED connVars
       \/ WriteFails(c[2])
    /\ pc' = [pc EXCEPT ![c] = "failed"]
    /\ UNCHANGED <<counter, mapAck, cnt, chClosed, listenVars, cfgVars>>

SendPayload(c) ==
    /\ pc[c] = "prepared"
    /\ Transmit(c[2], PayloadMessage(c, cnt[c]))
    /\ pc' = [pc EXCEPT ![c] = IF SideOf(c[2]) \in WithAck THEN "waiting" ELSE "sent"]
    /\ UNCHANGED <<counter, mapAck, cnt, chClosed, listenVars, cfgVars>>

(* waitForAck: the three branches of the select; when several are ready    *)
(* any of them may be taken.  None removes the entry from mapAck.          *)
WaitOver(c, result) ==
    /\ pc[c] = "waiting"
    /\ pc' = [pc EXCEPT ![c] = result]
    /\ UNCHANGED <<connVars, counter, mapAck, cnt, chClosed, listenVars, cfgVars>>
AckArrived(c) == c \in chClosed /\ WaitOver(c, "acked")
(* Mutant: the timer confirms the call.                                  *)
TimeoutConfirms(c) == WaitOver(c, "acked")
AckTimeout(c) == WaitOver(c, "failed")
ClosedWhileWaiting(c) == safeClosed[c[2]] /\ WaitOver(c, "failed")
-----------------------------------------------------------------------------
(***************************************************************************)
(* Listen, on transceiver t.                                               *)
(***************************************************************************)
EnterListen(t) ==
    /\ listen[t] \in {"out", "true", "false"}
    /\ listen' = [listen EXCEPT ![t] = "get"]
    /\ UNCHANGED <<connVars, sendVars, rd, msg, handled, cfgVars>>

GetConn(t) ==
    /\ listen[t] = "get"
    /\ Open(t)
    /\ listen' = [listen EXCEPT ![t] = "read"]
    /\ rd' = [rd EXCEPT ![t] = conn[t]]
    /\ UNCHANGED <<connVars, sendVars, msg, handled, cfgVars>>

(* The connection is nil, or reading it fails; a connection that failed    *)
(* once fails for ever, so whatever was still on it is lost.  Listen       *)
(* answers whether the transceiver is still in use.                        *)
ListenReturns(t) ==
    /\ \/ listen[t] = "get" /\ ~Open(t) /\ UNCHANGED wire
       \/ /\ listen[t] = "read"
          /\ link[rd[t]] = "down"
          /\ wire' = [wire EXCEPT ![SideOf(t)][rd[t]] = <<>>]
    /\ listen' = [listen EXCEPT ![t] = IF safeClosed[t] THEN "false" ELSE "true"]
    /\ rd' = [rd EXCEPT ![t] = 0]
    /\ UNCHANGED <<link, conn, writeErr, sendVars, msg, handled, cfgVars>>

Inbox(t) == wire[SideOf(t)][rd[t]]
Receive(t) ==
    /\ listen[t] = "read"
    /\ Inbox(t) # <<>>
    /\ wire' = [wire EXCEPT ![SideOf(t)][rd[t]] = Tail(@)]
    /\ rd' = [rd EXCEPT ![t] = 0]
    /\ UNCHANGED <<link, conn, writeErr, counter, pc, cnt, cfgVars>>

(* Mutant: the entry is not deleted from the map.                          *)
KeepEntry(t) ==
    LET n == Head(Inbox(t)).counter
    IN  /\ Receive(t)
        /\ Head(Inbox(t)).type = "ack"
        /\ chClosed' = chClosed \cup {p[2] : p \in {q \in mapAck[t] : q[1] = n}}
        /\ listen' = [listen EXCEPT ![t] = "get"]
        /\ UNCHANGED <<mapAck, msg, handled>>

(* The channel registered under the counter, if there is one, is closed    *)
(* and its entry deleted; an unknown counter changes nothing.              *)
HandleAckMessage(t) ==
    LET n == Head(Inbox(t)).counter
    IN  /\ Receive(t)
        /\ Head(Inbox(t)).type = "ack"
        /\ chClosed' = chClosed \cup {p[2] : p \in {q \in mapAck[t] : q[1] = n}}
        /\ mapAck' = [mapAck EXCEPT ![t] = Without(@, n)]
        /\ listen' = [listen EXCEPT ![t] = "get"]
        /\ UNCHANGED <<msg, handled>>

(* The outcomes the payload handler can have; the nil handler a            *)
(* transceiver starts with always succeeds.                                *)
HandlerOutcomes(t) == IF handler[t] = "app" THEN {"ok", "error"} ELSE {"ok"}

(* Mutant: the error of the handler does not keep the acknowledge back.    *)
AcknowledgeErrors(t) ==
    LET m == Head(Inbox(t))
    IN  /\ Receive(t)
        /\ m.type = "payload"
        /\ \E o \in HandlerOutcomes(t) : handled' = [handled EXCEPT ![m.call] = o]
        /\ listen' = [listen EXCEPT ![t] = IF m.ack THEN "ack" ELSE "get"]
        /\ msg' = [msg EXCEPT ![t] = IF m.ack THEN m ELSE @]
        /\ UNCHANGED <<mapAck, chClosed>>

ProcessPayload(t) ==
    LET m == Head(Inbox(t))
    IN  /\ Receive(t)
        /\ m.type = "payload"
        /\ \E o \in HandlerOutcomes(t) :
             /\ handled' = [handled EXCEPT ![m.call] = o]
             /\ \/ /\ ~(o = "error" /\ BlockingAckOnError)
                   /\ m.ack
                   /\ listen' = [listen EXCEPT ![t] = "ack"]
                   /\ msg' = [msg EXCEPT ![t] = m]
                \/ /\ \/ o = "error" /\ BlockingAckOnError
                      \/ ~m.ack
                      \/ "construct" \in Faults
                   /\ listen' = [listen EXCEPT ![t] = "get"]
                   /\ UNCHANGED msg
        /\ UNCHANGED <<mapAck, chClosed>>

(* sendAckIfNeeded: the write is retried until it succeeds or, after a     *)
(* failure, the transceiver is found closed.  Only the first failure on a  *)
(* connection changes anything.                                            *)
SendAck(t) ==
    /\ listen[t] = "ack"
    /\ Transmit(t, AckMessage(msg[t]))
    /\ listen' = [listen EXCEPT ![t] = "get"]
    /\ msg' = [msg EXCEPT ![t] = NoMessage]
    /\ UNCHANGED <<sendVars, rd, handled, cfgVars>>
SendAckFails(t) ==
    /\ listen[t] = "ack"
    /\ WriteFails(t)
    /\ \/ UNCHANGED <<listen, msg>>
       \/ /\ safeClosed[t]
          /\ listen' = [listen EXCEPT ![t] = "get"]
          /\ msg' = [msg EXCEPT ![t] = NoMessage]
    /\ UNCHANGED <<sendVars, rd, handled, cfgVars>>
-----------------------------------------------------------------------------
SetPayloadHandler(t) ==
    /\ handler' = [handler EXCEPT ![t] = "app"]
    /\ UNCHANGED <<connVars, sendVars, listenVars, safeClosed>>

Close(t) ==
    /\ safeClosed' = [safeClosed EXCEPT ![t] = TRUE]
    /\ UNCHANGED <<connVars, sendVars, listenVars, handler>>

SendStep(c) ==
    \/ SendFails(c) \/ SendPayload(c)
    \/ AckArrived(c) \/ AckTimeout(c) \/ ClosedWhileWaiting(c)
ListenStep(t) ==
    \/ GetConn(t) \/ ListenReturns(t)
    \/ HandleAckMessage(t) \/ ProcessPayload(t)
    \/ SendAck(t) \/ SendAckFails(t)

Next ==
    \/ \E k \in Conns : Break(k) \/ \E h \in {"nil", "app"} : OpenConnection(k, h)
    \/ \E c \in Calls : PrepareChanAndCounter(c) \/ SendStep(c)
    \/ \E t \in Transceivers :
         \/ EnterListen(t) \/ ListenStep(t)
         \/ CloseConn(t) \/ CloseConnFails(t)
         \/ SetPayloadHandler(t) \/ Close(t)

Spec == Init /\ [][Next]_vars
-----------------------------------------------------------------------------
Acknowledgeable == IF BlockingAckOnError THEN {"ok"} ELSE {"ok", "error"}

TypeOK ==
    /\ link \in [Conns -> {"new", "up", "down"}]
    /\ conn \in [Transceivers -> Transceivers]
    /\ writeErr \in [Transceivers -> BOOLEAN]
    /\ wire \in [Sides -> [Conns -> Seq(Messages)]]
    /\ counter \in [Transceivers -> Nat]
    /\ mapAck \in [Transceivers -> SUBSET (Nat \X Calls)]
    /\ safeClosed \in [Transceivers -> BOOLEAN]
    /\ handler \in [Transceivers -> {"nil", "app"}]
    /\ pc \in [Calls -> {"idle", "prepared", "waiting", "acked", "sent", "failed"}]
    /\ cnt \in [Calls -> Nat]
    /\ chClosed \subseteq Calls
    /\ listen \in [Transceivers -> {"out", "get", "read", "ack", "true", "false"}]
    /\ rd \in [Transceivers -> Transceivers]
    /\ \A t \in Transceivers : listen[t] = "read" => rd[t] \in Conns
    /\ msg \in [Transceivers -> Messages \cup {NoMessage}]
    /\ \A t \in Transceivers : listen[t] = "ack" => msg[t] \in Messages
    /\ handled \in [Calls -> {"no", "ok", "error"}]

(* A Send of the client that takes itself for acknowledged was handled by  *)
(* the server: its own payload, and successfully when BlockingAckOnError   *)
(* is set.  The client's transceiver survives reconnections, late          *)
(* acknowledges, calls that gave up and connections that broke in between  *)
(* (transceiver.go, handleAckMessage and waitForAck).  A call that was     *)
(* dropped for want of a connection (ClientDrops) or sent without asking   *)
(* for an acknowledge returns nil as well and promises nothing.            *)
ClientAckMeansHandled ==
    \A c \in ClientCalls : pc[c] = "acked" => handled[c] \in Acknowledgeable

(* No registered channel is closed already: handleAckMessage would close   *)
(* it a second time and the process would panic.                           *)
NoDoubleClose ==
    \A t \in Transceivers : \A p \in mapAck[t] : p[2] \notin chClosed

(* A Send of the client keeps the promise of AckedDelivery: confirmed only *)
(* after the handling, handled at most once, whatever the connection does  *)
(* (meaningful when the client's side acknowledges).                       *)
CallStatus(c) ==
    CASE pc[c] = "idle" -> "idle"
      [] pc[c] \in {"prepared", "waiting"} -> "pending"
      [] pc[c] = "acked" -> "confirmed"
      [] OTHER -> "failed"
Delivery == INSTANCE AckedDelivery
    WITH Calls <- ClientCalls, NeedsSuccess <- BlockingAckOnError,
         status <- [c \in ClientCalls |-> CallStatus(c)],
         outcome <- [c \in ClientCalls |-> IF handled[c] = "no" THEN "none" ELSE handled[c]]
ClientSendsAreAckedDeliveries == Delivery!Spec
=============================================================================
