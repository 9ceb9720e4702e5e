------------------------------- MODULE WsHost -------------------------------
(***************************************************************************)
(* The websocket host: a client (websocket/client) and a server            *)
(* (websocket/server) around the transceivers of WsTransceiver.            *)
(*                                                                         *)
(* Client: one goroutine keeps opening the connection, another listens and *)
(* closes a connection that failed, any number call Send, one calls Close. *)
(* Server: a goroutine per accepted connection, callers of Send that serve *)
(* a snapshot of the connections one after the other, one caller of Close. *)
(***************************************************************************)
EXTENDS WsTransceiver

CONSTANTS DropIfNoConn,     \* dropMessagesIfNoConnection, the same on both sides
          MayClose          \* the sides on which Close is called

ASSUME DropIfNoConnAssumption == DropIfNoConn \in BOOLEAN
ASSUME MayCloseAssumption == MayClose \subseteq Sides

VARIABLES
    opener,       \* the client's goroutine that opens: "open", "wait" or "ended"
    listener,     \* the client's goroutine that listens: "start", "listen", "wait", "ended"
    cliClose,     \* how far client.Close is
    dropped,      \* calls of the client's Send that returned nil without sending
    holder,       \* transceiversAndConnHolder: the connections in the map
    goroutine,    \* goroutine[k] of connectionHandler: "none", "add", "listen", "ended"
    sending,      \* sending[s]: a call of the server's Send
    todo,         \* todo[s]: the part of its snapshot the call has not served yet
    srvClose,     \* how far server.Close is
    closeTodo,    \* the part of its snapshot server.Close has not closed yet
    srvHandler    \* server.payloadHandler

clientVars == <<opener, listener, cliClose, dropped>>
serverVars == <<holder, goroutine, sending, todo, srvClose, closeTodo, srvHandler>>
hostVars == <<vars, clientVars, serverVars>>

HostInit ==
    /\ Init
    /\ opener = "open" /\ listener = "start" /\ cliClose = "no" /\ dropped = {}
    /\ holder = {} /\ goroutine = [k \in Conns |-> "none"]
    /\ sending = [s \in SrvCallers |-> "idle"] /\ todo = [s \in SrvCallers |-> {}]
    /\ srvClose = "no" /\ closeTodo = {} /\ srvHandler = InitialHandler

ClientClosed == cliClose = "done"       \* client.safeCloser, closed last
Finished(c) == pc[c] \in {"acked", "sent", "failed"}
-----------------------------------------------------------------------------
(***************************************************************************)
(* The client.                                                             *)
(***************************************************************************)
OpenerOpens(k) ==
    /\ opener = "open"
    /\ srvClose = "no"
    /\ OpenConnection(k, srvHandler)
    /\ opener' = "wait"
    /\ goroutine' = [goroutine EXCEPT ![k] = "add"]
    /\ UNCHANGED <<listener, cliClose, dropped,
                   holder, sending, todo, srvClose, closeTodo, srvHandler>>

(* The connection is open already, or the dial failed: nothing changes.    *)
OpenerDoesNotOpen ==
    /\ opener = "open"
    /\ opener' = "wait"
    /\ UNCHANGED <<vars, listener, cliClose, dropped, serverVars>>

(* The timer and the closing are two branches of a select: once both are   *)
(* ready either may be taken.                                              *)
OpenerTimer ==
    /\ opener = "wait" /\ opener' = "open"
    /\ UNCHANGED <<vars, listener, cliClose, dropped, serverVars>>
OpenerEnds ==
    /\ opener = "wait" /\ ClientClosed /\ opener' = "ended"
    /\ UNCHANGED <<vars, listener, cliClose, dropped, serverVars>>

ListenerEnters ==
    /\ listener \in {"start", "wait"}
    /\ EnterListen(0)
    /\ listener' = "listen"
    /\ UNCHANGED <<opener, cliClose, dropped, serverVars>>

(* Listen returned: TRUE asks for the connection to be closed.  The        *)
(* connection closed is the one the wrapper points to now.                 *)
ListenerCloses ==
    /\ listener = "listen" /\ listen[0] \in {"true", "false"}
    /\ listener' = "wait"
    /\ \/ listen[0] = "true" /\ CloseConn(0)
       \/ (listen[0] = "false" \/ ~Open(0)) /\ UNCHANGED vars
    /\ UNCHANGED <<opener, cliClose, dropped, serverVars>>
(* Mutant: the goroutine gives up when the closing fails.                  *)
ListenerGivesUp ==
    /\ listener = "listen" /\ listen[0] = "true"
    /\ listener' = "ended"
    /\ CloseConnFails(0)
    /\ UNCHANGED <<opener, cliClose, dropped, serverVars>>

(* The closing fails; the error is logged and the loop goes on.            *)
ListenerCloseFails ==
    /\ listener = "listen" /\ listen[0] = "true"
    /\ listener' = "wait"
    /\ CloseConnFails(0)
    /\ UNCHANGED <<opener, cliClose, dropped, serverVars>>

ListenerEnds ==
    /\ listener = "wait" /\ ClientClosed /\ listener' = "ended"
    /\ UNCHANGED <<vars, opener, cliClose, dropped, serverVars>>

ClientSend(c) ==
    /\ c \in ClientCalls \ dropped
    /\ DropIfNoConn => Open(0)
    /\ PrepareChanAndCounter(c)
    /\ UNCHANGED <<clientVars, serverVars>>
ClientDrops(c) ==
    /\ c \in ClientCalls \ dropped
    /\ pc[c] = "idle"
    /\ DropIfNoConn /\ ~Open(0)
    /\ dropped' = dropped \cup {c}
    /\ UNCHANGED <<vars, opener, listener, cliClose, serverVars>>

ClientSetsHandler ==
    /\ handler[0] = "nil"
    /\ SetPayloadHandler(0)
    /\ UNCHANGED <<clientVars, serverVars>>

(* client.Close: the transceiver, the connection, then (deferred) the      *)
(* client's own safeCloser.                                                *)
ClientClosesTransceiver ==
    /\ "cli" \in MayClose /\ cliClose = "no"
    /\ Close(0)
    /\ cliClose' = "transceiver"
    /\ UNCHANGED <<opener, listener, dropped, serverVars>>
ClientClosesConn ==
    /\ cliClose = "transceiver"
    /\ CloseConn(0) \/ CloseConnFails(0) \/ (~Open(0) /\ UNCHANGED vars)
    /\ cliClose' = "conn"
    /\ UNCHANGED <<opener, listener, dropped, serverVars>>
ClientCloseReturns ==
    /\ cliClose = "conn" /\ cliClose' = "done"
    /\ UNCHANGED <<vars, opener, listener, dropped, serverVars>>
-----------------------------------------------------------------------------
(***************************************************************************)
(* The server.                                                             *)
(***************************************************************************)
AddTransceiverAndConn(k) ==
    /\ goroutine[k] = "add"
    /\ EnterListen(k)
    /\ goroutine' = [goroutine EXCEPT ![k] = "listen"]
    /\ holder' = holder \cup {k}
    /\ UNCHANGED <<clientVars, sending, todo, srvClose, closeTodo, srvHandler>>

(* The transceiver cannot be created: no goroutine is started, and the     *)
(* connection stays as it is, in nobody's hands.                           *)
NewTransceiverFails(k) ==
    /\ "newTransceiver" \in Faults
    /\ goroutine[k] = "add"
    /\ goroutine' = [goroutine EXCEPT ![k] = "ended"]
    /\ UNCHANGED <<vars, clientVars, holder, sending, todo, srvClose, closeTodo, srvHandler>>

(* Mutant: the goroutine listens again, as the client's does.              *)
RelistenInsteadOfRemove(k) ==
    /\ goroutine[k] = "listen"
    /\ EnterListen(k)
    /\ UNCHANGED <<clientVars, serverVars>>

(* Listen returned: the connection leaves the holder; it is not closed.    *)
Remove(k) ==
    /\ goroutine[k] = "listen" /\ listen[k] \in {"true", "false"}
    /\ goroutine' = [goroutine EXCEPT ![k] = "ended"]
    /\ holder' = holder \ {k}
    /\ UNCHANGED <<vars, clientVars, sending, todo, srvClose, closeTodo, srvHandler>>

ServerSend(s) ==
    /\ sending[s] = "idle"
    /\ sending' = [sending EXCEPT ![s] = IF holder = {} /\ ~DropIfNoConn
                                         THEN "noClients" ELSE "sending"]
    /\ todo' = [todo EXCEPT ![s] = holder]
    /\ UNCHANGED <<vars, clientVars, holder, goroutine, srvClose, closeTodo, srvHandler>>

(* The loop over the snapshot: the next connection once the last one is    *)
(* served, its error swallowed; nil at the end.                            *)
Busy(s) == \E k \in Conns : pc[<<s, k>>] # "idle" /\ ~Finished(<<s, k>>)
ServerSendsTo(s, k) ==
    /\ sending[s] = "sending" /\ k \in todo[s] /\ ~Busy(s)
    /\ PrepareChanAndCounter(<<s, k>>)
    /\ todo' = [todo EXCEPT ![s] = @ \ {k}]
    /\ UNCHANGED <<clientVars, holder, goroutine, sending, srvClose, closeTodo, srvHandler>>
ServerSendReturns(s) ==
    /\ sending[s] = "sending" /\ todo[s] = {} /\ ~Busy(s)
    /\ sending' = [sending EXCEPT ![s] = "returned"]
    /\ UNCHANGED <<vars, clientVars, holder, goroutine, todo, srvClose, closeTodo, srvHandler>>

(* Connections accepted from now on get the handler; the others keep the   *)
(* one they were created with.                                             *)
ServerSetsHandler ==
    /\ srvHandler = "nil" /\ srvHandler' = "app"
    /\ UNCHANGED <<vars, clientVars, holder, goroutine, sending, todo, srvClose, closeTodo>>

(* server.Close: no new connection is accepted, then each connection of a  *)
(* snapshot is closed: its transceiver, then its wrapper.                  *)
ServerShutsDown ==
    /\ "srv" \in MayClose /\ srvClose = "no" /\ srvClose' = "shutdown"
    /\ UNCHANGED <<vars, clientVars, holder, goroutine, sending, todo, closeTodo, srvHandler>>
ServerGetsAll ==
    /\ srvClose = "shutdown" /\ srvClose' = "closing" /\ closeTodo' = holder
    /\ UNCHANGED <<vars, clientVars, holder, goroutine, sending, todo, srvHandler>>
ServerClosesTransceiver(k) ==
    /\ srvClose = "closing" /\ k \in closeTodo /\ ~safeClosed[k]
    /\ \A j \in closeTodo : ~safeClosed[j]
    /\ Close(k)
    /\ UNCHANGED <<clientVars, serverVars>>
ServerClosesConn(k) ==
    /\ srvClose = "closing" /\ k \in closeTodo /\ safeClosed[k]
    /\ CloseConn(k) \/ CloseConnFails(k) \/ (~Open(k) /\ UNCHANGED vars)
    /\ closeTodo' = closeTodo \ {k}
    /\ UNCHANGED <<clientVars, holder, goroutine, sending, todo, srvClose, srvHandler>>
ServerCloseReturns ==
    /\ srvClose = "closing" /\ closeTodo = {} /\ srvClose' = "done"
    /\ UNCHANGED <<vars, clientVars, holder, goroutine, sending, todo, closeTodo, srvHandler>>
-----------------------------------------------------------------------------
Transceive == /\ \/ \E c \in Calls : SendStep(c)
                 \/ \E t \in Transceivers : ListenStep(t)
                 \/ \E k \in Conns : Break(k)
              /\ UNCHANGED <<clientVars, serverVars>>

Client == \/ \E k \in Conns : OpenerOpens(k)
          \/ OpenerDoesNotOpen \/ OpenerTimer \/ OpenerEnds
          \/ ListenerEnters \/ ListenerCloses \/ ListenerCloseFails \/ ListenerEnds
          \/ \E c \in ClientCalls : ClientSend(c) \/ ClientDrops(c)
          \/ ClientSetsHandler
          \/ ClientClosesTransceiver \/ ClientClosesConn \/ ClientCloseReturns

Server == \/ \E k \in Conns : AddTransceiverAndConn(k) \/ NewTransceiverFails(k) \/ Remove(k)
          \/ \E s \in SrvCallers : \/ ServerSend(s) \/ ServerSendReturns(s)
                                   \/ \E k \in Conns : ServerSendsTo(s, k)
          \/ ServerSetsHandler
          \/ ServerShutsDown \/ ServerGetsAll \/ ServerCloseReturns
          \/ \E k \in Conns : ServerClosesTransceiver(k) \/ ServerClosesConn(k)

HostNext == Transceive \/ Client \/ Server

(* Every goroutine that can run does.  A select with two ready branches    *)
(* picks one at random, so neither branch loses for ever; a dial that      *)
(* keeps being tried while the server accepts succeeds in the end.         *)
Fairness ==
    /\ \A c \in Calls : WF_hostVars(SendStep(c) /\ UNCHANGED <<clientVars, serverVars>>)
    /\ \A t \in Transceivers : WF_hostVars(ListenStep(t) /\ UNCHANGED <<clientVars, serverVars>>)
    /\ \A k \in Conns : SF_hostVars(OpenerOpens(k))
    /\ WF_hostVars(OpenerDoesNotOpen) /\ WF_hostVars(OpenerTimer) /\ SF_hostVars(OpenerEnds)
    /\ WF_hostVars(ListenerEnters) /\ SF_hostVars(ListenerEnds)
    /\ WF_hostVars(ListenerCloses \/ ListenerCloseFails)
    /\ \A k \in Conns : WF_hostVars(AddTransceiverAndConn(k)) /\ WF_hostVars(Remove(k))
    /\ \A s \in SrvCallers : \A k \in Conns : WF_hostVars(ServerSendsTo(s, k))
    /\ \A s \in SrvCallers : WF_hostVars(ServerSendReturns(s))
    /\ WF_hostVars(ClientClosesConn) /\ WF_hostVars(ClientCloseReturns)
    /\ WF_hostVars(ServerGetsAll) /\ WF_hostVars(ServerCloseReturns)
    /\ \A k \in Conns : WF_hostVars(ServerClosesTransceiver(k)) /\ WF_hostVars(ServerClosesConn(k))

HostSpec == HostInit /\ [][HostNext]_hostVars
FairHostSpec == HostSpec /\ Fairness
-----------------------------------------------------------------------------
(* The guarantee of ClientAckMeansHandled in the other direction, where    *)
(* every connection has its own transceiver and counters start over: what  *)
(* the server's Send takes for an acknowledge is for the payload it wrote  *)
(* on that connection.  It ends with client.Close: an acknowledge being    *)
(* written while the wrapper is closed and reopened may go out on the new  *)
(* connection and meet the same counter there (sendAckIfNeeded).           *)
ServerAckMeansHandled ==
    \A c \in ServerCalls :
      pc[c] = "acked" /\ ~safeClosed[0] => handled[c] \in Acknowledgeable

Reconnected(k) == \E j \in Conns : j > k /\ link[j] # "new"

(* A connection that is gone is noticed and a new one is opened, without   *)
(* the client being closed (client.start, RetryDurationInSec).  Two things *)
(* keep the client from it: its listening goroutine retries an acknowledge *)
(* on the old connection for ever (sendAckIfNeeded), or the closing of the *)
(* old connection fails each time it is tried, which leaves the wrapper's  *)
(* pointer set, so that OpenConnection is refused (wsConnClient.Close).    *)
(* Any number of failed closings before one that succeeds do no harm.      *)
ReconnectsUnlessHeld ==
    (<>[][~ListenerCloseFails]_hostVars) =>
      \A k \in Conns :
        (link[k] = "down" /\ k < MaxConns) ~> (Reconnected(k) \/ [](listen[0] = "ack"))

(* server.Send returns: neither a connection of its snapshot that is gone  *)
(* nor an acknowledge that never comes can hold it for ever.               *)
ServerSendReturnsEventually ==
    \A s \in SrvCallers : (sending[s] = "sending") ~> (sending[s] = "returned")

(* The goroutine of a dead connection ends, which takes the connection out *)
(* of the server's holder - unless Listen is caught in sendAckIfNeeded: a  *)
(* write that failed once fails for ever, and is retried until the         *)
(* transceiver is closed.  Then the entry stays as well.                   *)
DeadConnectionsRemoved ==
    \A k \in Conns :
      \/ <>[](listen[k] = "ack")
      \/ (link[k] = "down") ~> (goroutine[k] = "ended" /\ k \notin holder)

(* client.Close ends both goroutines of the client.  One thing keeps the   *)
(* listening one: a connection that is still there, because closing it     *)
(* failed or because the other goroutine opened it while Close was running *)
(* (the connection is closed before the safeCloser of the client).  And    *)
(* server.Close ends the goroutine of every connection it found in the     *)
(* holder and could close, and takes the connection out of the holder.     *)
HostCloseEndsGoroutines ==
    /\ ClientClosed ~> (opener = "ended")
    /\ (ClientClosed /\ ~Open(0)) ~> (listener = "ended" \/ Open(0))
    /\ \A k \in Conns :
         (srvClose = "done" /\ safeClosed[k] /\ ~Open(k))
           ~> (goroutine[k] = "ended" /\ k \notin holder)
=============================================================================
