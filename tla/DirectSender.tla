---------------------------- MODULE DirectSender ----------------------------
(***************************************************************************)
(* Direct messages to connected peers, from SendToConnectedPeer to the     *)
(* stream reader of the receiver.  Callers of Send for one peer are        *)
(* serialised by a mutex out of a cache of limited size (MutexHolder); the *)
(* holder of the mutex looks for a connection and an outgoing stream,      *)
(* numbers and signs the message and writes it, in more than one piece     *)
(* when it is larger than the buffer of the writer.  Connections and       *)
(* streams end at any time and the node may be restarted.                  *)
(***************************************************************************)
EXTENDS Integers, FiniteSets, SequencesExt

CONSTANTS Callers, Peers, NoPeer, NoCaller,
          Conns,          \* connections one peer may have at a time
          MaxMutexes,     \* maxMutexes, the capacity of the cache of mutexes
          MaxStreams,     \* bound: streams that exist at a time
          MaxSends,       \* bound: calls of SendToConnectedPeer
          MaxRestarts,    \* bound: restarts of the sending node
          MaxChanges      \* bound: connections opened and lost

ASSUME SizesAssumption ==
    /\ MaxMutexes \in Nat \ {0} /\ MaxStreams \in Nat /\ MaxSends \in Nat
    /\ MaxRestarts \in Nat /\ MaxChanges \in Nat
    /\ NoPeer \notin Peers /\ NoCaller \notin Callers /\ IsFiniteSet(Callers)

(* One identity per mutex that can be referenced at a time.                *)
Mutexes == 1..(MaxMutexes + Cardinality(Callers))
Streams == 1..MaxStreams

VARIABLES
    cache,      \* MutexHolder.mutexes: [key, mutex], most recently used first
    holder,     \* holder[x]: the caller that has locked mutex x, or NoCaller
    caller,     \* caller[c]: where c is in Send, and what it has got so far
    counter,    \* directSender.counter
    conns,      \* conns[p]: the connections to p
    streams,    \* the open streams: id -> [peer, conn, data]
    seen,       \* seen[p]: the numbers in p's cache of seen messages
    refused,    \* history: messages refused as seen although p got them once
    overrun,    \* history: peers whose mutex left the cache while in use
    budget      \* what is left of the bounds

vars == <<cache, holder, caller, counter, conns, streams, seen, refused, overrun, budget>>
mutexVars == <<cache, holder, overrun>>
netVars == <<conns, streams, seen, refused>>

IdleCaller == [pc |-> "idle", target |-> NoPeer, mutex |-> 0, conn |-> 0,
               stream |-> 0, seqno |-> 0]
AllIdle == [c \in Callers |-> IdleCaller]

(* NewDirectSender: the counter starts at the time of day.                 *)
Init ==
    /\ cache = <<>> /\ holder = [x \in Mutexes |-> NoCaller]
    /\ caller = AllIdle
    /\ counter = 0
    /\ conns = [p \in Peers |-> {}]
    /\ streams = <<>>
    /\ seen = [p \in Peers |-> {}] /\ refused = {} /\ overrun = {}
    /\ budget = [sends |-> MaxSends, restarts |-> MaxRestarts, changes |-> MaxChanges]

At(c, place) == caller[c].pc = place
Goto(c, place) == caller' = [caller EXCEPT ![c].pc = place]
UseStream(c, s) == caller' = [caller EXCEPT ![c].pc = "create", ![c].stream = s]
-----------------------------------------------------------------------------
(* The cache of mutexes.                                                   *)
InUse(x) == \E c \in Callers : caller[c].mutex = x
Unreferenced == {x \in Mutexes : ~InUse(x) /\ \A i \in DOMAIN cache : cache[i].mutex # x}

(* A key that is found becomes the most recently used one, a new key takes *)
(* the place of the least recently used one when the cache is full.        *)
CacheGet(i) == <<cache[i]>> \o RemoveAt(cache, i)
CachePut(e) == <<e>> \o (IF Len(cache) < MaxMutexes THEN cache ELSE Front(cache))

TakeMutex(c, p, x) ==
    caller' = [caller EXCEPT ![c].pc = "lock", ![c].target = p, ![c].mutex = x]

(* Mutant: a new mutex is handed out without being remembered.             *)
GetForgetful(c, p) ==
    /\ TakeMutex(c, p, CHOOSE x \in Unreferenced : TRUE)
    /\ UNCHANGED <<cache, overrun>>

(* MutexHolder.Get: the mutex of the key, or a new one.                    *)
Get(c, p) ==
    \/ \E i \in DOMAIN cache :
         /\ cache[i].key = p
         /\ cache' = CacheGet(i)
         /\ TakeMutex(c, p, cache[i].mutex)
         /\ UNCHANGED overrun
    \/ /\ \A i \in DOMAIN cache : cache[i].key # p
       /\ LET x == CHOOSE x \in Unreferenced : TRUE
          IN  cache' = CachePut([key |-> p, mutex |-> x]) /\ TakeMutex(c, p, x)
       /\ overrun' = IF Len(cache) = MaxMutexes /\ InUse(Last(cache).mutex)
                     THEN overrun \cup {Last(cache).key} ELSE overrun
-----------------------------------------------------------------------------
(* The next value of the counter, one atomic addition.                     *)
NextSequenceNumber == counter + 1

(* SendToConnectedPeer for the node itself: the message is numbered and    *)
(* handed to the processors without the direct sender.                     *)
SendDirectToSelf ==
    /\ budget.sends > 0
    /\ budget' = [budget EXCEPT !.sends = @ - 1]
    /\ counter' = NextSequenceNumber
    /\ UNCHANGED <<caller, mutexVars, netVars>>

(* SendToConnectedPeer to a peer, up to MutexHolder.Get.  Data that is     *)
(* empty or too large is refused before anything changes.                  *)
SendToConnectedPeer(c, p) ==
    /\ At(c, "idle")
    /\ budget.sends > 0
    /\ budget' = [budget EXCEPT !.sends = @ - 1]
    /\ Get(c, p)
    /\ UNCHANGED <<holder, counter, netVars>>

Lock(c) ==
    /\ At(c, "lock")
    /\ holder[caller[c].mutex] = NoCaller
    /\ holder' = [holder EXCEPT ![caller[c].mutex] = c]
    /\ Goto(c, "conn")
    /\ UNCHANGED <<cache, overrun, counter, netVars, budget>>

(* getConnection: the connection with most streams, those of other         *)
(* protocols included, so any of them may be the one.                      *)
GetConnection(c) ==
    /\ At(c, "conn")
    /\ \/ /\ conns[caller[c].target] = {}
          /\ Goto(c, "return")
       \/ \E k \in conns[caller[c].target] :
            caller' = [caller EXCEPT ![c].pc = "stream", ![c].conn = k]
    /\ UNCHANGED <<mutexVars, counter, netVars, budget>>

Outgoing(p, k) == {s \in DOMAIN streams : streams[s].peer = p /\ streams[s].conn = k}
Unused == {s \in Streams : s \notin DOMAIN streams /\ \A c \in Callers : caller[c].stream # s}

WithStream(s, new) == [t \in DOMAIN streams \cup {s} |-> IF t = s THEN new ELSE streams[t]]

(* host.NewStream: the host opens the stream on whichever connection to    *)
(* the peer it likes, dials when there is none any more, or fails.         *)
NewStream(c, p) ==
    \/ /\ Unused # {}
       /\ LET s == CHOOSE s \in Unused : TRUE IN
          \E k \in IF conns[p] = {} THEN Conns ELSE conns[p] :
            /\ conns' = [conns EXCEPT ![p] = @ \cup {k}]
            /\ streams' = WithStream(s, [peer |-> p, conn |-> k, data |-> <<>>])
            /\ UseStream(c, s)
    \/ /\ Goto(c, "return")
       /\ UNCHANGED <<conns, streams>>

(* getOrCreateStream: an outgoing stream of the chosen connection, or a    *)
(* new one.                                                                *)
GetOrCreateStream(c) ==
    /\ At(c, "stream")
    /\ LET found == Outgoing(caller[c].target, caller[c].conn) IN
       \/ /\ \E s \in found : UseStream(c, s)
          /\ UNCHANGED <<conns, streams>>
       \/ found = {} /\ NewStream(c, caller[c].target)
    /\ UNCHANGED <<mutexVars, counter, seen, refused, budget>>

(* createMessage: the message is numbered; its signature may fail.         *)
CreateMessage(c) ==
    /\ At(c, "create")
    /\ counter' = NextSequenceNumber
    /\ \E place \in {"write", "return"} :
         caller' = [caller EXCEPT ![c].pc = place, ![c].seqno = NextSequenceNumber]
    /\ UNCHANGED <<mutexVars, netVars, budget>>

WithData(s, pieces) == [streams EXCEPT ![s].data = @ \o pieces]
Piece(c, part) == [no |-> caller[c].seqno, part |-> part]
Open(s) == s \in DOMAIN streams
WithoutStreams(S) == [s \in DOMAIN streams \ S |-> streams[s]]

(* A failed write: the stream is reset and closed.                         *)
WriteFails(c) ==
    /\ streams' = WithoutStreams({caller[c].stream})
    /\ Goto(c, "return")

(* WriteMsg: a message larger than the buffer is written in part, another  *)
(* stays in the buffer as a whole.                                         *)
WriteMsg(c) ==
    /\ At(c, "write")
    /\ \/ /\ Open(caller[c].stream)
          /\ streams' = WithData(caller[c].stream, <<Piece(c, "first")>>)
          /\ Goto(c, "flush rest")
       \/ Goto(c, "flush all") /\ UNCHANGED streams
       \/ WriteFails(c)
    /\ UNCHANGED <<mutexVars, counter, conns, seen, refused, budget>>

(* Flush: what is left in the buffer.                                      *)
Flush(c) ==
    /\ caller[c].pc \in {"flush rest", "flush all"}
    /\ \/ /\ Open(caller[c].stream)
          /\ streams' = WithData(caller[c].stream,
                           IF At(c, "flush rest") THEN <<Piece(c, "rest")>>
                           ELSE <<Piece(c, "first"), Piece(c, "rest")>>)
          /\ Goto(c, "return")
       \/ WriteFails(c)
    /\ UNCHANGED <<mutexVars, counter, conns, seen, refused, budget>>

(* Mutant: an early return leaves the mutex locked.                        *)
SendReturnsLocked(c) ==
    /\ At(c, "return")
    /\ holder' = IF caller[c].seqno = 0 THEN holder ELSE [holder EXCEPT ![caller[c].mutex] = NoCaller]
    /\ caller' = [caller EXCEPT ![c] = IdleCaller]
    /\ UNCHANGED <<cache, overrun, counter, netVars, budget>>

(* Send returns, nil or an error, and unlocks the mutex.                   *)
SendReturns(c) ==
    /\ At(c, "return")
    /\ holder' = [holder EXCEPT ![caller[c].mutex] = NoCaller]
    /\ caller' = [caller EXCEPT ![c] = IdleCaller]
    /\ UNCHANGED <<cache, overrun, counter, netVars, budget>>

(* Mutant: the counter starts at zero.                                     *)
RestartAtZero ==
    /\ budget.restarts > 0
    /\ budget' = [budget EXCEPT !.restarts = @ - 1]
    /\ caller' = AllIdle
    /\ cache' = <<>> /\ holder' = [x \in Mutexes |-> NoCaller] /\ overrun' = {}
    /\ conns' = [p \in Peers |-> {}] /\ streams' = <<>>
    /\ counter' = 0
    /\ UNCHANGED <<seen, refused>>

(* The node is started again.  Its counter starts at the time of day in    *)
(* nanoseconds.  Assumption: that time is not behind the last number given *)
(* out, which holds while the clock of the machine is not set back, since  *)
(* numbering a message takes longer than a nanosecond.  The code compares  *)
(* the two nowhere.                                                        *)
Restart ==
    /\ budget.restarts > 0
    /\ budget' = [budget EXCEPT !.restarts = @ - 1]
    /\ caller' = AllIdle
    /\ cache' = <<>> /\ holder' = [x \in Mutexes |-> NoCaller] /\ overrun' = {}
    /\ conns' = [p \in Peers |-> {}] /\ streams' = <<>>
    /\ counter' \in {counter, counter + 1}
    /\ UNCHANGED <<seen, refused>>
-----------------------------------------------------------------------------
(* The network: connections come and go, and streams end with them or      *)
(* alone.                                                                  *)
ConnectionMade(p, k) ==
    /\ budget.changes > 0 /\ k \notin conns[p]
    /\ budget' = [budget EXCEPT !.changes = @ - 1]
    /\ conns' = [conns EXCEPT ![p] = @ \cup {k}]
    /\ UNCHANGED <<caller, mutexVars, counter, streams, seen, refused>>

ConnectionLost(p, k) ==
    /\ budget.changes > 0 /\ k \in conns[p]
    /\ budget' = [budget EXCEPT !.changes = @ - 1]
    /\ conns' = [conns EXCEPT ![p] = @ \ {k}]
    /\ streams' = WithoutStreams(Outgoing(p, k))
    /\ UNCHANGED <<caller, mutexVars, counter, seen, refused>>

(* The reader of the receiver: directStreamHandler.  It takes whole        *)
(* messages; pieces that make none end the stream.                         *)
WholeFirst(d) ==
    /\ Len(d) >= 2
    /\ d[1].part = "first" /\ d[2] = [no |-> d[1].no, part |-> "rest"]
Garbled(d) ==
    \/ Len(d) >= 1 /\ d[1].part = "rest"
    \/ Len(d) >= 2 /\ ~WholeFirst(d)

DirectStreamHandler(s) ==
    LET d == streams[s].data
        p == streams[s].peer
    IN /\ \/ /\ Garbled(d)
             /\ streams' = WithoutStreams({s})
             /\ UNCHANGED <<seen, refused>>
          \/ /\ WholeFirst(d)
             /\ streams' = [streams EXCEPT ![s].data = SubSeq(d, 3, Len(d))]
             /\ seen' = [seen EXCEPT ![p] = @ \cup {d[1].no}]
             /\ refused' = refused \cup ({d[1].no} \cap seen[p])
       /\ UNCHANGED <<caller, mutexVars, counter, conns, budget>>

SendStep(c) ==
    \/ Lock(c) \/ GetConnection(c) \/ GetOrCreateStream(c) \/ CreateMessage(c)
    \/ WriteMsg(c) \/ Flush(c) \/ SendReturns(c)

Next ==
    \/ \E c \in Callers : SendStep(c) \/ \E p \in Peers : SendToConnectedPeer(c, p)
    \/ \E p \in Peers, k \in Conns : ConnectionMade(p, k) \/ ConnectionLost(p, k)
    \/ \E s \in DOMAIN streams : DirectStreamHandler(s)
    \/ SendDirectToSelf
    \/ Restart

(* A goroutine in Send is scheduled, and sync.Mutex does not starve a      *)
(* caller that waits for it.                                               *)
Fairness == \A c \in Callers : WF_vars(SendStep(c)) /\ SF_vars(Lock(c))

Spec == Init /\ [][Next]_vars /\ Fairness
-----------------------------------------------------------------------------
TypeOK ==
    /\ \A i \in DOMAIN cache : cache[i] \in [key : Peers, mutex : Mutexes]
    /\ Len(cache) <= MaxMutexes /\ IsInjective(cache)
    /\ holder \in [Mutexes -> Callers \cup {NoCaller}]
    /\ \A c \in Callers :
         caller[c] \in [pc : {"idle", "lock", "conn", "stream", "create", "write",
                             "flush all", "flush rest", "return"},
                       target : Peers \cup {NoPeer}, mutex : Mutexes \cup {0},
                       conn : Conns \cup {0}, stream : Streams \cup {0}, seqno : Nat]
    /\ counter \in Nat /\ conns \in [Peers -> SUBSET Conns]
    /\ \A s \in DOMAIN streams : streams[s].conn \in conns[streams[s].peer]
    /\ seen \in [Peers -> SUBSET (1..counter)] /\ refused \subseteq 1..counter
    /\ overrun \subseteq Peers

(* What is on its way on a stream to p is a row of whole messages and      *)
(* perhaps the beginning of one more, unless the mutex of p was dropped    *)
(* from the cache while a caller was using it (directSender.Send,          *)
(* MutexHolder.Get): two callers never write into each other's message.    *)
StreamsHoldWholeMessages ==
    \A s \in DOMAIN streams :
      streams[s].peer \notin overrun =>
        \A i \in DOMAIN streams[s].data :
          LET d == streams[s].data IN
          IF i % 2 = 1 THEN d[i].part = "first"
          ELSE d[i] = [no |-> d[i - 1].no, part |-> "rest"]

(* The messages on one stream are numbered in the order they were written, *)
(* under the same condition: the number is taken under the mutex.          *)
NumbersIncreaseOnStream ==
    \A s \in DOMAIN streams :
      streams[s].peer \notin overrun =>
        \A i, j \in DOMAIN streams[s].data :
          i < j => streams[s].data[i].no <= streams[s].data[j].no

(* What is on its way to the peers: the cache of mutexes within its limit, *)
(* whole messages, in the order of their numbers.                          *)
StreamInv == TypeOK /\ StreamsHoldWholeMessages /\ NumbersIncreaseOnStream

(* A peer never refuses a message it has not got before: across callers,   *)
(* messages to the node itself and restarts no number is used twice        *)
(* (checkAndSetSeenMessage of the receiver, NextSequenceNumber).           *)
NewMessagesAreNotRefused == refused = {}

(* Every Send returns, whatever becomes of the connection: on each of its  *)
(* paths the mutex is unlocked for the next caller.                        *)
EverySendReturns == \A c \in Callers : ~At(c, "idle") ~> At(c, "idle")
=============================================================================
