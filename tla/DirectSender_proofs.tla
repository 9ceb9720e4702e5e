------------------------- MODULE DirectSender_proofs -------------------------
(***************************************************************************)
(* Direct messages for any number of callers, peers, connections and       *)
(* mutexes: what is written on a stream is whole messages in order as long *)
(* as the mutex of the peer stays in the cache, and no number is used      *)
(* twice, not even after a restart.                                        *)
(***************************************************************************)
EXTENDS DirectSender, FiniteSetTheorems, SequenceTheorems, TLAPS

Places == {"idle", "lock", "conn", "stream", "create", "write", "flush all", "flush rest",
           "return"}
Entries == [key : Peers, mutex : Mutexes]
CallerStates == [pc : Places, target : Peers \cup {NoPeer}, mutex : Mutexes \cup {0},
                 conn : Conns \cup {0}, stream : Streams \cup {0}, seqno : Nat]
Pieces == [no : Nat, part : {"first", "rest"}]
StreamStates == [peer : Peers, conn : Conns, data : Seq(Pieces)]

(* The mutex is held from the lock to the return; the message is in the    *)
(* writer's hands in between.                                              *)
Holding(c) == caller[c].pc \notin {"idle", "lock"}
Writing(c) == caller[c].pc \in {"write", "flush all", "flush rest"}
Unwritten(c) == caller[c].pc \in {"write", "flush all"}

Types ==
    /\ cache \in Seq(Entries) /\ Len(cache) <= MaxMutexes
    /\ holder \in [Mutexes -> Callers \cup {NoCaller}]
    /\ caller \in [Callers -> CallerStates]
    /\ counter \in Nat /\ conns \in [Peers -> SUBSET Conns]
    /\ DOMAIN streams \subseteq Streams
    /\ streams \in [DOMAIN streams -> StreamStates]
    /\ \A s \in DOMAIN streams : streams[s].conn \in conns[streams[s].peer]
    /\ seen \in [Peers -> SUBSET (1..counter)]
    /\ overrun \subseteq Peers

LockInv ==
    \A c \in Callers :
      /\ caller[c].pc = "idle" => caller[c].mutex = 0
      /\ caller[c].pc # "idle" => caller[c].mutex \in Mutexes /\ caller[c].target \in Peers
      /\ Holding(c) => holder[caller[c].mutex] = c

WriterInv ==
    \A c \in Callers :
      /\ caller[c].pc = "idle" => caller[c].stream = 0
      /\ caller[c].stream \in DOMAIN streams
           => streams[caller[c].stream].peer = caller[c].target
      /\ Writing(c) => caller[c].seqno \in 1..counter

(* A caller in Send has the mutex that is in the cache under its peer,     *)
(* unless that one was dropped while it was in use.                        *)
MutexInv ==
    /\ \A i, j \in DOMAIN cache : cache[i].key = cache[j].key => i = j
    /\ \A c \in Callers : caller[c].pc # "idle" /\ caller[c].target \notin overrun =>
         \E i \in DOMAIN cache :
           cache[i].key = caller[c].target /\ cache[i].mutex = caller[c].mutex

(* A row of whole messages, and the beginning of one more exactly when a   *)
(* caller has yet to write the rest of it.                                 *)
Whole(d) ==
    \A i \in DOMAIN d : IF i % 2 = 1 THEN d[i].part = "first"
                        ELSE d[i] = [no |-> d[i - 1].no, part |-> "rest"]
Ordered(d) == \A i, j \in DOMAIN d : i < j => d[i].no <= d[j].no

Row(s, d) ==
    /\ Whole(d) /\ Ordered(d)
    /\ \A c \in Callers : caller[c].stream = s =>
         /\ caller[c].pc = "flush rest" => Len(d) % 2 = 1 /\ d[Len(d)].no = caller[c].seqno
         /\ Writing(c) => \A i \in DOMAIN d : d[i].no <= caller[c].seqno
    /\ Len(d) % 2 = 1 => \E c \in Callers : caller[c].stream = s /\ caller[c].pc = "flush rest"

RowsInv ==
    \A s \in DOMAIN streams : \A d \in Seq(Pieces) :
      d = streams[s].data /\ streams[s].peer \notin overrun => Row(s, d)

(* A number is on one stream at most, once, and not when a peer has        *)
(* already seen it; the number of a message that is not yet written is     *)
(* nowhere.                                                                *)
FirstAt(s, i) == i \in DOMAIN streams[s].data /\ streams[s].data[i].part = "first"
NumbersInv ==
    /\ \A s \in DOMAIN streams : \A i \in DOMAIN streams[s].data :
         streams[s].data[i].no \in 1..counter
    /\ \A s, t \in DOMAIN streams : \A i, j \in Nat :
         FirstAt(s, i) /\ FirstAt(t, j) /\ streams[s].data[i].no = streams[t].data[j].no
           => s = t /\ i = j
    /\ \A s \in DOMAIN streams : \A i \in Nat : FirstAt(s, i) =>
         \A p \in Peers : streams[s].data[i].no \notin seen[p]
    /\ \A c \in Callers : Unwritten(c) =>
         /\ \A s \in DOMAIN streams : \A i \in Nat : FirstAt(s, i) =>
              streams[s].data[i].no # caller[c].seqno
         /\ \A p \in Peers : caller[c].seqno \notin seen[p]
    /\ \A c, e \in Callers : Unwritten(c) /\ Unwritten(e) /\ caller[c].seqno = caller[e].seqno
         => c = e
    /\ refused = {}

IInv == Types /\ LockInv /\ WriterInv /\ MutexInv /\ RowsInv /\ NumbersInv
-----------------------------------------------------------------------------
(* Two callers that hold the mutex of the same peer are one, as long as    *)
(* that mutex has not been dropped.                                        *)
LEMMA OneHolder ==
    ASSUME IInv, NEW c \in Callers, NEW e \in Callers, Holding(c), Holding(e),
           caller[c].target = caller[e].target, caller[c].target \notin overrun
    PROVE  c = e
<1>1. caller[c].pc # "idle" /\ caller[e].pc # "idle"
    BY DEF Holding
<1>2. PICK i \in DOMAIN cache : cache[i].key = caller[c].target /\ cache[i].mutex = caller[c].mutex
    BY <1>1 DEF IInv, MutexInv
<1>3. PICK j \in DOMAIN cache : cache[j].key = caller[e].target /\ cache[j].mutex = caller[e].mutex
    BY <1>1 DEF IInv, MutexInv
<1>4. i = j
    BY <1>2, <1>3 DEF IInv, MutexInv
<1>5. QED
    BY <1>2, <1>3, <1>4 DEF IInv, LockInv

(* So one caller at a time has a message to write on a stream.             *)
LEMMA OneWriter ==
    ASSUME IInv, NEW c \in Callers, NEW e \in Callers, Writing(c), Writing(e),
           caller[c].stream = caller[e].stream, caller[c].stream \in DOMAIN streams,
           streams[caller[c].stream].peer \notin overrun
    PROVE  c = e
<1>1. Holding(c) /\ Holding(e)
    BY DEF Holding, Writing
<1>2. caller[c].target = streams[caller[c].stream].peer /\ caller[e].target = caller[c].target
    BY DEF IInv, WriterInv
<1>3. QED
    BY <1>1, <1>2, OneHolder

(* The empty row.                                                          *)
LEMMA NoPieces == /\ DOMAIN <<>> = {} /\ Len(<<>>) = 0 /\ Len(<<>>) % 2 # 1
                  /\ Whole(<<>>) /\ Ordered(<<>>)
<1>1. DOMAIN <<>> = {} /\ Len(<<>>) = 0
    OBVIOUS
<1>2. QED
    BY <1>1 DEF Whole, Ordered

(* Nothing is written: streams end, or begin empty, and no caller gets a   *)
(* message to write.                                                       *)
StreamsKept ==
    \A s \in DOMAIN streams' :
      \/ /\ s \in DOMAIN streams /\ streams'[s].data = streams[s].data
         /\ streams'[s].peer = streams[s].peer
      \/ streams'[s].data = <<>> /\ \A c \in Callers : caller[c].stream # s
WritersKept ==
    \A c \in Callers :
      /\ Writing(c)' => /\ Writing(c) /\ caller'[c].stream = caller[c].stream
                        /\ caller'[c].seqno = caller[c].seqno
      /\ Unwritten(c)' => Unwritten(c)
      /\ caller'[c].pc = "flush rest" => caller[c].pc = "flush rest"
      /\ caller[c].pc = "flush rest" =>
           \/ caller'[c].pc = "flush rest" /\ caller'[c].stream = caller[c].stream
           \/ caller[c].stream \notin DOMAIN streams'

LEMMA NothingWritten ==
    ASSUME IInv, UNCHANGED <<seen, refused>>, overrun \subseteq overrun',
           counter' \in Nat, counter <= counter', StreamsKept, WritersKept
    PROVE  RowsInv' /\ NumbersInv'
<1>1. RowsInv /\ NumbersInv /\ Types
    BY DEF IInv
<1>2. ASSUME NEW s \in DOMAIN streams', NEW d, Row(s, d)
      PROVE  Row(s, d)'
  <2>1. ASSUME NEW c \in Callers, caller'[c].stream = s, Writing(c)'
        PROVE  /\ Writing(c) /\ caller[c].stream = s /\ caller'[c].seqno = caller[c].seqno
               /\ caller'[c].pc = "flush rest" => caller[c].pc = "flush rest"
      BY <2>1 DEF WritersKept
  <2>2. ASSUME NEW c \in Callers, caller'[c].stream = s
        PROVE  /\ caller'[c].pc = "flush rest" => Len(d) % 2 = 1 /\ d[Len(d)].no = caller'[c].seqno
               /\ Writing(c)' => \A i \in DOMAIN d : d[i].no <= caller'[c].seqno
    <3>1. caller'[c].pc = "flush rest" => Writing(c)'
        BY DEF Writing
    <3>2. QED
        BY <1>2, <2>1, <2>2, <3>1 DEF Row
  <2>3. ASSUME Len(d) % 2 = 1
        PROVE  \E c \in Callers : caller'[c].stream = s /\ caller'[c].pc = "flush rest"
    <3>1. PICK c \in Callers : caller[c].stream = s /\ caller[c].pc = "flush rest"
        BY <1>2, <2>3 DEF Row
    <3>2. QED
        BY <1>2, <3>1 DEF WritersKept
  <2>4. QED
      BY <1>2, <2>2, <2>3 DEF Row, Whole, Ordered
<1>3. ASSUME NEW s \in DOMAIN streams', \A c \in Callers : caller[c].stream # s
      PROVE  Row(s, <<>>)'
  <2>1. \A c \in Callers : caller'[c].stream = s => ~Writing(c)' /\ caller'[c].pc # "flush rest"
      BY <1>3 DEF WritersKept, Writing
  <2>2. QED
      BY <2>1, NoPieces DEF Row, Whole, Ordered
<1>4. RowsInv'
  <2> SUFFICES ASSUME NEW s \in DOMAIN streams', NEW d \in Seq(Pieces), d = streams'[s].data,
                      streams'[s].peer \notin overrun'
               PROVE  Row(s, d)'
      BY DEF RowsInv
  <2>1. CASE /\ s \in DOMAIN streams /\ streams'[s].data = streams[s].data
             /\ streams'[s].peer = streams[s].peer
      BY <1>1, <1>2, <2>1 DEF RowsInv
  <2>2. CASE streams'[s].data = <<>> /\ \A c \in Callers : caller[c].stream # s
      BY <1>3, <2>2
  <2>3. QED
      BY <2>1, <2>2 DEF StreamsKept
<1>5. NumbersInv'
  <2>1. ASSUME NEW s \in DOMAIN streams', NEW i \in DOMAIN streams'[s].data
        PROVE  /\ s \in DOMAIN streams /\ i \in DOMAIN streams[s].data
               /\ streams'[s].data[i] = streams[s].data[i]
      BY <2>1, NoPieces DEF StreamsKept
  <2>2. ASSUME NEW s \in DOMAIN streams', NEW i \in Nat, FirstAt(s, i)'
        PROVE  /\ s \in DOMAIN streams /\ FirstAt(s, i)
               /\ streams'[s].data[i] = streams[s].data[i]
      BY <2>1, <2>2 DEF FirstAt
  <2>3. ASSUME NEW s \in DOMAIN streams', NEW i \in DOMAIN streams'[s].data
        PROVE  streams'[s].data[i].no \in 1..counter'
    <3>1. streams'[s].data[i].no \in 1..counter
        BY <1>1, <2>1, <2>3 DEF NumbersInv
    <3>2. counter \in Nat
        BY <1>1 DEF Types
    <3>3. QED
        BY <3>1, <3>2
  <2>4. ASSUME NEW s \in DOMAIN streams', NEW t \in DOMAIN streams', NEW i \in Nat, NEW j \in Nat,
               FirstAt(s, i)', FirstAt(t, j)', streams'[s].data[i].no = streams'[t].data[j].no
        PROVE  s = t /\ i = j
      BY <1>1, <2>2, <2>4 DEF NumbersInv
  <2>5. ASSUME NEW s \in DOMAIN streams', NEW i \in Nat, FirstAt(s, i)', NEW p \in Peers
        PROVE  streams'[s].data[i].no \notin seen'[p]
      BY <1>1, <2>2, <2>5 DEF NumbersInv
  <2>6. ASSUME NEW c \in Callers, Unwritten(c)'
        PROVE  /\ Unwritten(c) /\ caller'[c].seqno = caller[c].seqno
               /\ \A s \in DOMAIN streams' : \A i \in Nat : FirstAt(s, i)' =>
                    streams'[s].data[i].no # caller'[c].seqno
               /\ \A p \in Peers : caller'[c].seqno \notin seen'[p]
    <3>1. Unwritten(c) /\ caller'[c].seqno = caller[c].seqno
        BY <2>6 DEF Unwritten, Writing, WritersKept
    <3>2. QED
        BY <1>1, <2>2, <3>1 DEF NumbersInv
  <2>7. ASSUME NEW c \in Callers, NEW e \in Callers, Unwritten(c)', Unwritten(e)',
               caller'[c].seqno = caller'[e].seqno
        PROVE  c = e
      BY <1>1, <2>6, <2>7 DEF NumbersInv
  <2>8. QED
      BY <1>1, <2>3, <2>4, <2>5, <2>6, <2>7 DEF NumbersInv
<1>6. QED
    BY <1>4, <1>5
-----------------------------------------------------------------------------
LEMMA IInvInit == Init => IInv
<1> SUFFICES ASSUME Init PROVE IInv
    OBVIOUS
<1>1. /\ DOMAIN cache = {} /\ DOMAIN streams = {}
      /\ cache \in Seq(Entries) /\ Len(cache) = 0
    BY DEF Init
<1>2. \A c \in Callers : caller[c] = IdleCaller
    BY DEF Init, AllIdle
<1>3. IdleCaller \in CallerStates
    BY DEF IdleCaller, CallerStates, Places
<1>4. caller \in [Callers -> CallerStates]
    BY <1>3 DEF Init, AllIdle
<1>5. Types
  <2>1. streams \in [DOMAIN streams -> StreamStates]
      BY <1>1 DEF Init
  <2>2. holder \in [Mutexes -> Callers \cup {NoCaller}]
      BY DEF Init
  <2>3. conns \in [Peers -> SUBSET Conns] /\ seen \in [Peers -> SUBSET (1..counter)]
      BY DEF Init
  <2>4. QED
      BY <1>1, <1>4, <2>1, <2>2, <2>3, SizesAssumption DEF Init, Types
<1>6. \A c \in Callers : ~Holding(c) /\ ~Writing(c) /\ ~Unwritten(c) /\ caller[c].pc = "idle"
                         /\ caller[c].mutex = 0 /\ caller[c].stream = 0
  <2>1. \A c \in Callers : caller[c].pc = "idle" /\ caller[c].mutex = 0 /\ caller[c].stream = 0
      BY <1>2 DEF IdleCaller
  <2>2. QED
      BY <2>1 DEF Holding, Writing, Unwritten
<1>7. LockInv
    BY <1>6 DEF LockInv
<1>8. WriterInv
    BY <1>1, <1>6 DEF WriterInv
<1>9. MutexInv
    BY <1>1, <1>6 DEF MutexInv
<1>10. RowsInv
    BY <1>1 DEF RowsInv
<1>11. NumbersInv
    BY <1>1, <1>6 DEF NumbersInv, Init
<1>12. QED
    BY <1>5, <1>7, <1>8, <1>9, <1>10, <1>11 DEF IInv

(* No caller enters or leaves Send, or gets the mutex: what is known of    *)
(* the mutexes stays.                                                      *)
CallersKept ==
    \A c \in Callers :
      /\ caller'[c].target = caller[c].target /\ caller'[c].mutex = caller[c].mutex
      /\ caller'[c].pc = "idle" <=> caller[c].pc = "idle"
      /\ caller'[c].pc = "lock" <=> caller[c].pc = "lock"

LEMMA MutexesKept ==
    ASSUME IInv, UNCHANGED mutexVars, CallersKept
    PROVE  LockInv' /\ MutexInv'
<1>1. LockInv /\ MutexInv /\ UNCHANGED <<cache, holder, overrun>>
    BY DEF IInv, mutexVars
<1>2. \A c \in Callers : Holding(c)' <=> Holding(c)
    BY DEF Holding, CallersKept
<1>3. LockInv'
    BY <1>1, <1>2 DEF LockInv, CallersKept
<1>4. MutexInv'
  <2>1. \A c \in Callers : caller'[c].pc # "idle" /\ caller'[c].target \notin overrun' =>
          \E i \in DOMAIN cache' :
            cache'[i].key = caller'[c].target /\ cache'[i].mutex = caller'[c].mutex
      BY <1>1 DEF MutexInv, CallersKept
  <2>2. QED
      BY <1>1, <2>1 DEF MutexInv
<1>5. QED
    BY <1>3, <1>4

(* The callers stay where they are.                                        *)
LEMMA CallersUnchanged ==
    ASSUME IInv, UNCHANGED caller
    PROVE  CallersKept /\ WritersKept
BY DEF CallersKept, WritersKept, Writing, Unwritten

(* Streams that are left alone are still those of their callers.           *)
StreamsOnlyEnd ==
    \A s \in DOMAIN streams' : s \in DOMAIN streams /\ streams'[s] = streams[s]

LEMMA FewerStreams ==
    ASSUME StreamsOnlyEnd PROVE StreamsKept
BY DEF StreamsOnlyEnd, StreamsKept

LEMMA WithoutStreamsTypes ==
    ASSUME Types, NEW S, streams' = WithoutStreams(S)
    PROVE  /\ DOMAIN streams' = DOMAIN streams \ S
           /\ DOMAIN streams' \subseteq Streams
           /\ streams' \in [DOMAIN streams' -> StreamStates]
           /\ StreamsOnlyEnd
<1>1. DOMAIN streams' = DOMAIN streams \ S
    BY DEF WithoutStreams
<1>2. \A s \in DOMAIN streams' : streams'[s] = streams[s]
    BY <1>1 DEF WithoutStreams
<1>3. streams' \in [DOMAIN streams' -> StreamStates]
    BY <1>1, <1>2 DEF WithoutStreams, Types
<1>4. QED
    BY <1>1, <1>2, <1>3 DEF StreamsOnlyEnd, Types

(* Callers keep their stream, and get no message to write.                 *)
SameStreams == \A c \in Callers : caller'[c].stream = caller[c].stream

LEMMA WritersStay ==
    ASSUME IInv, StreamsOnlyEnd, CallersKept, WritersKept, SameStreams,
           counter' \in Nat, counter <= counter'
    PROVE  WriterInv'
<1>1. WriterInv /\ Types
    BY DEF IInv
<1>2. ASSUME NEW c \in Callers
      PROVE  /\ caller'[c].pc = "idle" => caller'[c].stream = 0
             /\ caller'[c].stream \in DOMAIN streams'
                  => streams'[caller'[c].stream].peer = caller'[c].target
  <2>1. caller'[c].stream = caller[c].stream /\ caller'[c].target = caller[c].target
        /\ (caller'[c].pc = "idle" => caller[c].pc = "idle")
      BY DEF CallersKept, SameStreams
  <2>2. QED
      BY <1>1, <2>1 DEF WriterInv, StreamsOnlyEnd
<1>3. ASSUME NEW c \in Callers, Writing(c)'
      PROVE  caller'[c].seqno \in 1..counter'
  <2>1. Writing(c) /\ caller'[c].seqno = caller[c].seqno
      BY <1>3 DEF WritersKept
  <2>2. caller[c].seqno \in 1..counter /\ counter \in Nat
      BY <1>1, <2>1 DEF WriterInv, Types
  <2>3. QED
      BY <2>1, <2>2
<1>4. QED
    BY <1>2, <1>3 DEF WriterInv

(* A step of one caller that only goes to another place.                   *)
LEMMA GotoFacts ==
    ASSUME Types, NEW c \in Callers, NEW place \in Places, Goto(c, place)
    PROVE  /\ caller' \in [Callers -> CallerStates]
           /\ \A e \in Callers : e # c => caller'[e] = caller[e]
           /\ caller'[c].pc = place
           /\ caller'[c].target = caller[c].target /\ caller'[c].mutex = caller[c].mutex
           /\ caller'[c].conn = caller[c].conn /\ caller'[c].stream = caller[c].stream
           /\ caller'[c].seqno = caller[c].seqno
<1>1. caller \in [Callers -> CallerStates] /\ caller' = [caller EXCEPT ![c].pc = place]
    BY DEF Types, Goto
<1>2. caller[c] \in CallerStates
    BY <1>1
<1>3. caller'[c] = [caller[c] EXCEPT !.pc = place]
    BY <1>1
<1>4. caller'[c] \in CallerStates
    BY <1>2, <1>3 DEF CallerStates
<1>5. \A e \in Callers : e # c => caller'[e] = caller[e]
    BY <1>1
<1>6. caller' \in [Callers -> CallerStates]
    BY <1>1, <1>4, <1>5
<1>7. QED
    BY <1>2, <1>3, <1>5, <1>6 DEF CallerStates
-----------------------------------------------------------------------------
LEMMA SendDirectToSelfInv == IInv /\ SendDirectToSelf => IInv'
<1> SUFFICES ASSUME IInv, SendDirectToSelf PROVE IInv'
    OBVIOUS
<1>1. /\ counter' = counter + 1 /\ counter \in Nat
      /\ UNCHANGED <<caller, mutexVars, conns, streams, seen, refused>>
    BY DEF SendDirectToSelf, NextSequenceNumber, IInv, Types, netVars
<1>2. counter' \in Nat /\ counter <= counter'
    BY <1>1
<1>3. Types'
  <2>1. seen' \in [Peers -> SUBSET (1..counter')]
    <3>1. 1..counter \subseteq 1..counter'
        BY <1>1
    <3>2. QED
        BY <1>1, <3>1 DEF IInv, Types
  <2>2. QED
      BY <1>1, <1>2, <2>1 DEF IInv, Types, mutexVars
<1>4. CallersKept /\ WritersKept
    BY <1>1, CallersUnchanged
<1>5. StreamsOnlyEnd /\ SameStreams
    BY <1>1 DEF StreamsOnlyEnd, SameStreams
<1>6. overrun \subseteq overrun'
    BY <1>1 DEF mutexVars
<1>7. LockInv' /\ MutexInv'
    BY <1>1, <1>4, MutexesKept
<1>8. WriterInv'
    BY <1>2, <1>4, <1>5, WritersStay
<1>9. RowsInv' /\ NumbersInv'
    BY <1>1, <1>2, <1>4, <1>5, <1>6, FewerStreams, NothingWritten
<1>10. QED
    BY <1>3, <1>7, <1>8, <1>9 DEF IInv

LEMMA ConnectionMadeInv ==
    ASSUME IInv, NEW p \in Peers, NEW k \in Conns, ConnectionMade(p, k)
    PROVE  IInv'
<1>1. /\ counter \in Nat /\ conns' = [conns EXCEPT ![p] = @ \cup {k}]
      /\ UNCHANGED <<caller, mutexVars, counter, streams, seen, refused>>
    BY DEF ConnectionMade, IInv, Types
<1>2. counter' \in Nat /\ counter <= counter'
    BY <1>1
<1>3. Types'
  <2>1. /\ conns' \in [Peers -> SUBSET Conns] /\ \A q \in Peers : conns[q] \subseteq conns'[q]
      BY <1>1 DEF IInv, Types
  <2>2. \A s \in DOMAIN streams' : streams'[s].conn \in conns'[streams'[s].peer]
    <3>1. \A s \in DOMAIN streams : streams[s].peer \in Peers
        BY DEF IInv, Types, StreamStates
    <3>2. QED
        BY <1>1, <2>1, <3>1 DEF IInv, Types
  <2>3. QED
      BY <1>1, <2>1, <2>2 DEF IInv, Types, mutexVars
<1>4. CallersKept /\ WritersKept
    BY <1>1, CallersUnchanged
<1>5. StreamsOnlyEnd /\ SameStreams
    BY <1>1 DEF StreamsOnlyEnd, SameStreams
<1>6. overrun \subseteq overrun'
    BY <1>1 DEF mutexVars
<1>7. LockInv' /\ MutexInv'
    BY <1>1, <1>4, MutexesKept
<1>8. WriterInv'
    BY <1>2, <1>4, <1>5, WritersStay
<1>9. RowsInv' /\ NumbersInv'
    BY <1>1, <1>2, <1>4, <1>5, <1>6, FewerStreams, NothingWritten
<1>10. QED
    BY <1>3, <1>7, <1>8, <1>9 DEF IInv

LEMMA ConnectionLostInv ==
    ASSUME IInv, NEW p \in Peers, NEW k \in Conns, ConnectionLost(p, k)
    PROVE  IInv'
<1>1. /\ counter \in Nat /\ conns' = [conns EXCEPT ![p] = @ \ {k}]
      /\ streams' = WithoutStreams(Outgoing(p, k))
      /\ UNCHANGED <<caller, mutexVars, counter, seen, refused>>
    BY DEF ConnectionLost, IInv, Types
<1>2. counter' \in Nat /\ counter <= counter'
    BY <1>1
<1>3. /\ DOMAIN streams' = DOMAIN streams \ Outgoing(p, k)
      /\ DOMAIN streams' \subseteq Streams
      /\ streams' \in [DOMAIN streams' -> StreamStates]
      /\ StreamsOnlyEnd
    BY <1>1, WithoutStreamsTypes DEF IInv
<1>4. Types'
  <2>1. /\ conns' \in [Peers -> SUBSET Conns]
        /\ \A q \in Peers : conns'[q] = IF q = p THEN conns[q] \ {k} ELSE conns[q]
      BY <1>1 DEF IInv, Types
  <2>2. \A s \in DOMAIN streams' : streams'[s].conn \in conns'[streams'[s].peer]
    <3>1. \A s \in DOMAIN streams : streams[s].peer \in Peers
        BY DEF IInv, Types, StreamStates
    <3>2. \A s \in DOMAIN streams' : /\ s \in DOMAIN streams /\ streams'[s] = streams[s]
                                     /\ ~(streams[s].peer = p /\ streams[s].conn = k)
        BY <1>3 DEF StreamsOnlyEnd, Outgoing
    <3>3. QED
        BY <2>1, <3>1, <3>2 DEF IInv, Types
  <2>3. QED
      BY <1>1, <1>3, <2>1, <2>2 DEF IInv, Types, mutexVars
<1>5. CallersKept /\ WritersKept
    BY <1>1, CallersUnchanged
<1>6. SameStreams /\ overrun \subseteq overrun'
    BY <1>1 DEF SameStreams, mutexVars
<1>7. LockInv' /\ MutexInv'
    BY <1>1, <1>5, MutexesKept
<1>8. WriterInv'
    BY <1>2, <1>3, <1>5, <1>6, WritersStay
<1>9. RowsInv' /\ NumbersInv'
    BY <1>1, <1>2, <1>3, <1>5, <1>6, FewerStreams, NothingWritten
<1>10. QED
    BY <1>4, <1>7, <1>8, <1>9 DEF IInv

(* After a restart nothing is on its way and nobody is in Send; the        *)
(* numbers go on after those the peers have seen.                          *)
LEMMA RestartInv == IInv /\ Restart => IInv'
<1> SUFFICES ASSUME IInv, Restart PROVE IInv'
    OBVIOUS
<1>1. counter \in Nat /\ counter' \in Nat /\ counter <= counter'
    BY DEF Restart, IInv, Types
<1>2. DOMAIN cache' = {} /\ DOMAIN streams' = {} /\ cache' \in Seq(Entries) /\ Len(cache') = 0
    BY DEF Restart
<1>3. \A c \in Callers : caller'[c] = IdleCaller
    BY DEF Restart, AllIdle
<1>4. IdleCaller \in CallerStates
    BY DEF IdleCaller, CallerStates, Places
<1>5. Types'
  <2>1. caller' \in [Callers -> CallerStates]
      BY <1>4 DEF Restart, AllIdle
  <2>2. streams' \in [DOMAIN streams' -> StreamStates]
      BY <1>2 DEF Restart
  <2>3. holder' \in [Mutexes -> Callers \cup {NoCaller}] /\ conns' \in [Peers -> SUBSET Conns]
      BY DEF Restart
  <2>4. seen' \in [Peers -> SUBSET (1..counter')]
    <3>1. 1..counter \subseteq 1..counter'
        BY <1>1
    <3>2. QED
        BY <3>1 DEF Restart, IInv, Types
  <2>5. overrun' \subseteq Peers /\ 0 <= MaxMutexes
      BY SizesAssumption DEF Restart
  <2>6. QED
      BY <1>1, <1>2, <2>1, <2>2, <2>3, <2>4, <2>5 DEF Types
<1>6. \A c \in Callers : ~Holding(c)' /\ ~Writing(c)' /\ ~Unwritten(c)' /\ caller'[c].pc = "idle"
                         /\ caller'[c].mutex = 0 /\ caller'[c].stream = 0
  <2>1. \A c \in Callers : caller'[c].pc = "idle" /\ caller'[c].mutex = 0 /\ caller'[c].stream = 0
      BY <1>3 DEF IdleCaller
  <2>2. QED
      BY <2>1 DEF Holding, Writing, Unwritten
<1>7. LockInv'
    BY <1>6 DEF LockInv
<1>8. WriterInv'
    BY <1>2, <1>6 DEF WriterInv
<1>9. MutexInv'
    BY <1>2, <1>6 DEF MutexInv
<1>10. RowsInv'
    BY <1>2 DEF RowsInv
<1>11. refused' = {}
    BY DEF IInv, NumbersInv, Restart
<1>12. NumbersInv'
    BY <1>2, <1>6, <1>11 DEF NumbersInv
<1>13. QED
    BY <1>5, <1>7, <1>8, <1>9, <1>10, <1>12 DEF IInv
-----------------------------------------------------------------------------
(* A caller on its way through Send that writes nothing and keeps its      *)
(* stream.                                                                 *)
LEMMA QuietStep ==
    ASSUME IInv, NEW c \in Callers, UNCHANGED <<mutexVars, counter, netVars, budget>>,
           caller' \in [Callers -> CallerStates],
           \A e \in Callers : e # c => caller'[e] = caller[e],
           caller[c].pc \in {"conn", "stream"}, caller'[c].pc \in {"stream", "return"},
           caller'[c].target = caller[c].target, caller'[c].mutex = caller[c].mutex,
           caller'[c].stream = caller[c].stream
    PROVE  IInv'
<1>1. counter' \in Nat /\ counter <= counter'
    BY DEF IInv, Types
<1>2. Types'
    BY DEF IInv, Types, mutexVars, netVars
<1>3. CallersKept
    BY DEF CallersKept
<1>4. WritersKept
    BY DEF WritersKept, Writing, Unwritten
<1>5. SameStreams /\ StreamsOnlyEnd
    BY DEF SameStreams, StreamsOnlyEnd, netVars
<1>6. LockInv' /\ MutexInv'
    BY <1>3, MutexesKept
<1>7. WriterInv'
    BY <1>1, <1>3, <1>4, <1>5, WritersStay
<1>8. RowsInv' /\ NumbersInv'
  <2>1. UNCHANGED <<seen, refused>> /\ overrun \subseteq overrun'
      BY DEF netVars, mutexVars
  <2>2. QED
      BY <1>1, <1>4, <1>5, <2>1, FewerStreams, NothingWritten
<1>9. QED
    BY <1>2, <1>6, <1>7, <1>8 DEF IInv

LEMMA GetConnectionInv ==
    ASSUME IInv, NEW c \in Callers, GetConnection(c)
    PROVE  IInv'
<1>1. Types /\ caller[c].pc = "conn" /\ UNCHANGED <<mutexVars, counter, netVars, budget>>
    BY DEF GetConnection, At, IInv
<1>2. CASE Goto(c, "return")
    BY <1>1, <1>2, GotoFacts, QuietStep DEF Places
<1>3. ASSUME NEW k \in conns[caller[c].target],
             caller' = [caller EXCEPT ![c].pc = "stream", ![c].conn = k]
      PROVE  IInv'
  <2>1. k \in Conns
    <3>1. caller[c].target \in Peers
        BY <1>1 DEF IInv, LockInv
    <3>2. QED
        BY <3>1 DEF IInv, Types
  <2>2. caller \in [Callers -> CallerStates] /\ caller[c] \in CallerStates
      BY <1>1 DEF Types
  <2>3. caller'[c] = [caller[c] EXCEPT !.pc = "stream", !.conn = k]
      BY <1>3, <2>2
  <2>4. /\ caller'[c] \in CallerStates /\ caller'[c].pc = "stream"
        /\ caller'[c].target = caller[c].target /\ caller'[c].mutex = caller[c].mutex
        /\ caller'[c].stream = caller[c].stream
      BY <2>1, <2>2, <2>3 DEF CallerStates, Places
  <2>5. \A e \in Callers : e # c => caller'[e] = caller[e]
      BY <1>3, <2>2
  <2>6. caller' \in [Callers -> CallerStates]
      BY <1>3, <2>2, <2>4, <2>5
  <2>7. QED
      BY <1>1, <2>4, <2>5, <2>6, QuietStep
<1>4. QED
    BY <1>2, <1>3 DEF GetConnection

(* Send returns: the mutex is free again.                                  *)
LEMMA SendReturnsInv ==
    ASSUME IInv, NEW c \in Callers, SendReturns(c)
    PROVE  IInv'
<1>1. /\ Types /\ caller[c].pc = "return" /\ caller' = [caller EXCEPT ![c] = IdleCaller]
      /\ holder' = [holder EXCEPT ![caller[c].mutex] = NoCaller]
      /\ UNCHANGED <<cache, overrun, counter, conns, streams, seen, refused>>
    BY DEF SendReturns, At, IInv, netVars
<1>2. IdleCaller \in CallerStates
    BY DEF IdleCaller, CallerStates, Places
<1>3. /\ caller' \in [Callers -> CallerStates] /\ caller'[c] = IdleCaller
      /\ \A e \in Callers : e # c => caller'[e] = caller[e]
    BY <1>1, <1>2 DEF Types
<1>4. caller'[c].pc = "idle" /\ caller'[c].mutex = 0 /\ caller'[c].stream = 0
    BY <1>3 DEF IdleCaller
<1>5. caller[c].mutex \in Mutexes /\ holder[caller[c].mutex] = c /\ caller[c].target \in Peers
    BY <1>1 DEF IInv, LockInv, Holding
<1>6. Types'
  <2>1. holder' \in [Mutexes -> Callers \cup {NoCaller}]
      BY <1>1 DEF Types
  <2>2. QED
      BY <1>1, <1>3, <2>1 DEF Types
<1>7. LockInv'
  <2> SUFFICES ASSUME NEW e \in Callers
               PROVE  /\ caller'[e].pc = "idle" => caller'[e].mutex = 0
                      /\ caller'[e].pc # "idle" => caller'[e].mutex \in Mutexes /\ caller'[e].target \in Peers
                      /\ Holding(e)' => holder'[caller'[e].mutex] = e
      BY DEF LockInv
  <2>1. CASE e = c
      BY <1>4, <2>1 DEF Holding
  <2>2. CASE e # c
    <3>1. caller'[e] = caller[e] /\ (Holding(e)' <=> Holding(e))
        BY <1>3, <2>2 DEF Holding
    <3>2. Holding(e) => holder[caller[e].mutex] = e /\ caller[e].mutex \in Mutexes
        BY DEF IInv, LockInv, Holding
    <3>3. Holding(e) => holder'[caller[e].mutex] = e
        BY <1>1, <1>5, <2>2, <3>2 DEF Types
    <3>4. QED
        BY <3>1, <3>3 DEF IInv, LockInv
  <2>3. QED
      BY <2>1, <2>2
<1>8. WriterInv'
  <2> SUFFICES ASSUME NEW e \in Callers
               PROVE  /\ caller'[e].pc = "idle" => caller'[e].stream = 0
                      /\ caller'[e].stream \in DOMAIN streams'
                            => streams'[caller'[e].stream].peer = caller'[e].target
                      /\ Writing(e)' => caller'[e].seqno \in 1..counter'
      BY DEF WriterInv
  <2>1. CASE e = c
    <3>1. 0 \notin DOMAIN streams'
        BY <1>1 DEF Types, Streams
    <3>2. ~Writing(e)' /\ caller'[e].stream = 0
        BY <1>4, <2>1 DEF Writing
    <3>3. QED
        BY <3>1, <3>2
  <2>2. CASE e # c
    <3>1. caller'[e] = caller[e] /\ (Writing(e)' <=> Writing(e))
        BY <1>3, <2>2 DEF Writing
    <3>2. QED
        BY <1>1, <3>1 DEF IInv, WriterInv
  <2>3. QED
      BY <2>1, <2>2
<1>9. MutexInv'
  <2>1. \A e \in Callers : caller'[e].pc # "idle" => caller'[e] = caller[e]
      BY <1>3, <1>4
  <2>2. QED
      BY <1>1, <2>1 DEF IInv, MutexInv
<1>10. RowsInv' /\ NumbersInv'
  <2>1. WritersKept
    <3>1. \A e \in Callers : e # c => caller'[e] = caller[e]
        BY <1>3
    <3>2. QED
        BY <1>1, <1>4, <3>1 DEF WritersKept, Writing, Unwritten
  <2>2. StreamsOnlyEnd /\ overrun \subseteq overrun' /\ counter' \in Nat /\ counter <= counter'
      BY <1>1 DEF StreamsOnlyEnd, Types
  <2>3. QED
      BY <1>1, <2>1, <2>2, FewerStreams, NothingWritten
<1>11. QED
    BY <1>6, <1>7, <1>8, <1>9, <1>10 DEF IInv

LEMMA LockStepInv ==
    ASSUME IInv, NEW c \in Callers, Lock(c)
    PROVE  IInv'
<1>1. /\ Types /\ caller[c].pc = "lock" /\ holder[caller[c].mutex] = NoCaller
      /\ holder' = [holder EXCEPT ![caller[c].mutex] = c] /\ Goto(c, "conn")
      /\ UNCHANGED <<cache, overrun, counter, conns, streams, seen, refused>>
    BY DEF Lock, At, IInv, netVars
<1>2. /\ caller' \in [Callers -> CallerStates]
      /\ \A e \in Callers : e # c => caller'[e] = caller[e]
      /\ caller'[c].pc = "conn"
      /\ caller'[c].target = caller[c].target /\ caller'[c].mutex = caller[c].mutex
      /\ caller'[c].stream = caller[c].stream
    BY <1>1, GotoFacts DEF Places
<1>3. caller[c].mutex \in Mutexes /\ caller[c].target \in Peers
    BY <1>1 DEF IInv, LockInv
<1>4. Types'
  <2>1. holder' \in [Mutexes -> Callers \cup {NoCaller}]
      BY <1>1 DEF Types
  <2>2. QED
      BY <1>1, <1>2, <2>1 DEF Types
<1>5. LockInv'
  <2> SUFFICES ASSUME NEW e \in Callers
               PROVE  /\ caller'[e].pc = "idle" => caller'[e].mutex = 0
                      /\ caller'[e].pc # "idle" => caller'[e].mutex \in Mutexes /\ caller'[e].target \in Peers
                      /\ Holding(e)' => holder'[caller'[e].mutex] = e
      BY DEF LockInv
  <2>1. CASE e = c
    <3>1. holder'[caller[c].mutex] = c
        BY <1>1, <1>3 DEF Types
    <3>2. QED
        BY <1>2, <1>3, <2>1, <3>1
  <2>2. CASE e # c
    <3>1. caller'[e] = caller[e] /\ (Holding(e)' <=> Holding(e))
        BY <1>2, <2>2 DEF Holding
    <3>2. Holding(e) => holder[caller[e].mutex] = e /\ caller[e].mutex \in Mutexes
        BY DEF IInv, LockInv, Holding
    <3>3. Holding(e) => caller[e].mutex # caller[c].mutex
        BY <1>1, <3>2, SizesAssumption
    <3>4. Holding(e) => holder'[caller[e].mutex] = e
        BY <1>1, <3>2, <3>3 DEF Types
    <3>5. QED
        BY <3>1, <3>4 DEF IInv, LockInv
  <2>3. QED
      BY <2>1, <2>2
<1>7. WriterInv'
  <2> SUFFICES ASSUME NEW e \in Callers
               PROVE  /\ caller'[e].pc = "idle" => caller'[e].stream = 0
                      /\ caller'[e].stream \in DOMAIN streams'
                            => streams'[caller'[e].stream].peer = caller'[e].target
                      /\ Writing(e)' => caller'[e].seqno \in 1..counter'
      BY DEF WriterInv
  <2>1. CASE e = c
    <3>1. ~Writing(e)'
        BY <1>2, <2>1 DEF Writing
    <3>2. QED
        BY <1>1, <1>2, <2>1, <3>1 DEF IInv, WriterInv
  <2>2. CASE e # c
    <3>1. caller'[e] = caller[e] /\ (Writing(e)' <=> Writing(e))
        BY <1>2, <2>2 DEF Writing
    <3>2. QED
        BY <1>1, <3>1 DEF IInv, WriterInv
  <2>3. QED
      BY <2>1, <2>2
<1>8. MutexInv'
  <2>1. \A e \in Callers : /\ caller'[e].target = caller[e].target
                           /\ caller'[e].mutex = caller[e].mutex
                           /\ caller'[e].pc # "idle" => caller[e].pc # "idle"
      BY <1>1, <1>2
  <2>2. QED
      BY <1>1, <2>1 DEF IInv, MutexInv
<1>9. RowsInv' /\ NumbersInv'
  <2>1. WritersKept
    <3>1. \A e \in Callers : e # c => caller'[e] = caller[e]
        BY <1>2
    <3>2. QED
        BY <1>1, <1>2, <3>1 DEF WritersKept, Writing, Unwritten
  <2>2. StreamsOnlyEnd /\ overrun \subseteq overrun' /\ counter' \in Nat /\ counter <= counter'
      BY <1>1 DEF StreamsOnlyEnd, Types
  <2>3. QED
      BY <1>1, <2>1, <2>2, FewerStreams, NothingWritten
<1>10. QED
    BY <1>4, <1>5, <1>7, <1>8, <1>9 DEF IInv

(* A step of one caller that gets a stream.                                *)
LEMMA UseStreamFacts ==
    ASSUME Types, NEW c \in Callers, NEW s \in Streams, UseStream(c, s)
    PROVE  /\ caller' \in [Callers -> CallerStates]
           /\ \A e \in Callers : e # c => caller'[e] = caller[e]
           /\ caller'[c].pc = "create" /\ caller'[c].stream = s
           /\ caller'[c].target = caller[c].target /\ caller'[c].mutex = caller[c].mutex
<1>1. /\ caller \in [Callers -> CallerStates]
      /\ caller' = [caller EXCEPT ![c].pc = "create", ![c].stream = s]
    BY DEF Types, UseStream
<1>2. caller[c] \in CallerStates
    BY <1>1
<1>3. caller'[c] = [caller[c] EXCEPT !.pc = "create", !.stream = s]
    BY <1>1
<1>4. /\ caller'[c] \in CallerStates /\ caller'[c].pc = "create" /\ caller'[c].stream = s
      /\ caller'[c].target = caller[c].target /\ caller'[c].mutex = caller[c].mutex
    BY <1>2, <1>3 DEF CallerStates, Places
<1>5. \A e \in Callers : e # c => caller'[e] = caller[e]
    BY <1>1
<1>6. caller' \in [Callers -> CallerStates]
    BY <1>1, <1>4, <1>5
<1>7. QED
    BY <1>4, <1>5, <1>6

(* The stream a caller gets leads to its peer: an open one, or a new one   *)
(* that nobody has used.                                                   *)
LEMMA StreamTaken ==
    ASSUME IInv, NEW c \in Callers, NEW s \in Streams, caller[c].pc = "stream", UseStream(c, s),
           UNCHANGED <<mutexVars, counter, seen, refused>>, Types',
           StreamsKept, s \in DOMAIN streams', streams'[s].peer = caller[c].target,
           \A t \in DOMAIN streams : t # s => t \in DOMAIN streams',
           \A e \in Callers : caller[e].stream = s => s \in DOMAIN streams
    PROVE  IInv'
<1>1. /\ caller' \in [Callers -> CallerStates]
      /\ \A e \in Callers : e # c => caller'[e] = caller[e]
      /\ caller'[c].pc = "create" /\ caller'[c].stream = s
      /\ caller'[c].target = caller[c].target /\ caller'[c].mutex = caller[c].mutex
    BY UseStreamFacts DEF IInv
<1>2. CallersKept
    BY <1>1 DEF CallersKept
<1>3. WritersKept
    BY <1>1 DEF WritersKept, Writing, Unwritten
<1>4. LockInv' /\ MutexInv'
    BY <1>2, MutexesKept
<1>5. WriterInv'
  <2> SUFFICES ASSUME NEW e \in Callers
               PROVE  /\ caller'[e].pc = "idle" => caller'[e].stream = 0
                      /\ caller'[e].stream \in DOMAIN streams'
                            => streams'[caller'[e].stream].peer = caller'[e].target
                      /\ Writing(e)' => caller'[e].seqno \in 1..counter'
      BY DEF WriterInv
  <2>1. CASE e = c
      BY <1>1, <2>1 DEF Writing
  <2>2. CASE e # c
    <3>1. caller'[e] = caller[e] /\ (Writing(e)' <=> Writing(e))
        BY <1>1, <2>2 DEF Writing
    <3>2. caller[e].stream \in DOMAIN streams' =>
            /\ caller[e].stream \in DOMAIN streams
            /\ streams'[caller[e].stream].peer = streams[caller[e].stream].peer
        BY DEF StreamsKept
    <3>3. QED
        BY <3>1, <3>2 DEF IInv, WriterInv
  <2>3. QED
      BY <2>1, <2>2
<1>6. RowsInv' /\ NumbersInv'
  <2>1. counter' \in Nat /\ counter <= counter' /\ overrun \subseteq overrun'
      BY DEF IInv, Types, mutexVars
  <2>2. QED
      BY <1>3, <2>1, NothingWritten
<1>7. QED
    BY <1>4, <1>5, <1>6 DEF IInv

LEMMA GetOrCreateStreamInv ==
    ASSUME IInv, NEW c \in Callers, GetOrCreateStream(c)
    PROVE  IInv'
<1>1. Types /\ caller[c].pc = "stream" /\ UNCHANGED <<mutexVars, counter, seen, refused, budget>>
    BY DEF GetOrCreateStream, At, IInv
<1> DEFINE p == caller[c].target
<1>2. p \in Peers
    BY <1>1 DEF IInv, LockInv
<1>3. ASSUME NEW s \in Outgoing(p, caller[c].conn), UseStream(c, s), UNCHANGED <<conns, streams>>
      PROVE  IInv'
  <2>1. s \in DOMAIN streams /\ s \in Streams /\ streams[s].peer = p
      BY <1>1 DEF Outgoing, Types
  <2>2. StreamsKept
      BY <1>3 DEF StreamsKept
  <2>3. caller' \in [Callers -> CallerStates]
      BY <1>1, <1>3, <2>1, UseStreamFacts
  <2>4. Types'
      BY <1>1, <1>3, <2>3 DEF Types, mutexVars
  <2>5. QED
      BY <1>1, <1>3, <2>1, <2>2, <2>4, StreamTaken
<1>4. ASSUME Unused # {}, NEW s, s = CHOOSE u \in Unused : TRUE,
             NEW k \in IF conns[p] = {} THEN Conns ELSE conns[p],
             conns' = [conns EXCEPT ![p] = @ \cup {k}],
             streams' = WithStream(s, [peer |-> p, conn |-> k, data |-> <<>>]),
             UseStream(c, s)
      PROVE  IInv'
  <2>1. s \in Unused
      BY <1>4
  <2>2. s \in Streams /\ s \notin DOMAIN streams /\ \A e \in Callers : caller[e].stream # s
      BY <2>1 DEF Unused
  <2>3. k \in Conns /\ conns \in [Peers -> SUBSET Conns]
      BY <1>1, <1>2 DEF Types
  <2> DEFINE new == [peer |-> p, conn |-> k, data |-> <<>>]
  <2>4. /\ DOMAIN streams' = DOMAIN streams \cup {s} /\ streams'[s] = new
        /\ \A t \in DOMAIN streams : streams'[t] = streams[t]
        /\ streams' = [t \in DOMAIN streams' |-> streams'[t]]
    BY <1>4, <2>2 DEF WithStream
  <2>5. new \in StreamStates /\ new.peer = p /\ new.conn = k /\ new.data = <<>>
      BY <1>2, <2>3 DEF StreamStates
  <2>6. conns' \in [Peers -> SUBSET Conns] /\ k \in conns'[p] /\ \A q \in Peers : conns[q] \subseteq conns'[q]
      BY <1>2, <1>4, <2>3
  <2> HIDE DEF new
  <2>7. caller' \in [Callers -> CallerStates]
      BY <1>1, <1>4, <2>2, UseStreamFacts
  <2>8. Types'
    <3>1. streams' \in [DOMAIN streams' -> StreamStates] /\ DOMAIN streams' \subseteq Streams
        BY <1>1, <2>2, <2>4, <2>5 DEF Types
    <3>2. \A t \in DOMAIN streams' : streams'[t].conn \in conns'[streams'[t].peer]
      <4>1. \A t \in DOMAIN streams : streams[t].peer \in Peers
          BY <1>1 DEF Types, StreamStates
      <4>2. QED
          BY <1>1, <2>4, <2>5, <2>6, <4>1 DEF Types
    <3>3. QED
        BY <1>1, <2>6, <2>7, <3>1, <3>2 DEF Types, mutexVars
  <2>9. StreamsKept
      BY <2>2, <2>4, <2>5 DEF StreamsKept
  <2>10. /\ s \in DOMAIN streams' /\ streams'[s].peer = caller[c].target
         /\ \A t \in DOMAIN streams : t \in DOMAIN streams'
      BY <2>4, <2>5
  <2>11. UNCHANGED <<mutexVars, counter, seen, refused>> /\ caller[c].pc = "stream"
         /\ UseStream(c, s)
      BY <1>1, <1>4
  <2>12. QED
      BY ONLY IInv, c \in Callers, <2>2, <2>8, <2>9, <2>10, <2>11, StreamTaken
<1>5. CASE Goto(c, "return") /\ UNCHANGED <<conns, streams>>
    BY <1>1, <1>5, GotoFacts, QuietStep DEF Places, netVars
<1>6. QED
    BY <1>3, <1>4, <1>5 DEF GetOrCreateStream, NewStream

(* The number a message gets is larger than every number there is.         *)
LEMMA CreateMessageInv ==
    ASSUME IInv, NEW c \in Callers, CreateMessage(c)
    PROVE  IInv'
<1>1. /\ Types /\ caller[c].pc = "create" /\ counter' = counter + 1
      /\ UNCHANGED <<mutexVars, conns, streams, seen, refused>>
    BY DEF CreateMessage, At, IInv, netVars, NextSequenceNumber
<1>2. PICK place \in {"write", "return"} :
        caller' = [caller EXCEPT ![c].pc = place, ![c].seqno = counter + 1]
    BY DEF CreateMessage, NextSequenceNumber
<1>3. caller \in [Callers -> CallerStates] /\ caller[c] \in CallerStates /\ counter \in Nat
    BY <1>1 DEF Types
<1>4. caller'[c] = [caller[c] EXCEPT !.pc = place, !.seqno = counter + 1]
    BY <1>2, <1>3
<1>5. /\ caller'[c] \in CallerStates /\ caller'[c].pc = place /\ caller'[c].seqno = counter + 1
      /\ caller'[c].target = caller[c].target /\ caller'[c].mutex = caller[c].mutex
      /\ caller'[c].stream = caller[c].stream
  <2>1. place \in Places
      BY ONLY place \in {"write", "return"} DEF Places
  <2> counter + 1 \in Nat
      BY <1>3
  <2>2. QED
      BY <1>3, <1>4, <2>1 DEF CallerStates
<1>6. \A e \in Callers : e # c => caller'[e] = caller[e]
    BY <1>2, <1>3
<1>7. caller' \in [Callers -> CallerStates]
  <2>1. caller' = [e \in Callers |-> caller'[e]]
      BY <1>2, <1>3
  <2>2. \A e \in Callers : caller'[e] \in CallerStates
      BY <1>3, <1>5, <1>6
  <2>3. QED
      BY <2>1, <2>2
<1>8. Types'
  <2>1. seen' \in [Peers -> SUBSET (1..counter')] /\ counter' \in Nat
    <3>1. 1..counter \subseteq 1..counter' /\ counter' \in Nat
        BY <1>1, <1>3
    <3>2. QED
        BY <1>1, <3>1 DEF Types
  <2>2. QED
      BY <1>1, <1>7, <2>1 DEF Types, mutexVars
<1>9. CallersKept
    BY <1>1, <1>5, <1>6 DEF CallersKept
<1>10. LockInv' /\ MutexInv'
    BY <1>1, <1>9, MutexesKept
<1>11. \A e \in Callers : e # c => (Writing(e)' <=> Writing(e)) /\ (Unwritten(e)' <=> Unwritten(e))
    BY <1>6 DEF Writing, Unwritten
<1>12. ~Writing(c) /\ ~Unwritten(c)
    BY <1>1 DEF Writing, Unwritten
<1>13. WriterInv'
  <2> SUFFICES ASSUME NEW e \in Callers
               PROVE  /\ caller'[e].pc = "idle" => caller'[e].stream = 0
                      /\ caller'[e].stream \in DOMAIN streams'
                            => streams'[caller'[e].stream].peer = caller'[e].target
                      /\ Writing(e)' => caller'[e].seqno \in 1..counter'
      BY DEF WriterInv
  <2>1. CASE e = c
    <3>1. caller'[e].pc # "idle" /\ caller'[e].seqno \in 1..counter'
        BY <1>1, <1>3, <1>5, <2>1
    <3>2. QED
        BY <1>1, <1>5, <2>1, <3>1 DEF IInv, WriterInv
  <2>2. CASE e # c
    <3>1. caller'[e] = caller[e] /\ (Writing(e)' <=> Writing(e))
        BY <1>6, <1>11, <2>2
    <3>2. Writing(e) => caller[e].seqno \in 1..counter'
      <4>1. Writing(e) => caller[e].seqno \in 1..counter
          BY DEF IInv, WriterInv
      <4>2. QED
          BY <1>1, <1>3, <4>1
    <3>3. QED
        BY <1>1, <3>1, <3>2 DEF IInv, WriterInv
  <2>3. QED
      BY <2>1, <2>2
<1>14. RowsInv'
  <2> SUFFICES ASSUME NEW s \in DOMAIN streams', NEW d \in Seq(Pieces), d = streams'[s].data,
                      streams'[s].peer \notin overrun'
               PROVE  Row(s, d)'
      BY DEF RowsInv
  <2>1. s \in DOMAIN streams /\ d = streams[s].data /\ streams[s].peer \notin overrun
      BY <1>1 DEF mutexVars
  <2>2. Row(s, d)
      BY <2>1 DEF IInv, RowsInv
  <2>3. \A i \in DOMAIN d : d[i].no \in 1..counter
      BY <2>1 DEF IInv, NumbersInv
  <2>4. ASSUME NEW e \in Callers, caller'[e].stream = s
        PROVE  /\ caller'[e].pc = "flush rest" => Len(d) % 2 = 1 /\ d[Len(d)].no = caller'[e].seqno
               /\ Writing(e)' => \A i \in DOMAIN d : d[i].no <= caller'[e].seqno
    <3>1. CASE e = c
      <4>1. \A i \in DOMAIN d : d[i].no <= counter + 1
          BY <1>3, <2>3
      <4>2. caller'[c].pc # "flush rest"
          BY <1>2, <1>5
      <4>3. QED
          BY <1>5, <3>1, <4>1, <4>2
    <3>2. CASE e # c
        BY <1>6, <1>11, <2>2, <2>4, <3>2 DEF Row
    <3>3. QED
        BY <3>1, <3>2
  <2>5. ASSUME Len(d) % 2 = 1
        PROVE  \E e \in Callers : caller'[e].stream = s /\ caller'[e].pc = "flush rest"
    <3>1. PICK e \in Callers : caller[e].stream = s /\ caller[e].pc = "flush rest"
        BY <2>2, <2>5 DEF Row
    <3>2. e # c
        BY <1>1, <3>1
    <3>3. QED
        BY <1>6, <3>1, <3>2
  <2>6. QED
      BY <2>2, <2>4, <2>5 DEF Row, Whole, Ordered
<1>15. NumbersInv'
  <2>1. \A s \in DOMAIN streams : \A i \in DOMAIN streams[s].data : streams[s].data[i].no \in 1..counter
      BY DEF IInv, NumbersInv
  <2>2. \A s \in DOMAIN streams' : \A i \in Nat : FirstAt(s, i)' <=> FirstAt(s, i)
      BY <1>1 DEF FirstAt
  <2>3. \A s \in DOMAIN streams' : \A i \in DOMAIN streams'[s].data : streams'[s].data[i].no \in 1..counter'
      BY <1>1, <1>3, <2>1
  <2>4. ASSUME NEW e \in Callers, Unwritten(e)'
        PROVE  /\ \A s \in DOMAIN streams' : \A i \in Nat : FirstAt(s, i)' =>
                    streams'[s].data[i].no # caller'[e].seqno
               /\ \A p \in Peers : caller'[e].seqno \notin seen'[p]
    <3>1. CASE e = c
      <4>1. \A s \in DOMAIN streams' : \A i \in Nat : FirstAt(s, i)' =>
              streams'[s].data[i].no # counter + 1
          BY <1>1, <1>3, <2>1 DEF FirstAt
      <4>2. \A p \in Peers : counter + 1 \notin seen'[p]
        <5>1. seen \in [Peers -> SUBSET (1..counter)]
            BY <1>1 DEF Types
        <5>2. counter + 1 \notin 1..counter
            BY <1>3
        <5>3. QED
            BY <1>1, <5>1, <5>2
      <4>3. QED
          BY <1>5, <3>1, <4>1, <4>2
    <3>2. CASE e # c
      <4>1. Unwritten(e) /\ caller'[e] = caller[e]
          BY <1>6, <1>11, <2>4, <3>2
      <4>2. QED
          BY <1>1, <2>2, <4>1 DEF IInv, NumbersInv
    <3>3. QED
        BY <3>1, <3>2
  <2>5. ASSUME NEW e \in Callers, NEW f \in Callers, Unwritten(e)', Unwritten(f)',
               caller'[e].seqno = caller'[f].seqno
        PROVE  e = f
    <3>1. ASSUME NEW g \in Callers, g # c, Unwritten(g)'
          PROVE  Unwritten(g) /\ caller'[g] = caller[g] /\ caller[g].seqno # counter + 1
      <4>1. Unwritten(g) /\ caller'[g] = caller[g]
          BY <1>6, <1>11, <3>1
      <4>2. caller[g].seqno \in 1..counter
          BY <4>1 DEF IInv, WriterInv, Writing, Unwritten
      <4>3. QED
          BY <1>3, <4>1, <4>2
    <3>2. CASE e = c \/ f = c
        BY <1>5, <2>5, <3>1, <3>2
    <3>3. CASE e # c /\ f # c
        BY <2>5, <3>1, <3>3 DEF IInv, NumbersInv
    <3>4. QED
        BY <3>2, <3>3
  <2>6. /\ \A s, t \in DOMAIN streams' : \A i, j \in Nat :
             FirstAt(s, i)' /\ FirstAt(t, j)' /\ streams'[s].data[i].no = streams'[t].data[j].no
               => s = t /\ i = j
        /\ \A s \in DOMAIN streams' : \A i \in Nat : FirstAt(s, i)' =>
             \A p \in Peers : streams'[s].data[i].no \notin seen'[p]
        /\ refused' = {}
      BY <1>1, <2>2 DEF IInv, NumbersInv
  <2>7. QED
      BY <2>3, <2>4, <2>5, <2>6 DEF NumbersInv
<1>16. QED
    BY <1>8, <1>10, <1>13, <1>14, <1>15 DEF IInv
-----------------------------------------------------------------------------
(* There is always a mutex for a new key: the cache and the other callers  *)
(* refer to fewer than there are.                                          *)
LEMMA UnreferencedExists ==
    ASSUME IInv, NEW c \in Callers, caller[c].pc = "idle"
    PROVE  Unreferenced # {}
<1>1. /\ cache \in Seq(Entries) /\ Len(cache) \in Nat /\ Len(cache) <= MaxMutexes
      /\ MaxMutexes \in Nat /\ IsFiniteSet(Callers)
    BY SizesAssumption DEF IInv, Types
<1> DEFINE Others == Callers \ {c}
           ofCaller == [e \in Others |-> caller[e].mutex]
           ofKey == [i \in 1..Len(cache) |-> cache[i].mutex]
           A == {ofCaller[e] : e \in Others}
           B == {ofKey[i] : i \in 1..Len(cache)}
<1>2. IsFiniteSet(A) /\ Cardinality(A) <= Cardinality(Callers) - 1
  <2>1. IsFiniteSet(Others) /\ Cardinality(Others) = Cardinality(Callers) - 1
      BY <1>1, FS_RemoveElement
  <2>2. ofCaller \in Surjection(Others, A)
      BY DEF Surjection
  <2>3. QED
      BY <2>1, <2>2, FS_Surjection
<1>3. IsFiniteSet(B) /\ Cardinality(B) <= MaxMutexes
  <2>1. IsFiniteSet(1..Len(cache)) /\ Cardinality(1..Len(cache)) = Len(cache)
    <3> DEFINE n == Len(cache)
    <3> HIDE DEF n
    <3>1. n \in Nat
        BY <1>1 DEF n
    <3>2. IsFiniteSet(1..n) /\ Cardinality(1..n) = IF 1 > n THEN 0 ELSE n - 1 + 1
        BY <3>1, FS_Interval
    <3>3. IsFiniteSet(1..n) /\ Cardinality(1..n) = n
        BY <3>1, <3>2
    <3>4. QED
        BY <3>3 DEF n
  <2>2. ofKey \in Surjection(1..Len(cache), B)
      BY DEF Surjection
  <2>3. IsFiniteSet(B) /\ Cardinality(B) <= Cardinality(1..Len(cache))
      BY <2>1, <2>2, FS_Surjection
  <2>4. Cardinality(B) \in Nat
      BY <2>3, FS_CardinalityType
  <2>5. QED
      BY <1>1, <2>1, <2>3, <2>4
<1>4. /\ IsFiniteSet(A \cup B)
      /\ Cardinality(A \cup B) \in Nat
      /\ Cardinality(A \cup B) <= MaxMutexes + Cardinality(Callers) - 1
  <2> HIDE DEF A, B
  <2>1. /\ Cardinality(A \cup B) = Cardinality(A) + Cardinality(B) - Cardinality(A \cap B)
        /\ IsFiniteSet(A \cup B)
      BY <1>2, <1>3, FS_Union
  <2>2. Cardinality(A \cap B) \in Nat
      BY <1>2, FS_Intersection, FS_CardinalityType
  <2>3. /\ Cardinality(A) \in Nat /\ Cardinality(B) \in Nat /\ Cardinality(A \cup B) \in Nat
        /\ Cardinality(Callers) \in Nat
      BY <1>1, <1>2, <1>3, <2>1, FS_CardinalityType
  <2>4. QED
      BY <1>1, <1>2, <1>3, <2>1, <2>2, <2>3
<1>5. Cardinality(Mutexes) = MaxMutexes + Cardinality(Callers)
  <2>1. Cardinality(Callers) \in Nat
      BY <1>1, FS_CardinalityType
  <2>2. QED
      BY <1>1, <2>1, FS_Interval DEF Mutexes
<1>6. ~(Mutexes \subseteq A \cup B)
  <2> HIDE DEF A, B
  <2>1. SUFFICES ASSUME Mutexes \subseteq A \cup B PROVE FALSE
      OBVIOUS
  <2>2. Cardinality(Mutexes) <= Cardinality(A \cup B)
      BY <1>4, <2>1, FS_Subset
  <2>3. Cardinality(Callers) \in Nat
      BY <1>1, FS_CardinalityType
  <2>4. QED
      BY <1>1, <1>4, <1>5, <2>2, <2>3
<1>7. PICK x \in Mutexes : x \notin A /\ x \notin B
    BY <1>6
<1>8. \A e \in Callers : caller[e].mutex # x
  <2>1. caller[c].mutex = 0 /\ x # 0
      BY <1>7 DEF IInv, LockInv, Mutexes
  <2>2. \A e \in Others : caller[e].mutex # x
      BY <1>7
  <2>3. QED
      BY <2>1, <2>2
<1>9. \A i \in DOMAIN cache : cache[i].mutex # x
  <2>1. DOMAIN cache = 1..Len(cache)
      BY <1>1
  <2>2. \A i \in 1..Len(cache) : cache[i].mutex # x
      BY <1>7
  <2>3. QED
      BY <2>1, <2>2
<1>10. QED
    BY <1>8, <1>9 DEF Unreferenced, InUse

(* An element in front of a sequence.                                      *)
LEMMA InFront ==
    ASSUME NEW S, NEW m \in Seq(S), NEW e \in S, NEW r, r = <<e>> \o m
    PROVE  /\ r \in Seq(S) /\ Len(r) = Len(m) + 1 /\ r[1] = e
           /\ \A j \in 2..Len(r) : r[j] = m[j - 1]
<1>1. <<e>> \in Seq(S) /\ Len(<<e>>) = 1 /\ <<e>>[1] = e /\ Len(m) \in Nat
    OBVIOUS
<1>2. /\ r \in Seq(S) /\ Len(r) = 1 + Len(m)
      /\ \A j \in 1..(1 + Len(m)) : r[j] = IF j <= 1 THEN <<e>>[j] ELSE m[j - 1]
    BY <1>1, ConcatProperties
<1>3. QED
    BY <1>1, <1>2

(* A key moved to the front of the cache, or put in front of it.           *)
LEMMA MovedToFront ==
    ASSUME cache \in Seq(Entries), NEW i \in 1..Len(cache)
    PROVE  /\ CacheGet(i) \in Seq(Entries) /\ Len(CacheGet(i)) = Len(cache)
           /\ CacheGet(i)[1] = cache[i]
           /\ \A j \in 2..i : CacheGet(i)[j] = cache[j - 1]
           /\ \A j \in (i + 1)..Len(cache) : CacheGet(i)[j] = cache[j]
<1> DEFINE q == cache
           S == Entries
           r == CacheGet(i)
<1>1. Len(q) \in Nat /\ i \in Nat /\ q[i] \in S
    OBVIOUS
<1> DEFINE a == SubSeq(q, 1, i - 1)
           b == SubSeq(q, i + 1, Len(q))
           m == RemoveAt(q, i)
<1>2. a \in Seq(S) /\ Len(a) = i - 1 /\ \A j \in 1..(i - 1) : a[j] = q[j]
    BY <1>1
<1>3. b \in Seq(S) /\ Len(b) = Len(q) - i /\ \A j \in 1..(Len(q) - i) : b[j] = q[j + i]
    BY <1>1
<1>4. m = a \o b
    BY DEF RemoveAt
<1> HIDE DEF a, b, m, r
<1>5. /\ m \in Seq(S) /\ Len(m) = Len(a) + Len(b)
      /\ \A j \in 1..(Len(a) + Len(b)) : m[j] = IF j <= Len(a) THEN a[j] ELSE b[j - Len(a)]
    BY <1>2, <1>3, <1>4, ConcatProperties
<1>6. /\ Len(m) = Len(q) - 1
      /\ \A j \in 1..(i - 1) : m[j] = q[j]
      /\ \A j \in i..(Len(q) - 1) : m[j] = q[j + 1]
  <2>1. Len(m) = Len(q) - 1
      BY <1>1, <1>2, <1>3, <1>5
  <2>2. ASSUME NEW j \in 1..(i - 1) PROVE m[j] = q[j]
      BY <1>1, <1>2, <1>3, <1>5
  <2>3. ASSUME NEW j \in i..(Len(q) - 1) PROVE m[j] = q[j + 1]
    <3> Len(a) = i - 1 /\ Len(b) = Len(q) - i /\ Len(q) \in Nat /\ i \in Nat
        BY <1>1, <1>2, <1>3
    <3>0. j \in 1..(Len(a) + Len(b)) /\ ~(j <= Len(a))
        OBVIOUS
    <3>1. m[j] = b[j - (i - 1)] /\ j - (i - 1) \in 1..(Len(q) - i)
      <4>1. m[j] = b[j - Len(a)]
          BY <1>5, <3>0
      <4>2. QED
          BY <4>1
    <3>2. b[j - (i - 1)] = q[(j - (i - 1)) + i]
        BY <1>3, <3>1
    <3>3. (j - (i - 1)) + i = j + 1
        BY <1>1
    <3>4. QED
        BY <3>1, <3>2, <3>3
  <2>4. QED
      BY <2>1, <2>2, <2>3
<1>7. r = <<q[i]>> \o m
    BY DEF m, r, CacheGet
<1>8. r \in Seq(S) /\ Len(r) = Len(m) + 1 /\ r[1] = q[i] /\ \A j \in 2..Len(r) : r[j] = m[j - 1]
  <2>1. m \in Seq(S) /\ q[i] \in S
      BY <1>1, <1>5
  <2>2. QED
      BY ONLY <1>7, <2>1, InFront
<1>9. Len(r) = Len(q)
    BY <1>1, <1>6, <1>8
<1>10. ASSUME NEW j \in 2..i PROVE r[j] = q[j - 1]
  <2>1. r[j] = m[j - 1] /\ j - 1 \in 1..(i - 1)
      BY <1>1, <1>8, <1>9
  <2>2. QED
      BY <1>6, <2>1
<1>11. ASSUME NEW j \in (i + 1)..Len(q) PROVE r[j] = q[j]
  <2>1. r[j] = m[j - 1] /\ j - 1 \in i..(Len(q) - 1) /\ (j - 1) + 1 = j
      BY <1>1, <1>8, <1>9
  <2>2. m[j - 1] = q[(j - 1) + 1]
      BY <1>6, <2>1
  <2>3. QED
      BY <2>1, <2>2
<1>12. QED
    BY <1>8, <1>9, <1>10, <1>11 DEF r

LEMMA PutInFront ==
    ASSUME cache \in Seq(Entries), NEW e \in Entries, Len(cache) <= MaxMutexes
    PROVE  /\ CachePut(e) \in Seq(Entries) /\ CachePut(e)[1] = e
           /\ Len(CachePut(e)) = (IF Len(cache) < MaxMutexes THEN Len(cache) + 1 ELSE MaxMutexes)
           /\ \A j \in 2..Len(CachePut(e)) :
                j - 1 \in 1..Len(cache) /\ CachePut(e)[j] = cache[j - 1]
<1> DEFINE q == cache
           S == Entries
           n == MaxMutexes
           r == CachePut(e)
           m == IF Len(q) < n THEN q ELSE Front(q)
<1> n \in Nat \ {0}
    BY SizesAssumption
<1>1. /\ m \in Seq(S) /\ Len(m) = (IF Len(q) < n THEN Len(q) ELSE n - 1)
      /\ \A j \in 1..Len(m) : j \in 1..Len(q) /\ m[j] = q[j]
  <2>1. CASE Len(q) < n
      BY <2>1
  <2>2. CASE Len(q) = n
    <3>1. /\ Front(q) \in Seq(S) /\ Len(Front(q)) = n - 1
          /\ \A j \in 1..(n - 1) : Front(q)[j] = q[j]
        BY <2>2 DEF Front
    <3>2. m = Front(q)
        BY <2>2
    <3>3. QED
        BY <2>2, <3>1, <3>2
  <2>3. QED
      BY <2>1, <2>2
<1> HIDE DEF m, r
<1>2. r = <<e>> \o m
    BY DEF m, r, CachePut
<1>3. r \in Seq(S) /\ Len(r) = Len(m) + 1 /\ r[1] = e /\ \A j \in 2..Len(r) : r[j] = m[j - 1]
  <2>1. m \in Seq(S)
      BY <1>1
  <2>2. QED
      BY ONLY <1>2, <2>1, e \in S, InFront
<1>4. Len(q) \in Nat
    OBVIOUS
<1>5. Len(r) = IF Len(q) < n THEN Len(q) + 1 ELSE n
    BY <1>1, <1>3, <1>4
<1>6. ASSUME NEW j \in 2..Len(r) PROVE j - 1 \in 1..Len(q) /\ r[j] = q[j - 1]
  <2>1. r[j] = m[j - 1] /\ j - 1 \in 1..Len(m)
      BY <1>1, <1>3
  <2>2. QED
      BY <1>1, <2>1
<1>7. QED
    BY <1>3, <1>5, <1>6 DEF r

(* A step of one caller that enters Send with a mutex.                     *)
LEMMA TakeMutexFacts ==
    ASSUME Types, NEW c \in Callers, NEW p \in Peers, NEW x \in Mutexes, TakeMutex(c, p, x)
    PROVE  /\ caller' \in [Callers -> CallerStates]
           /\ \A e \in Callers : e # c => caller'[e] = caller[e]
           /\ caller'[c].pc = "lock" /\ caller'[c].target = p /\ caller'[c].mutex = x
           /\ caller'[c].stream = caller[c].stream
<1>1. /\ caller \in [Callers -> CallerStates]
      /\ caller' = [caller EXCEPT ![c].pc = "lock", ![c].target = p, ![c].mutex = x]
    BY DEF Types, TakeMutex
<1>2. caller[c] \in CallerStates
    BY <1>1
<1>3. caller'[c] = [caller[c] EXCEPT !.pc = "lock", !.target = p, !.mutex = x]
    BY <1>1
<1>4. /\ caller'[c] \in CallerStates /\ caller'[c].pc = "lock" /\ caller'[c].target = p
      /\ caller'[c].mutex = x /\ caller'[c].stream = caller[c].stream
    BY <1>2, <1>3 DEF CallerStates, Places
<1>5. \A e \in Callers : e # c => caller'[e] = caller[e]
    BY <1>1
<1>6. caller' \in [Callers -> CallerStates]
    BY <1>1, <1>4, <1>5
<1>7. QED
    BY <1>4, <1>5, <1>6

LEMMA SendEntered ==
    ASSUME IInv, NEW c \in Callers, NEW p \in Peers, NEW x \in Mutexes, caller[c].pc = "idle",
           TakeMutex(c, p, x), UNCHANGED <<holder, counter, netVars>>,
           cache' \in Seq(Entries), Len(cache') <= MaxMutexes,
           overrun \subseteq overrun', overrun' \subseteq Peers, MutexInv'
    PROVE  IInv'
<1>1. /\ caller' \in [Callers -> CallerStates]
      /\ \A e \in Callers : e # c => caller'[e] = caller[e]
      /\ caller'[c].pc = "lock" /\ caller'[c].target = p /\ caller'[c].mutex = x
      /\ caller'[c].stream = caller[c].stream
    BY TakeMutexFacts DEF IInv
<1>2. UNCHANGED <<holder, counter, conns, streams, seen, refused>> /\ Types
    BY DEF netVars, IInv
<1>3. Types'
    BY <1>1, <1>2 DEF Types
<1>4. LockInv'
  <2>1. \A e \in Callers : e # c => caller'[e] = caller[e] /\ (Holding(e)' <=> Holding(e))
      BY <1>1 DEF Holding
  <2>2. ~Holding(c)'
      BY <1>1 DEF Holding
  <2>3. QED
      BY <1>1, <1>2, <2>1, <2>2 DEF IInv, LockInv
<1>5. WriterInv'
  <2>1. \A e \in Callers : e # c => caller'[e] = caller[e] /\ (Writing(e)' <=> Writing(e))
      BY <1>1 DEF Writing
  <2>2. ~Writing(c)' /\ caller'[c].stream \notin DOMAIN streams
    <3>1. caller[c].stream = 0
        BY DEF IInv, WriterInv
    <3>2. QED
        BY <1>1, <1>2, <3>1 DEF Writing, Types, Streams
  <2>3. QED
      BY <1>1, <1>2, <2>1, <2>2 DEF IInv, WriterInv
<1>6. RowsInv' /\ NumbersInv'
  <2>1. WritersKept
      BY <1>1 DEF WritersKept, Writing, Unwritten
  <2>2. StreamsOnlyEnd /\ counter' \in Nat /\ counter <= counter'
      BY <1>2 DEF StreamsOnlyEnd, Types
  <2>3. QED
      BY <1>2, <2>1, <2>2, FewerStreams, NothingWritten
<1>7. QED
    BY <1>3, <1>4, <1>5, <1>6 DEF IInv

(* MutexHolder.Get keeps the promise of the cache: a caller in Send has    *)
(* the mutex that is in the cache under its peer, unless that one was      *)
(* dropped while it was in use.                                            *)
LEMMA SendToConnectedPeerInv ==
    ASSUME IInv, NEW c \in Callers, NEW p \in Peers, SendToConnectedPeer(c, p)
    PROVE  IInv'
<1>1. /\ Types /\ caller[c].pc = "idle" /\ Get(c, p) /\ UNCHANGED <<holder, counter, netVars>>
      /\ cache \in Seq(Entries) /\ DOMAIN cache = 1..Len(cache) /\ Len(cache) \in Nat
      /\ Len(cache) <= MaxMutexes /\ MaxMutexes \in Nat \ {0} /\ overrun \subseteq Peers
    BY SizesAssumption DEF SendToConnectedPeer, At, IInv, Types
<1>2. /\ \A i, j \in 1..Len(cache) : cache[i].key = cache[j].key => i = j
      /\ \A e \in Callers : caller[e].pc # "idle" /\ caller[e].target \notin overrun =>
           \E i \in 1..Len(cache) :
             cache[i].key = caller[e].target /\ cache[i].mutex = caller[e].mutex
    BY <1>1 DEF IInv, MutexInv
<1>3. ASSUME NEW i \in 1..Len(cache), cache[i].key = p, cache' = CacheGet(i),
             TakeMutex(c, p, cache[i].mutex), UNCHANGED overrun
      PROVE  IInv'
  <2>1. cache[i] \in Entries /\ cache[i].mutex \in Mutexes /\ i \in Nat
    <3>1. cache[i] \in Entries /\ i \in Nat
        BY <1>1, <1>3
    <3>2. QED
        BY <3>1 DEF Entries
  <2>2. /\ cache' \in Seq(Entries) /\ Len(cache') = Len(cache) /\ cache'[1] = cache[i]
        /\ \A j \in 2..i : cache'[j] = cache[j - 1]
        /\ \A j \in (i + 1)..Len(cache) : cache'[j] = cache[j]
      BY <1>1, <1>3, MovedToFront
  <2>3. /\ \A e \in Callers : e # c => caller'[e] = caller[e]
        /\ caller'[c].pc = "lock" /\ caller'[c].target = p /\ caller'[c].mutex = cache[i].mutex
      BY <1>1, <1>3, <2>1, TakeMutexFacts
  <2> DEFINE Old(j) == IF j = 1 THEN i ELSE IF j <= i THEN j - 1 ELSE j
             New(j) == IF j = i THEN 1 ELSE IF j < i THEN j + 1 ELSE j
  <2>4. \A j \in 1..Len(cache) : Old(j) \in 1..Len(cache) /\ cache'[j] = cache[Old(j)]
      BY <1>1, <2>1, <2>2
  <2>5. \A j, k \in 1..Len(cache) : Old(j) = Old(k) => j = k
      BY <1>1, <2>1
  <2>6. \A j \in 1..Len(cache) : New(j) \in 1..Len(cache) /\ cache'[New(j)] = cache[j]
    <3>1. \A j \in 1..Len(cache) : New(j) \in 1..Len(cache) /\ Old(New(j)) = j
        BY <1>1, <2>1
    <3> HIDE DEF Old, New
    <3>2. QED
        BY <2>4, <3>1
  <2> HIDE DEF Old, New
  <2>7. DOMAIN cache' = 1..Len(cache)
      BY <2>2
  <2>8. MutexInv'
    <3>1. ASSUME NEW j \in 1..Len(cache), NEW k \in 1..Len(cache), cache'[j].key = cache'[k].key
          PROVE  j = k
      <4>1. Old(j) = Old(k)
          BY <1>2, <2>4, <3>1
      <4>2. QED
          BY <2>5, <4>1
    <3>2. ASSUME NEW e \in Callers, caller'[e].pc # "idle", caller'[e].target \notin overrun'
          PROVE  \E j \in 1..Len(cache) :
                   cache'[j].key = caller'[e].target /\ cache'[j].mutex = caller'[e].mutex
      <4>1. CASE e = c
          BY <1>1, <1>3, <2>2, <2>3, <4>1
      <4>2. CASE e # c
        <5>1. PICK j \in 1..Len(cache) :
                cache[j].key = caller[e].target /\ cache[j].mutex = caller[e].mutex
            BY <1>2, <1>3, <2>3, <3>2, <4>2
        <5>2. cache'[New(j)] = cache[j] /\ New(j) \in 1..Len(cache)
            BY <2>6
        <5>3. caller'[e] = caller[e]
            BY <2>3, <4>2
        <5>4. QED
            BY ONLY <5>1, <5>2, <5>3
      <4>3. QED
          BY <4>1, <4>2
    <3>3. QED
        BY <2>7, <3>1, <3>2 DEF MutexInv
  <2>9. QED
    <3>1. overrun \subseteq overrun' /\ overrun' \subseteq Peers /\ Len(cache') <= MaxMutexes
        BY <1>1, <1>3, <2>2
    <3>2. QED
        BY <1>1, <1>3, <2>1, <2>2, <2>8, <3>1, SendEntered
<1>4. ASSUME \A i \in DOMAIN cache : cache[i].key # p, NEW x, x = CHOOSE u \in Unreferenced : TRUE,
             cache' = CachePut([key |-> p, mutex |-> x]), TakeMutex(c, p, x),
             overrun' = IF Len(cache) = MaxMutexes /\ InUse(Last(cache).mutex)
                        THEN overrun \cup {Last(cache).key} ELSE overrun
      PROVE  IInv'
  <2>1. x \in Mutexes
    <3>1. x \in Unreferenced
        BY <1>1, <1>4, UnreferencedExists
    <3>2. QED
        BY <3>1 DEF Unreferenced
  <2> DEFINE new == [key |-> p, mutex |-> x]
  <2>2. new \in Entries /\ new.key = p /\ new.mutex = x
      BY <2>1 DEF Entries
  <2> HIDE DEF new
  <2>3. /\ cache' \in Seq(Entries) /\ cache'[1] = new
        /\ Len(cache') = (IF Len(cache) < MaxMutexes THEN Len(cache) + 1 ELSE MaxMutexes)
        /\ \A j \in 2..Len(cache') : j - 1 \in 1..Len(cache) /\ cache'[j] = cache[j - 1]
    <3>1. cache' = CachePut(new)
        BY <1>4 DEF new
    <3>2. QED
        BY <1>1, <2>2, <3>1, PutInFront
  <2>4. DOMAIN cache' = 1..Len(cache') /\ Len(cache') \in Nat /\ 1 \in 1..Len(cache')
      BY <1>1, <2>3
  <2>5. /\ \A e \in Callers : e # c => caller'[e] = caller[e]
        /\ caller'[c].pc = "lock" /\ caller'[c].target = p /\ caller'[c].mutex = x
      BY <1>1, <1>4, <2>1, TakeMutexFacts
  <2>6. overrun \subseteq overrun' /\ overrun' \subseteq Peers
    <3>1. CASE Len(cache) = MaxMutexes
      <4>1. Last(cache) \in Entries
          BY <1>1, <3>1 DEF Last
      <4>2. Last(cache).key \in Peers
          BY <4>1 DEF Entries
      <4>3. QED
          BY <1>1, <1>4, <4>2
    <3>2. QED
        BY <1>1, <1>4, <3>1
  <2>7. ASSUME NEW j \in 1..Len(cache'), NEW k \in 1..Len(cache'), cache'[j].key = cache'[k].key
        PROVE  j = k
    <3>1. ASSUME NEW l \in 2..Len(cache') PROVE cache'[l].key # p
      <4>1. cache'[l] = cache[l - 1] /\ l - 1 \in DOMAIN cache
          BY <1>1, <2>3
      <4>2. QED
          BY <1>4, <4>1
    <3>2. CASE j = 1 \/ k = 1
      <4>1. cache'[j].key = p /\ cache'[k].key = p
          BY <2>2, <2>3, <2>7, <3>2
      <4>2. j \notin 2..Len(cache') /\ k \notin 2..Len(cache')
          BY <3>1, <4>1
      <4>3. QED
          BY <2>4, <4>2
    <3>3. CASE j # 1 /\ k # 1
      <4>1. j \in 2..Len(cache') /\ k \in 2..Len(cache')
          BY <2>4, <3>3
      <4>2. /\ j - 1 \in 1..Len(cache) /\ cache'[j] = cache[j - 1]
            /\ k - 1 \in 1..Len(cache) /\ cache'[k] = cache[k - 1]
          BY <2>3, <4>1
      <4>3. j - 1 = k - 1
          BY <1>2, <2>7, <4>2
      <4>4. QED
          BY <4>1, <4>3
    <3>4. QED
        BY <3>2, <3>3
  <2>8. ASSUME NEW e \in Callers, caller'[e].pc # "idle", caller'[e].target \notin overrun'
        PROVE  \E j \in 1..Len(cache') :
                 cache'[j].key = caller'[e].target /\ cache'[j].mutex = caller'[e].mutex
    <3>1. CASE e = c
        BY <2>2, <2>3, <2>4, <2>5, <3>1
    <3>2. CASE e # c
      <4>1. caller'[e] = caller[e] /\ caller[e].target \notin overrun
          BY <2>5, <2>6, <2>8, <3>2
      <4>2. PICK j \in 1..Len(cache) :
              cache[j].key = caller[e].target /\ cache[j].mutex = caller[e].mutex
          BY <1>2, <2>8, <4>1
      <4>3. ~(Len(cache) = MaxMutexes /\ j = Len(cache))
        <5>1. SUFFICES ASSUME Len(cache) = MaxMutexes, j = Len(cache) PROVE FALSE
            OBVIOUS
        <5>2. InUse(Last(cache).mutex) /\ Last(cache).key = caller[e].target
            BY <4>2, <5>1 DEF InUse, Last
        <5>3. caller[e].target \in overrun'
            BY <1>4, <5>1, <5>2
        <5>4. QED
            BY <2>8, <4>1, <5>3
      <4>4. j + 1 \in 2..Len(cache') /\ (j + 1) - 1 = j
          BY <1>1, <2>3, <4>3
      <4>5. cache'[j + 1] = cache[j] /\ j + 1 \in 1..Len(cache')
        <5>1. cache'[j + 1] = cache[(j + 1) - 1]
            BY <2>3, <4>4
        <5>2. QED
            BY <2>4, <4>4, <5>1
      <4>6. QED
          BY <4>1, <4>2, <4>5
    <3>3. QED
        BY <3>1, <3>2
  <2>9. MutexInv'
      BY <2>4, <2>7, <2>8 DEF MutexInv
  <2>10. QED
    <3>1. Len(cache') <= MaxMutexes
        BY <1>1, <2>3
    <3>2. QED
        BY <1>1, <1>4, <2>1, <2>3, <2>6, <2>9, <3>1, SendEntered
<1>5. QED
    BY <1>1, <1>3, <1>4 DEF Get
-----------------------------------------------------------------------------
(* What a row becomes when the pieces of one message are appended to it.   *)
LEMMA Appended ==
    ASSUME NEW d \in Seq(Pieces), NEW g \in Seq(Pieces), NEW f, f = d \o g
    PROVE  /\ f \in Seq(Pieces) /\ Len(f) = Len(d) + Len(g) /\ Len(d) \in Nat
           /\ \A i \in 1..Len(d) : f[i] = d[i]
           /\ \A i \in 1..Len(g) : f[Len(d) + i] = g[i]
<1>1. Len(d) \in Nat /\ Len(g) \in Nat
    OBVIOUS
<1>2. /\ f \in Seq(Pieces) /\ Len(f) = Len(d) + Len(g)
      /\ \A i \in 1..(Len(d) + Len(g)) : f[i] = IF i <= Len(d) THEN d[i] ELSE g[i - Len(d)]
    BY ConcatProperties
<1>3. ASSUME NEW i \in 1..Len(d) PROVE f[i] = d[i]
    BY <1>1, <1>2
<1>4. ASSUME NEW i \in 1..Len(g) PROVE f[Len(d) + i] = g[i]
  <2>1. Len(d) + i \in 1..(Len(d) + Len(g)) /\ ~(Len(d) + i <= Len(d)) /\ (Len(d) + i) - Len(d) = i
      BY <1>1
  <2>2. f[Len(d) + i] = g[(Len(d) + i) - Len(d)]
      BY <1>2, <2>1
  <2>3. QED
      BY <2>1, <2>2
<1>5. QED
    BY <1>1, <1>2, <1>3, <1>4

(* The beginning of a message after a row of whole ones.                   *)
LEMMA FirstAppended ==
    ASSUME NEW d \in Seq(Pieces), NEW f \in Seq(Pieces), NEW n \in Nat,
           Len(f) = Len(d) + 1, \A i \in 1..Len(d) : f[i] = d[i],
           f[Len(d) + 1] = [no |-> n, part |-> "first"],
           Whole(d), Ordered(d), Len(d) % 2 # 1, \A i \in DOMAIN d : d[i].no <= n
    PROVE  /\ Whole(f) /\ Ordered(f) /\ Len(f) % 2 = 1 /\ f[Len(f)].no = n
           /\ \A i \in DOMAIN f : f[i].no <= n
<1>1. Len(d) \in Nat /\ DOMAIN d = 1..Len(d) /\ DOMAIN f = 1..(Len(d) + 1)
    OBVIOUS
<1>2. f[Len(d) + 1].no = n /\ f[Len(d) + 1].part = "first"
    OBVIOUS
<1>3. (Len(d) + 1) % 2 = 1
    BY <1>1
<1>4. \A i \in DOMAIN f : i # Len(d) + 1 => i \in DOMAIN d /\ f[i] = d[i]
    BY <1>1
<1>5. \A i \in DOMAIN f : f[i].no <= n
    BY <1>1, <1>2, <1>4
<1>6. Whole(f)
  <2> SUFFICES ASSUME NEW i \in DOMAIN f
               PROVE  IF i % 2 = 1 THEN f[i].part = "first" ELSE f[i] = [no |-> f[i - 1].no, part |-> "rest"]
      BY DEF Whole
  <2>1. CASE i = Len(d) + 1
      BY <1>2, <1>3, <2>1
  <2>2. CASE i # Len(d) + 1
    <3>1. i \in DOMAIN d /\ f[i] = d[i]
        BY <1>4, <2>2
    <3>2. CASE i % 2 = 1
        BY <3>1, <3>2 DEF Whole
    <3>3. CASE i % 2 # 1
      <4>1. i - 1 \in 1..Len(d)
        <5>1. i \in 1..Len(d) /\ Len(d) \in Nat
            BY <1>1, <3>1
        <5>2. i # 1
            BY ONLY <3>3, <5>1
        <5>3. QED
            BY ONLY <5>1, <5>2
      <4>2. f[i - 1] = d[i - 1]
          BY <4>1
      <4>3. QED
          BY <3>1, <3>3, <4>2 DEF Whole
    <3>4. QED
        BY <3>2, <3>3
  <2>3. QED
      BY <2>1, <2>2
<1>7. Ordered(f)
  <2> SUFFICES ASSUME NEW i \in DOMAIN f, NEW j \in DOMAIN f, i < j PROVE f[i].no <= f[j].no
      BY DEF Ordered
  <2>1. CASE j = Len(d) + 1
      BY <1>2, <1>5, <2>1
  <2>2. CASE j # Len(d) + 1
    <3>1. i # Len(d) + 1
        BY <1>1, <2>2
    <3>2. QED
        BY <1>4, <2>2, <3>1 DEF Ordered
  <2>3. QED
      BY <2>1, <2>2
<1>8. QED
    BY <1>1, <1>2, <1>3, <1>5, <1>6, <1>7

(* The rest of it.                                                         *)
LEMMA RestAppended ==
    ASSUME NEW d \in Seq(Pieces), NEW f \in Seq(Pieces), NEW n \in Nat,
           Len(f) = Len(d) + 1, \A i \in 1..Len(d) : f[i] = d[i],
           f[Len(d) + 1] = [no |-> n, part |-> "rest"],
           Whole(d), Ordered(d), Len(d) % 2 = 1, d[Len(d)].no = n, \A i \in DOMAIN d : d[i].no <= n
    PROVE  Whole(f) /\ Ordered(f) /\ Len(f) % 2 # 1 /\ \A i \in DOMAIN f : f[i].no <= n
<1>1. Len(d) \in Nat /\ DOMAIN d = 1..Len(d) /\ DOMAIN f = 1..(Len(d) + 1)
    OBVIOUS
<1>2. f[Len(d) + 1].no = n
    OBVIOUS
<1>3. (Len(d) + 1) % 2 # 1 /\ (Len(d) + 1) - 1 = Len(d) /\ Len(d) \in 1..Len(d)
    BY <1>1
<1>4. \A i \in DOMAIN f : i # Len(d) + 1 => i \in DOMAIN d /\ f[i] = d[i]
    BY <1>1
<1>5. \A i \in DOMAIN f : f[i].no <= n
    BY <1>1, <1>2, <1>4
<1>6. Whole(f)
  <2> SUFFICES ASSUME NEW i \in DOMAIN f
               PROVE  IF i % 2 = 1 THEN f[i].part = "first" ELSE f[i] = [no |-> f[i - 1].no, part |-> "rest"]
      BY DEF Whole
  <2>1. CASE i = Len(d) + 1
    <3>1. f[i - 1].no = n
        BY <1>3, <2>1
    <3>2. QED
        BY <1>3, <2>1, <3>1
  <2>2. CASE i # Len(d) + 1
    <3>1. i \in DOMAIN d /\ f[i] = d[i]
        BY <1>4, <2>2
    <3>2. CASE i % 2 = 1
        BY <3>1, <3>2 DEF Whole
    <3>3. CASE i % 2 # 1
      <4>1. i - 1 \in 1..Len(d)
        <5>1. i \in 1..Len(d) /\ Len(d) \in Nat
            BY <1>1, <3>1
        <5>2. i # 1
            BY ONLY <3>3, <5>1
        <5>3. QED
            BY ONLY <5>1, <5>2
      <4>2. f[i - 1] = d[i - 1]
          BY <4>1
      <4>3. QED
          BY <3>1, <3>3, <4>2 DEF Whole
    <3>4. QED
        BY <3>2, <3>3
  <2>3. QED
      BY <2>1, <2>2
<1>7. Ordered(f)
  <2> SUFFICES ASSUME NEW i \in DOMAIN f, NEW j \in DOMAIN f, i < j PROVE f[i].no <= f[j].no
      BY DEF Ordered
  <2>1. CASE j = Len(d) + 1
      BY <1>2, <1>5, <2>1
  <2>2. CASE j # Len(d) + 1
    <3>1. i # Len(d) + 1
        BY <1>1, <2>2
    <3>2. QED
        BY <1>4, <2>2, <3>1 DEF Ordered
  <2>3. QED
      BY <2>1, <2>2
<1>8. QED
    BY <1>1, <1>3, <1>5, <1>6, <1>7

(* A whole message taken from the front of a row.                          *)
LEMMA WholeRemoved ==
    ASSUME NEW d \in Seq(Pieces), Len(d) >= 2, NEW f, f = SubSeq(d, 3, Len(d))
    PROVE  /\ f \in Seq(Pieces) /\ Len(f) = Len(d) - 2
           /\ \A i \in DOMAIN f : i \in Nat /\ i + 2 \in DOMAIN d /\ f[i] = d[i + 2]
           /\ Len(f) % 2 = Len(d) % 2
           /\ Whole(d) => Whole(f)
           /\ Ordered(d) => Ordered(f)
<1>1. Len(d) \in Nat /\ DOMAIN d = 1..Len(d)
    OBVIOUS
<1>2. f \in Seq(Pieces) /\ Len(f) = Len(d) - 2
    BY <1>1
<1>3. \A i \in 1..(Len(d) - 2) : f[i] = d[i + 2]
    BY <1>1
<1>4. \A i \in DOMAIN f : i \in Nat /\ i + 2 \in DOMAIN d /\ f[i] = d[i + 2] /\ (i + 2) % 2 = i % 2
    BY <1>1, <1>2, <1>3
<1>5. (Len(d) - 2) % 2 = Len(d) % 2
    BY <1>1
<1>6. Whole(d) => Whole(f)
  <2> SUFFICES ASSUME Whole(d), NEW i \in DOMAIN f
               PROVE  IF i % 2 = 1 THEN f[i].part = "first" ELSE f[i] = [no |-> f[i - 1].no, part |-> "rest"]
      BY DEF Whole
  <2>1. CASE i % 2 = 1
      BY <1>4, <2>1 DEF Whole
  <2>2. CASE i % 2 # 1
    <3>1. i - 1 \in 1..(Len(d) - 2) /\ (i - 1) + 2 = (i + 2) - 1
        BY <1>1, <1>2, <2>2
    <3>2. f[i - 1] = d[(i + 2) - 1]
        BY <1>3, <3>1
    <3>3. d[i + 2] = [no |-> d[(i + 2) - 1].no, part |-> "rest"]
        BY <1>4, <2>2 DEF Whole
    <3>4. QED
        BY <1>4, <2>2, <3>2, <3>3
  <2>3. QED
      BY <2>1, <2>2
<1>7. Ordered(d) => Ordered(f)
  <2> SUFFICES ASSUME Ordered(d), NEW i \in DOMAIN f, NEW j \in DOMAIN f, i < j
               PROVE  f[i].no <= f[j].no
      BY DEF Ordered
  <2>1. i + 2 < j + 2
      BY <1>4
  <2>2. QED
      BY <1>4, <2>1 DEF Ordered
<1>8. QED
    BY <1>2, <1>4, <1>5, <1>6, <1>7
-----------------------------------------------------------------------------
(* A caller appends pieces of its message to its stream: f is what d       *)
(* becomes, and place is where the caller goes.                            *)
Grown(c, d, f) ==
    /\ \A i \in DOMAIN d : i \in DOMAIN f /\ f[i] = d[i]
    /\ \A i \in DOMAIN f : i \notin DOMAIN d =>
         /\ f[i].no = caller[c].seqno
         /\ f[i].part = "first" => i = Len(d) + 1 /\ Unwritten(c)
GrownRow(c, f, place) ==
    /\ Whole(f) /\ Ordered(f) /\ \A i \in DOMAIN f : f[i].no <= caller[c].seqno
    /\ place = "flush rest" => Len(f) % 2 = 1 /\ f[Len(f)].no = caller[c].seqno
    /\ place = "return" => Len(f) % 2 # 1
DataBecomes(s, f) == streams' = [streams EXCEPT ![s].data = f]

LEMMA MessageWritten ==
    ASSUME IInv, NEW c \in Callers, NEW s, s = caller[c].stream, s \in DOMAIN streams, Writing(c),
           NEW d \in Seq(Pieces), d = streams[s].data, NEW f \in Seq(Pieces),
           DataBecomes(s, f),
           NEW place \in {"flush rest", "return"}, Goto(c, place),
           UNCHANGED <<mutexVars, counter, conns, seen, refused>>,
           Grown(c, d, f), streams[s].peer \notin overrun => GrownRow(c, f, place)
    PROVE  IInv'
<1>1. Types /\ UNCHANGED <<cache, holder, overrun, counter, conns, seen, refused>>
    BY DEF IInv, mutexVars
<1>2. /\ caller' \in [Callers -> CallerStates]
      /\ \A e \in Callers : e # c => caller'[e] = caller[e]
      /\ caller'[c].pc = place
      /\ caller'[c].target = caller[c].target /\ caller'[c].mutex = caller[c].mutex
      /\ caller'[c].stream = s /\ caller'[c].seqno = caller[c].seqno
  <2>1. place \in Places
      BY ONLY place \in {"flush rest", "return"} DEF Places
  <2>2. QED
      BY <1>1, <2>1, GotoFacts
<1>3. /\ DOMAIN streams' = DOMAIN streams /\ streams'[s].data = f
      /\ \A t \in DOMAIN streams : streams'[t].peer = streams[t].peer /\ streams'[t].conn = streams[t].conn
      /\ \A t \in DOMAIN streams : t # s => streams'[t] = streams[t]
      /\ streams' \in [DOMAIN streams' -> StreamStates]
  <2>1. streams \in [DOMAIN streams -> StreamStates] /\ streams[s] \in StreamStates
      BY <1>1 DEF Types
  <2>2. DOMAIN streams' = DOMAIN streams /\ \A t \in DOMAIN streams : t # s => streams'[t] = streams[t]
      BY <2>1 DEF DataBecomes
  <2>3. streams'[s] = [streams[s] EXCEPT !.data = f]
      BY <2>1 DEF DataBecomes
  <2>4. /\ streams'[s] \in StreamStates /\ streams'[s].data = f
        /\ streams'[s].peer = streams[s].peer /\ streams'[s].conn = streams[s].conn
      BY <2>1, <2>3 DEF StreamStates
  <2>5. streams' = [t \in DOMAIN streams |-> streams'[t]]
      BY <2>1 DEF DataBecomes
  <2>6. \A t \in DOMAIN streams : streams'[t] \in StreamStates
      BY <2>1, <2>2, <2>4
  <2>7. QED
      BY <2>2, <2>4, <2>5, <2>6
<1>4. Types'
  <2>1. \A t \in DOMAIN streams' : streams'[t].conn \in conns'[streams'[t].peer]
      BY <1>1, <1>3 DEF Types
  <2>2. QED
      BY <1>1, <1>2, <1>3, <2>1 DEF Types
<1>5. caller[c].pc \in {"write", "flush all", "flush rest"} /\ caller'[c].pc \in {"flush rest", "return"}
    BY <1>2 DEF Writing
<1>6. CallersKept
    BY <1>2, <1>5 DEF CallersKept
<1>7. LockInv' /\ MutexInv'
    BY <1>6, MutexesKept
<1>8. \A e \in Callers : e # c => (Writing(e)' <=> Writing(e)) /\ (Unwritten(e)' <=> Unwritten(e))
    BY <1>2 DEF Writing, Unwritten
<1>9. ~Unwritten(c)'
    BY <1>5 DEF Unwritten
<1>10. caller[c].seqno \in 1..counter /\ counter \in Nat
    BY <1>1 DEF IInv, WriterInv, Types
<1>11. WriterInv'
  <2> SUFFICES ASSUME NEW e \in Callers
               PROVE  /\ caller'[e].pc = "idle" => caller'[e].stream = 0
                      /\ caller'[e].stream \in DOMAIN streams'
                            => streams'[caller'[e].stream].peer = caller'[e].target
                      /\ Writing(e)' => caller'[e].seqno \in 1..counter'
      BY DEF WriterInv
  <2>1. CASE e = c
    <3>1. caller'[c].pc # "idle" /\ caller'[c].seqno \in 1..counter'
        BY <1>1, <1>2, <1>5, <1>10
    <3>2. streams'[s].peer = caller[c].target
        BY <1>3 DEF IInv, WriterInv
    <3>3. caller'[c].stream = s /\ caller'[c].target = caller[c].target
        BY <1>2
    <3>4. QED
        BY ONLY <2>1, <3>1, <3>2, <3>3
  <2>2. CASE e # c
    <3>1. caller'[e] = caller[e] /\ (Writing(e)' <=> Writing(e))
        BY <1>2, <1>8, <2>2
    <3>2. \A u \in DOMAIN streams' : u \in DOMAIN streams /\ streams'[u].peer = streams[u].peer
        BY <1>3
    <3>3. QED
        BY <1>1, <3>1, <3>2 DEF IInv, WriterInv
  <2>3. QED
      BY <2>1, <2>2
<1>12. RowsInv'
  <2> SUFFICES ASSUME NEW t \in DOMAIN streams', NEW b \in Seq(Pieces), b = streams'[t].data,
                      streams'[t].peer \notin overrun'
               PROVE  Row(t, b)'
      BY DEF RowsInv
  <2>1. CASE t # s
    <3>1. t \in DOMAIN streams /\ b = streams[t].data /\ streams[t].peer \notin overrun
        BY <1>1, <1>3, <2>1
    <3>2. Row(t, b)
        BY <3>1 DEF IInv, RowsInv
    <3>3. ASSUME NEW e \in Callers, caller'[e].stream = t
          PROVE  /\ caller'[e].pc = "flush rest" => Len(b) % 2 = 1 /\ b[Len(b)].no = caller'[e].seqno
                 /\ Writing(e)' => \A i \in DOMAIN b : b[i].no <= caller'[e].seqno
      <4>1. e # c
          BY <1>2, <2>1, <3>3
      <4>2. caller'[e] = caller[e] /\ (Writing(e)' <=> Writing(e))
          BY <1>2, <1>8, <4>1
      <4>3. QED
          BY <3>2, <3>3, <4>2 DEF Row
    <3>4. ASSUME Len(b) % 2 = 1
          PROVE  \E e \in Callers : caller'[e].stream = t /\ caller'[e].pc = "flush rest"
      <4>1. PICK e \in Callers : caller[e].stream = t /\ caller[e].pc = "flush rest"
          BY <3>2, <3>4 DEF Row
      <4>2. e # c
          BY <2>1, <4>1
      <4>3. QED
          BY <1>2, <4>1, <4>2
    <3>5. QED
        BY <3>2, <3>3, <3>4 DEF Row, Whole, Ordered
  <2>2. CASE t = s
    <3>1. b = f /\ streams[s].peer \notin overrun /\ GrownRow(c, f, place)
        BY <1>1, <1>3, <2>2
    <3>2. ASSUME NEW e \in Callers, e # c, caller'[e].stream = s PROVE ~Writing(e)'
      <4>1. caller[e].stream = s /\ (Writing(e)' <=> Writing(e))
          BY <1>2, <1>8, <3>2
      <4>2. QED
          BY <3>1, <3>2, <4>1, OneWriter
    <3>3. ASSUME NEW e \in Callers, caller'[e].stream = s
          PROVE  /\ caller'[e].pc = "flush rest" => Len(f) % 2 = 1 /\ f[Len(f)].no = caller'[e].seqno
                 /\ Writing(e)' => \A i \in DOMAIN f : f[i].no <= caller'[e].seqno
      <4>1. CASE e = c
          BY <1>2, <3>1, <4>1 DEF GrownRow
      <4>2. CASE e # c
        <5>1. ~Writing(e)' /\ caller'[e].pc # "flush rest"
            BY <3>2, <3>3, <4>2 DEF Writing
        <5>2. QED
            BY <5>1
      <4>3. QED
          BY <4>1, <4>2
    <3>4. ASSUME Len(f) % 2 = 1
          PROVE  \E e \in Callers : caller'[e].stream = s /\ caller'[e].pc = "flush rest"
        BY <1>2, <3>1, <3>4 DEF GrownRow
    <3>5. Whole(f) /\ Ordered(f)
        BY <3>1 DEF GrownRow
    <3>6. QED
        BY <2>2, <3>1, <3>3, <3>4, <3>5 DEF Row, Whole, Ordered
  <2>3. QED
      BY <2>1, <2>2
<1>13. NumbersInv'
  <2>0. DOMAIN streams' = DOMAIN streams
      BY <1>3
  <2>1. \A t \in DOMAIN streams : \A i \in DOMAIN streams[t].data : streams[t].data[i].no \in 1..counter
      BY DEF IInv, NumbersInv
  <2>2. ASSUME NEW t \in DOMAIN streams', NEW i \in DOMAIN streams'[t].data
        PROVE  \/ i \in DOMAIN streams[t].data /\ streams'[t].data[i] = streams[t].data[i]
               \/ /\ t = s /\ streams'[t].data[i].no = caller[c].seqno
                  /\ streams'[t].data[i].part = "first" => i = Len(d) + 1 /\ Unwritten(c)
    <3>1. CASE t # s
        BY <1>3, <2>2, <3>1
    <3>2. CASE t = s
        BY <1>3, <2>2, <3>2 DEF Grown
    <3>3. QED
        BY <3>1, <3>2
  <2>3. ASSUME NEW t \in DOMAIN streams', NEW i \in DOMAIN streams'[t].data
        PROVE  streams'[t].data[i].no \in 1..counter'
      BY <1>1, <1>3, <1>10, <2>1, <2>2
  <2>4. ASSUME NEW t \in DOMAIN streams', NEW i \in Nat, FirstAt(t, i)'
        PROVE  \/ FirstAt(t, i) /\ streams'[t].data[i].no = streams[t].data[i].no
               \/ /\ t = s /\ streams'[t].data[i].no = caller[c].seqno
                  /\ i = Len(d) + 1 /\ Unwritten(c)
    <3>1. i \in DOMAIN streams'[t].data /\ streams'[t].data[i].part = "first"
        BY <2>4 DEF FirstAt
    <3>2. QED
        BY <2>2, <3>1 DEF FirstAt
  <2>5. Unwritten(c) =>
          /\ \A t \in DOMAIN streams : \A i \in Nat : FirstAt(t, i) =>
               streams[t].data[i].no # caller[c].seqno
          /\ \A p \in Peers : caller[c].seqno \notin seen[p]
          /\ \A e \in Callers : Unwritten(e) /\ e # c => caller[e].seqno # caller[c].seqno
      BY DEF IInv, NumbersInv
  <2>6. ASSUME NEW t \in DOMAIN streams', NEW u \in DOMAIN streams', NEW i \in Nat, NEW j \in Nat,
               FirstAt(t, i)', FirstAt(u, j)', streams'[t].data[i].no = streams'[u].data[j].no
        PROVE  t = u /\ i = j
    <3>1. CASE /\ FirstAt(t, i) /\ streams'[t].data[i].no = streams[t].data[i].no
               /\ FirstAt(u, j) /\ streams'[u].data[j].no = streams[u].data[j].no
      <4>1. streams[t].data[i].no = streams[u].data[j].no
          BY <2>6, <3>1
      <4>2. QED
          BY <2>0, <3>1, <4>1 DEF IInv, NumbersInv
    <3>2. CASE /\ FirstAt(t, i) /\ streams'[t].data[i].no = streams[t].data[i].no
               /\ streams'[u].data[j].no = caller[c].seqno /\ Unwritten(c)
        BY <2>0, <2>5, <2>6, <3>2
    <3>3. CASE /\ FirstAt(u, j) /\ streams'[u].data[j].no = streams[u].data[j].no
               /\ streams'[t].data[i].no = caller[c].seqno /\ Unwritten(c)
        BY <2>0, <2>5, <2>6, <3>3
    <3>4. CASE t = s /\ u = s /\ i = Len(d) + 1 /\ j = Len(d) + 1
        BY <3>4
    <3>5. QED
        BY <2>4, <2>6, <3>1, <3>2, <3>3, <3>4
  <2>7. ASSUME NEW t \in DOMAIN streams', NEW i \in Nat, FirstAt(t, i)', NEW p \in Peers
        PROVE  streams'[t].data[i].no \notin seen'[p]
    <3>1. CASE FirstAt(t, i) /\ streams'[t].data[i].no = streams[t].data[i].no
        BY <1>1, <1>3, <3>1 DEF IInv, NumbersInv
    <3>2. QED
        BY <1>1, <2>4, <2>5, <2>7, <3>1
  <2>8. ASSUME NEW e \in Callers, Unwritten(e)'
        PROVE  /\ Unwritten(e) /\ caller'[e] = caller[e] /\ e # c
               /\ \A t \in DOMAIN streams' : \A i \in Nat : FirstAt(t, i)' =>
                    streams'[t].data[i].no # caller'[e].seqno
               /\ \A p \in Peers : caller'[e].seqno \notin seen'[p]
    <3>1. Unwritten(e) /\ caller'[e] = caller[e] /\ e # c
        BY <1>2, <1>8, <1>9, <2>8
    <3>2. ASSUME NEW t \in DOMAIN streams', NEW i \in Nat, FirstAt(t, i)'
          PROVE  streams'[t].data[i].no # caller[e].seqno
      <4>1. CASE FirstAt(t, i) /\ streams'[t].data[i].no = streams[t].data[i].no
        <5>1. streams[t].data[i].no # caller[e].seqno
            BY <2>0, <3>1, <4>1 DEF IInv, NumbersInv
        <5>2. QED
            BY <4>1, <5>1
      <4>2. QED
          BY <2>4, <2>5, <3>1, <3>2, <4>1
    <3>3. \A p \in Peers : caller[e].seqno \notin seen[p]
        BY <3>1 DEF IInv, NumbersInv
    <3>4. QED
        BY <1>1, <3>1, <3>2, <3>3
  <2>9. ASSUME NEW e \in Callers, NEW g \in Callers, Unwritten(e)', Unwritten(g)',
               caller'[e].seqno = caller'[g].seqno
        PROVE  e = g
      BY <2>8, <2>9 DEF IInv, NumbersInv
  <2>10. refused' = {}
      BY <1>1 DEF IInv, NumbersInv
  <2>11. QED
      BY <2>3, <2>6, <2>7, <2>8, <2>9, <2>10 DEF NumbersInv
<1>14. QED
    BY <1>4, <1>7, <1>11, <1>12, <1>13 DEF IInv

LEMMA SameCounter ==
    ASSUME counter \in Nat, UNCHANGED counter
    PROVE  counter' \in Nat /\ counter <= counter'
OBVIOUS

(* A caller that goes on without writing: the message waits in the buffer, *)
(* or the write has failed and the stream is gone.                         *)
KeptOrReset(c, place) ==
    \/ place = "flush all" /\ UNCHANGED streams
    \/ place = "return" /\ streams' = WithoutStreams({caller[c].stream})

LEMMA WriterMoves ==
    ASSUME IInv, NEW c \in Callers, NEW place \in {"flush all", "return"}, Goto(c, place),
           Writing(c), place = "flush all" => caller[c].pc = "write",
           KeptOrReset(c, place),
           UNCHANGED <<mutexVars, counter, conns, seen, refused>>
    PROVE  IInv'
<1>1. Types /\ UNCHANGED <<cache, holder, overrun, counter, conns, seen, refused>>
    BY DEF IInv, mutexVars
<1>2. /\ caller' \in [Callers -> CallerStates]
      /\ \A e \in Callers : e # c => caller'[e] = caller[e]
      /\ caller'[c].pc = place
      /\ caller'[c].target = caller[c].target /\ caller'[c].mutex = caller[c].mutex
      /\ caller'[c].stream = caller[c].stream /\ caller'[c].seqno = caller[c].seqno
  <2>1. place \in Places
      BY ONLY place \in {"flush all", "return"} DEF Places
  <2>2. QED
      BY <1>1, <2>1, GotoFacts
<1>3. /\ DOMAIN streams' \subseteq Streams /\ streams' \in [DOMAIN streams' -> StreamStates]
      /\ StreamsOnlyEnd
      /\ place = "return" => caller[c].stream \notin DOMAIN streams'
  <2>1. CASE UNCHANGED streams /\ place = "flush all"
      BY <1>1, <2>1 DEF Types, StreamsOnlyEnd
  <2>2. CASE streams' = WithoutStreams({caller[c].stream})
    <3>1. /\ DOMAIN streams' = DOMAIN streams \ {caller[c].stream}
          /\ DOMAIN streams' \subseteq Streams /\ streams' \in [DOMAIN streams' -> StreamStates]
          /\ StreamsOnlyEnd
        BY <1>1, <2>2, WithoutStreamsTypes
    <3>2. QED
        BY <3>1
  <2>3. QED
      BY <2>1, <2>2 DEF KeptOrReset
<1>4. Types'
  <2>1. \A s \in DOMAIN streams' : streams'[s].conn \in conns'[streams'[s].peer]
      BY <1>1, <1>3 DEF Types, StreamsOnlyEnd
  <2>2. QED
      BY <1>1, <1>2, <1>3, <2>1 DEF Types
<1>5. caller[c].pc \in {"write", "flush all", "flush rest"} /\ caller'[c].pc \in {"flush all", "return"}
    BY <1>2 DEF Writing
<1>6. CallersKept
    BY <1>2, <1>5 DEF CallersKept
<1>7. WritersKept
    BY <1>2, <1>3, <1>5 DEF WritersKept, Writing, Unwritten
<1>8. SameStreams
    BY <1>2 DEF SameStreams
<1>9. counter' \in Nat /\ counter <= counter' /\ overrun \subseteq overrun'
  <2>1. counter \in Nat
      BY <1>1 DEF Types
  <2>2. counter' = counter /\ overrun' = overrun
      BY <1>1
  <2>3. counter' \in Nat /\ counter <= counter'
      BY <2>1, <2>2, SameCounter
  <2>4. QED
      BY <2>2, <2>3
<1>10. LockInv' /\ MutexInv'
    BY <1>6, MutexesKept
<1>11. WriterInv'
    BY <1>3, <1>6, <1>7, <1>8, <1>9, WritersStay
<1>12. RowsInv' /\ NumbersInv'
    BY <1>1, <1>3, <1>7, <1>9, FewerStreams, NothingWritten
<1>13. QED
    BY <1>4, <1>10, <1>11, <1>12 DEF IInv

(* The data of the stream a caller writes to, and what is known of it.     *)
LEMMA DataOfWriter ==
    ASSUME IInv, NEW c \in Callers, NEW s, s = caller[c].stream, s \in DOMAIN streams, Writing(c),
           NEW d, d = streams[s].data
    PROVE  /\ d \in Seq(Pieces) /\ caller[c].seqno \in Nat
           /\ streams[s].peer \notin overrun =>
                /\ Row(s, d)
                /\ Unwritten(c) => Len(d) % 2 # 1
<1>1. d \in Seq(Pieces) /\ caller[c].seqno \in Nat
  <2>1. streams[s] \in StreamStates /\ caller[c] \in CallerStates
      BY DEF IInv, Types
  <2>2. QED
      BY <2>1 DEF StreamStates, CallerStates
<1>2. ASSUME streams[s].peer \notin overrun PROVE Row(s, d)
    BY <1>1, <1>2 DEF IInv, RowsInv
<1>3. ASSUME streams[s].peer \notin overrun, Unwritten(c), Len(d) % 2 = 1 PROVE FALSE
  <2>1. PICK e \in Callers : caller[e].stream = s /\ caller[e].pc = "flush rest"
      BY <1>2, <1>3 DEF Row
  <2>2. e = c
      BY <1>3, <2>1, OneWriter DEF Writing
  <2>3. QED
      BY <1>3, <2>1, <2>2 DEF Unwritten
<1>4. QED
    BY <1>1, <1>2, <1>3

LEMMA WriteMsgInv ==
    ASSUME IInv, NEW c \in Callers, WriteMsg(c)
    PROVE  IInv'
<1>1. /\ caller[c].pc = "write" /\ UNCHANGED <<mutexVars, counter, conns, seen, refused>>
      /\ Writing(c) /\ Unwritten(c)
    BY DEF WriteMsg, At, Writing, Unwritten
<1>2. CASE Goto(c, "flush all") /\ UNCHANGED streams
    BY <1>1, <1>2, WriterMoves DEF KeptOrReset
<1>3. CASE WriteFails(c)
    BY <1>1, <1>3, WriterMoves DEF WriteFails, KeptOrReset
<1>4. CASE /\ Open(caller[c].stream) /\ Goto(c, "flush rest")
           /\ streams' = WithData(caller[c].stream, <<Piece(c, "first")>>)
  <2> DEFINE s == caller[c].stream
             d == streams[s].data
             n == caller[c].seqno
             x == [no |-> n, part |-> "first"]
             f == d \o <<x>>
  <2>1. s \in DOMAIN streams
      BY <1>4 DEF Open
  <2>2. DataBecomes(s, f)
      BY <1>4 DEF DataBecomes, WithData, Piece
  <2>3. /\ d \in Seq(Pieces) /\ n \in Nat
        /\ streams[s].peer \notin overrun => Row(s, d) /\ Len(d) % 2 # 1
      BY <1>1, <2>1, DataOfWriter
  <2> HIDE DEF d, n, s
  <2>4. <<x>> \in Seq(Pieces) /\ Len(<<x>>) = 1 /\ <<x>>[1] = x /\ 1 \in 1..Len(<<x>>)
    <3>1. x \in Pieces
        BY <2>3 DEF Pieces
    <3>2. QED
        BY <3>1
  <2> HIDE DEF f, x
  <2>5. /\ f \in Seq(Pieces) /\ Len(f) = Len(d) + Len(<<x>>) /\ Len(d) \in Nat
        /\ \A i \in 1..Len(d) : f[i] = d[i]
        /\ \A i \in 1..Len(<<x>>) : f[Len(d) + i] = <<x>>[i]
      BY <2>3, <2>4, Appended DEF f
  <2>6. Len(f) = Len(d) + 1 /\ f[Len(d) + 1] = x
      BY <2>4, <2>5
  <2>7. DOMAIN d = 1..Len(d) /\ DOMAIN f = 1..(Len(d) + 1)
      BY <2>3, <2>5, <2>6
  <2>8. Grown(c, d, f)
    <3>1. \A i \in DOMAIN f : i \notin DOMAIN d => i = Len(d) + 1
        BY <2>5, <2>7
    <3>2. \A i \in DOMAIN d : i \in DOMAIN f /\ f[i] = d[i]
        BY <2>5, <2>7
    <3>3. x.no = caller[c].seqno
        BY DEF x, n
    <3>4. QED
        BY <1>1, <2>6, <3>1, <3>2, <3>3 DEF Grown
  <2>9. ASSUME streams[s].peer \notin overrun PROVE GrownRow(c, f, "flush rest")
    <3>1. Whole(d) /\ Ordered(d) /\ Len(d) % 2 # 1 /\ \A i \in DOMAIN d : d[i].no <= n
        BY <1>1, <2>3, <2>9 DEF Row, s, n
    <3>2. f[Len(d) + 1] = [no |-> n, part |-> "first"]
        BY <2>6 DEF x
    <3>3. /\ Whole(f) /\ Ordered(f) /\ Len(f) % 2 = 1 /\ f[Len(f)].no = n
          /\ \A i \in DOMAIN f : f[i].no <= n
        BY <2>3, <2>5, <2>6, <3>1, <3>2, FirstAppended
    <3>4. QED
        BY <3>3 DEF GrownRow, n
  <2>10. s = caller[c].stream /\ d = streams[s].data /\ Goto(c, "flush rest")
      BY <1>4 DEF s, d
  <2>11. QED
      BY <1>1, <2>1, <2>2, <2>3, <2>5, <2>8, <2>9, <2>10, MessageWritten
<1>5. QED
    BY <1>2, <1>3, <1>4 DEF WriteMsg

LEMMA FlushInv ==
    ASSUME IInv, NEW c \in Callers, Flush(c)
    PROVE  IInv'
<1>1. /\ caller[c].pc \in {"flush rest", "flush all"} /\ Writing(c)
      /\ UNCHANGED <<mutexVars, counter, conns, seen, refused>>
    BY DEF Flush, Writing
<1>2. CASE WriteFails(c)
    BY <1>1, <1>2, WriterMoves DEF WriteFails, KeptOrReset
<1> DEFINE s == caller[c].stream
           d == streams[s].data
           n == caller[c].seqno
           x == [no |-> n, part |-> "first"]
           y == [no |-> n, part |-> "rest"]
<1>3. ASSUME s \in DOMAIN streams
      PROVE  /\ d \in Seq(Pieces) /\ n \in Nat /\ Len(d) \in Nat /\ DOMAIN d = 1..Len(d)
             /\ x \in Pieces /\ y \in Pieces /\ x.no = n /\ y.no = n /\ y.part = "rest"
             /\ streams[s].peer \notin overrun =>
                  /\ Row(s, d)
                  /\ Unwritten(c) => Len(d) % 2 # 1
  <2>1. /\ d \in Seq(Pieces) /\ n \in Nat
        /\ streams[s].peer \notin overrun => Row(s, d) /\ (Unwritten(c) => Len(d) % 2 # 1)
      BY <1>1, <1>3, DataOfWriter
  <2> HIDE DEF d, n
  <2>2. x \in Pieces /\ y \in Pieces /\ x.no = n /\ y.no = n /\ y.part = "rest"
      BY <2>1 DEF Pieces
  <2>3. Len(d) \in Nat /\ DOMAIN d = 1..Len(d)
      BY <2>1
  <2>4. QED
      BY <2>1, <2>2, <2>3
<1>4. CASE /\ Open(s) /\ At(c, "flush rest") /\ Goto(c, "return")
           /\ streams' = WithData(s, <<Piece(c, "rest")>>)
  <2> DEFINE f == d \o <<y>>
  <2>1. s \in DOMAIN streams /\ caller[c].pc = "flush rest"
      BY <1>4 DEF Open, At
  <2>2. DataBecomes(s, f)
      BY <1>4 DEF DataBecomes, WithData, Piece
  <2>0. d \in Seq(Pieces) /\ y \in Pieces /\ Len(d) \in Nat /\ DOMAIN d = 1..Len(d)
    <3> HIDE DEF s, d, n, x, y
    <3>1. QED
        BY ONLY <1>3, <2>1
  <2> HIDE DEF s, d, n, x, y
  <2>3. <<y>> \in Seq(Pieces) /\ Len(<<y>>) = 1 /\ <<y>>[1] = y /\ 1 \in 1..Len(<<y>>)
      BY ONLY <2>0
  <2> HIDE DEF f
  <2>4. /\ f \in Seq(Pieces) /\ Len(f) = Len(d) + Len(<<y>>) /\ Len(d) \in Nat
        /\ \A i \in 1..Len(d) : f[i] = d[i]
        /\ \A i \in 1..Len(<<y>>) : f[Len(d) + i] = <<y>>[i]
      BY ONLY <2>0, <2>3, Appended DEF f
  <2>5. Len(f) = Len(d) + 1 /\ f[Len(d) + 1] = y /\ DOMAIN f = 1..(Len(d) + 1) /\ DOMAIN d = 1..Len(d)
    <3>1. Len(f) = Len(d) + 1 /\ f[Len(d) + 1] = y
        BY <2>3, <2>4
    <3>2. QED
        BY ONLY <2>0, <2>4, <3>1
  <2>6. Grown(c, d, f)
    <3>1. \A i \in DOMAIN f : i \notin DOMAIN d => i = Len(d) + 1
        BY <2>4, <2>5
    <3>2. \A i \in DOMAIN d : i \in DOMAIN f /\ f[i] = d[i]
        BY <2>4, <2>5
    <3>3. y.no = caller[c].seqno /\ y.part # "first"
        BY <1>3, <2>1 DEF n
    <3>4. QED
        BY <2>5, <3>1, <3>2, <3>3 DEF Grown
  <2>7. ASSUME streams[s].peer \notin overrun PROVE GrownRow(c, f, "return")
    <3>1. /\ Whole(d) /\ Ordered(d) /\ Len(d) % 2 = 1 /\ d[Len(d)].no = n
          /\ \A i \in DOMAIN d : d[i].no <= n
        BY <1>1, <1>3, <2>1, <2>7 DEF Row, s, n
    <3>2. f[Len(d) + 1] = [no |-> n, part |-> "rest"]
        BY <2>5 DEF y
    <3>3. Whole(f) /\ Ordered(f) /\ Len(f) % 2 # 1 /\ \A i \in DOMAIN f : f[i].no <= n
        BY <1>3, <2>1, <2>4, <2>5, <3>1, <3>2, RestAppended
    <3>4. QED
        BY <3>3 DEF GrownRow, n
  <2>8. s = caller[c].stream /\ d = streams[s].data /\ Goto(c, "return") /\ d \in Seq(Pieces)
      BY <1>3, <1>4, <2>1 DEF s, d
  <2>9. QED
      BY <1>1, <2>1, <2>2, <2>4, <2>6, <2>7, <2>8, MessageWritten
<1>5. CASE /\ Open(s) /\ At(c, "flush all") /\ Goto(c, "return")
           /\ streams' = WithData(s, <<Piece(c, "first"), Piece(c, "rest")>>)
  <2> DEFINE g == <<x, y>>
             h == d \o <<x>>
             f == d \o g
  <2>1. s \in DOMAIN streams /\ caller[c].pc = "flush all" /\ Unwritten(c)
      BY <1>5 DEF Open, At, Unwritten
  <2>2. DataBecomes(s, f)
      BY <1>5 DEF DataBecomes, WithData, Piece
  <2>0. d \in Seq(Pieces) /\ x \in Pieces /\ y \in Pieces /\ Len(d) \in Nat /\ DOMAIN d = 1..Len(d)
    <3> HIDE DEF s, d, n, x, y
    <3>1. QED
        BY ONLY <1>3, <2>1
  <2> HIDE DEF s, d, n, x, y
  <2>3. g \in Seq(Pieces) /\ Len(g) = 2 /\ g[1] = x /\ g[2] = y /\ 1 \in 1..Len(g) /\ 2 \in 1..Len(g)
      BY ONLY <2>0
  <2>4. <<x>> \in Seq(Pieces) /\ Len(<<x>>) = 1 /\ <<x>>[1] = x /\ 1 \in 1..Len(<<x>>)
      BY ONLY <2>0
  <2> HIDE DEF f, g, h
  <2>5. /\ f \in Seq(Pieces) /\ Len(f) = Len(d) + Len(g) /\ Len(d) \in Nat
        /\ \A i \in 1..Len(d) : f[i] = d[i]
        /\ \A i \in 1..Len(g) : f[Len(d) + i] = g[i]
    <3>1. d \in Seq(Pieces) /\ g \in Seq(Pieces) /\ f = d \o g
        BY <2>0, <2>3 DEF f
    <3>2. QED
        BY ONLY <3>1, Appended
  <2>6. /\ h \in Seq(Pieces) /\ Len(h) = Len(d) + Len(<<x>>)
        /\ \A i \in 1..Len(d) : h[i] = d[i]
        /\ \A i \in 1..Len(<<x>>) : h[Len(d) + i] = <<x>>[i]
      BY ONLY <2>0, <2>4, Appended DEF h
  <2>7. /\ Len(f) = Len(d) + 2 /\ f[Len(d) + 1] = x /\ f[Len(d) + 2] = y
        /\ Len(h) = Len(d) + 1 /\ h[Len(d) + 1] = x
      BY <2>3, <2>4, <2>5, <2>6
  <2>8. DOMAIN f = 1..(Len(d) + 2) /\ DOMAIN d = 1..Len(d)
      BY ONLY <2>0, <2>5, <2>7
  <2>9. Grown(c, d, f)
    <3>1. \A i \in DOMAIN f : i \notin DOMAIN d => i = Len(d) + 1 \/ i = Len(d) + 2
        BY <2>5, <2>8
    <3>2. \A i \in DOMAIN d : i \in DOMAIN f /\ f[i] = d[i]
        BY <2>5, <2>8
    <3>3. x.no = caller[c].seqno /\ y.no = caller[c].seqno /\ y.part # "first"
        BY <1>3, <2>1 DEF n
    <3>4. QED
        BY <2>1, <2>7, <3>1, <3>2, <3>3 DEF Grown
  <2>10. ASSUME streams[s].peer \notin overrun PROVE GrownRow(c, f, "return")
    <3>1. Whole(d) /\ Ordered(d) /\ Len(d) % 2 # 1 /\ \A i \in DOMAIN d : d[i].no <= n
        BY <1>1, <1>3, <2>1, <2>10 DEF Row, s, n
    <3>2. h[Len(d) + 1] = [no |-> n, part |-> "first"]
        BY <2>7 DEF x
    <3>3. /\ Whole(h) /\ Ordered(h) /\ Len(h) % 2 = 1 /\ h[Len(h)].no = n
          /\ \A i \in DOMAIN h : h[i].no <= n
        BY <1>3, <2>1, <2>6, <2>7, <3>1, <3>2, FirstAppended
    <3>4. Len(f) = Len(h) + 1 /\ f[Len(h) + 1] = [no |-> n, part |-> "rest"]
      <4>1. f[Len(h) + 1] = y
          BY <2>5, <2>7
      <4>2. QED
          BY <2>5, <2>7, <4>1 DEF y
    <3>5. \A i \in 1..Len(h) : f[i] = h[i]
      <4>1. \A i \in 1..Len(h) : i # Len(d) + 1 => i \in 1..Len(d)
          BY <2>5, <2>7
      <4>2. QED
          BY <2>5, <2>6, <2>7, <4>1
    <3>6. Whole(f) /\ Ordered(f) /\ Len(f) % 2 # 1 /\ \A i \in DOMAIN f : f[i].no <= n
        BY <1>3, <2>1, <2>5, <2>6, <3>3, <3>4, <3>5, RestAppended
    <3>7. QED
        BY <3>6 DEF GrownRow, n
  <2>11. s = caller[c].stream /\ d = streams[s].data /\ Goto(c, "return") /\ d \in Seq(Pieces)
      BY <1>3, <1>5, <2>1 DEF s, d
  <2>12. QED
      BY <1>1, <2>1, <2>2, <2>5, <2>9, <2>10, <2>11, MessageWritten
<1>6. QED
    BY <1>1, <1>2, <1>4, <1>5 DEF Flush, At
-----------------------------------------------------------------------------
(* The receiver takes a whole message: a number it has not seen, which is  *)
(* nowhere else on its way.                                                *)
MessageRead(s, d) ==
    /\ seen' = [seen EXCEPT ![streams[s].peer] = @ \cup {d[1].no}]
    /\ refused' = refused \cup ({d[1].no} \cap seen[streams[s].peer])

LEMMA WholeMessageRead ==
    ASSUME IInv, NEW s \in DOMAIN streams, NEW d, d = streams[s].data, WholeFirst(d),
           NEW f, f = SubSeq(d, 3, Len(d)), DataBecomes(s, f), MessageRead(s, d),
           UNCHANGED <<caller, mutexVars, counter, conns>>
    PROVE  IInv'
<1>1. Types /\ UNCHANGED <<caller, cache, holder, overrun, counter, conns>>
    BY DEF IInv, mutexVars
<1>2. streams[s] \in StreamStates /\ d \in Seq(Pieces) /\ streams[s].peer \in Peers /\ Len(d) >= 2
  <2>1. streams[s] \in StreamStates
      BY <1>1 DEF Types
  <2>2. QED
      BY <2>1 DEF StreamStates, WholeFirst
<1>3. /\ f \in Seq(Pieces) /\ Len(f) = Len(d) - 2
      /\ \A i \in DOMAIN f : i \in Nat /\ i + 2 \in DOMAIN d /\ f[i] = d[i + 2]
      /\ Len(f) % 2 = Len(d) % 2
      /\ Whole(d) => Whole(f)
      /\ Ordered(d) => Ordered(f)
    BY ONLY <1>2, f = SubSeq(d, 3, Len(d)), WholeRemoved
<1>4. /\ DOMAIN streams' = DOMAIN streams /\ streams'[s].data = f
      /\ \A t \in DOMAIN streams : streams'[t].peer = streams[t].peer /\ streams'[t].conn = streams[t].conn
      /\ \A t \in DOMAIN streams : t # s => streams'[t] = streams[t]
      /\ streams' \in [DOMAIN streams' -> StreamStates]
  <2>1. streams \in [DOMAIN streams -> StreamStates]
      BY <1>1 DEF Types
  <2>2. DOMAIN streams' = DOMAIN streams /\ \A t \in DOMAIN streams : t # s => streams'[t] = streams[t]
      BY <2>1 DEF DataBecomes
  <2>3. streams'[s] = [streams[s] EXCEPT !.data = f]
      BY <2>1 DEF DataBecomes
  <2>4. f \in Seq(Pieces)
      BY <1>3
  <2>5. /\ streams'[s] \in StreamStates /\ streams'[s].data = f
        /\ streams'[s].peer = streams[s].peer /\ streams'[s].conn = streams[s].conn
      BY ONLY <1>2, <2>3, <2>4 DEF StreamStates
  <2>6. streams' = [t \in DOMAIN streams |-> streams'[t]]
      BY <2>1 DEF DataBecomes
  <2>7. \A t \in DOMAIN streams : streams'[t] \in StreamStates
      BY <2>1, <2>2, <2>5
  <2>8. QED
      BY <2>2, <2>5, <2>6, <2>7
<1> DEFINE n == d[1].no
           p == streams[s].peer
<1>5. FirstAt(s, 1) /\ streams[s].data[1].no = n /\ n \in 1..counter
  <2>1. 1 \in DOMAIN d /\ d[1].part = "first"
      BY <1>2 DEF WholeFirst
  <2>2. QED
      BY <2>1 DEF FirstAt, IInv, NumbersInv
<1>6. /\ seen \in [Peers -> SUBSET (1..counter)] /\ seen' \in [Peers -> SUBSET (1..counter)]
      /\ \A q \in Peers : seen'[q] \subseteq seen[q] \cup {n}
    BY <1>1, <1>2, <1>5 DEF Types, MessageRead
<1> HIDE DEF n, p
<1>7. Types'
  <2>1. \A t \in DOMAIN streams' : streams'[t].conn \in conns'[streams'[t].peer]
      BY <1>1, <1>4 DEF Types
  <2>2. QED
      BY <1>1, <1>4, <1>6, <2>1 DEF Types
<1>8. CallersKept
    BY <1>1 DEF CallersKept
<1>9. LockInv' /\ MutexInv'
    BY <1>8, MutexesKept
<1>10. \A e \in Callers : (Writing(e)' <=> Writing(e)) /\ (Unwritten(e)' <=> Unwritten(e))
    BY <1>1 DEF Writing, Unwritten
<1>11. WriterInv'
  <2>1. \A t \in DOMAIN streams' : t \in DOMAIN streams /\ streams'[t].peer = streams[t].peer
      BY <1>4
  <2>2. QED
      BY <1>1, <1>10, <2>1 DEF IInv, WriterInv
<1>12. RowsInv'
  <2> SUFFICES ASSUME NEW t \in DOMAIN streams', NEW b \in Seq(Pieces), b = streams'[t].data,
                      streams'[t].peer \notin overrun'
               PROVE  Row(t, b)'
      BY DEF RowsInv
  <2>1. CASE t # s
    <3>1. t \in DOMAIN streams /\ b = streams[t].data /\ streams[t].peer \notin overrun
        BY <1>1, <1>4, <2>1
    <3>2. Row(t, b)
        BY <3>1 DEF IInv, RowsInv
    <3>3. caller' = caller /\ \A e \in Callers : Writing(e)' <=> Writing(e)
        BY <1>1, <1>10
    <3>4. QED
        BY ONLY <3>2, <3>3 DEF Row, Whole, Ordered
  <2>2. CASE t = s
    <3>1. b = f /\ streams[s].peer \notin overrun
        BY <1>1, <1>4, <2>2
    <3>2. Row(s, d)
        BY <1>2, <3>1 DEF IInv, RowsInv
    <3>3. ASSUME NEW e \in Callers, caller[e].stream = s
          PROVE  /\ caller[e].pc = "flush rest" => Len(f) % 2 = 1 /\ f[Len(f)].no = caller[e].seqno
                 /\ Writing(e) => \A i \in DOMAIN f : f[i].no <= caller[e].seqno
      <4>1. ASSUME caller[e].pc = "flush rest" PROVE Len(f) % 2 = 1 /\ f[Len(f)].no = caller[e].seqno
        <5>1. Len(d) % 2 = 1 /\ d[Len(d)].no = caller[e].seqno
            BY <3>2, <3>3, <4>1 DEF Row
        <5>2. Len(d) \in Nat /\ Len(d) # 2 /\ Len(d) >= 2
          <6>1. Len(d) \in Nat /\ Len(d) >= 2
              BY <1>2
          <6>2. QED
              BY ONLY <5>1, <6>1
        <5>3. Len(f) \in DOMAIN f /\ Len(f) + 2 = Len(d)
          <6>1. f \in Seq(Pieces) /\ Len(f) = Len(d) - 2
              BY <1>3
          <6>2. Len(f) \in 1..Len(f) /\ Len(f) + 2 = Len(d)
              BY ONLY <5>2, <6>1
          <6>3. QED
              BY ONLY <6>1, <6>2
        <5>4. f[Len(f)] = d[Len(d)]
            BY <1>3, <5>3
        <5>5. QED
            BY <1>3, <5>1, <5>4
      <4>2. ASSUME Writing(e), NEW i \in DOMAIN f PROVE f[i].no <= caller[e].seqno
        <5>1. \A j \in DOMAIN d : d[j].no <= caller[e].seqno
            BY <3>2, <3>3, <4>2 DEF Row
        <5>2. QED
            BY <1>3, <5>1
      <4>3. QED
          BY <4>1, <4>2
    <3>4. ASSUME Len(f) % 2 = 1
          PROVE  \E e \in Callers : caller[e].stream = s /\ caller[e].pc = "flush rest"
      <4>1. Len(d) % 2 = 1
          BY <1>3, <3>4
      <4>2. QED
          BY <3>2, <4>1 DEF Row
    <3>5. Whole(f) /\ Ordered(f)
        BY <1>3, <3>2 DEF Row
    <3>6. ASSUME NEW e \in Callers, caller'[e].stream = s
          PROVE  /\ caller'[e].pc = "flush rest" => Len(f) % 2 = 1 /\ f[Len(f)].no = caller'[e].seqno
                 /\ Writing(e)' => \A i \in DOMAIN f : f[i].no <= caller'[e].seqno
      <4>1. caller' = caller /\ (Writing(e)' <=> Writing(e))
          BY <1>1, <1>10
      <4>2. QED
          BY ONLY <3>3, <3>6, <4>1, e \in Callers
    <3>7. ASSUME Len(f) % 2 = 1
          PROVE  \E e \in Callers : caller'[e].stream = s /\ caller'[e].pc = "flush rest"
      <4>1. caller' = caller
          BY <1>1
      <4>2. QED
          BY <3>4, <3>7, <4>1
    <3>8. QED
        BY ONLY <2>2, <3>1, <3>5, <3>6, <3>7 DEF Row, Whole, Ordered
  <2>3. QED
      BY <2>1, <2>2
<1>13. NumbersInv'
  <2>0. DOMAIN streams' = DOMAIN streams
      BY <1>4
  <2>1. ASSUME NEW t \in DOMAIN streams, NEW i \in DOMAIN streams'[t].data
        PROVE  IF t = s THEN /\ i \in Nat /\ i + 2 \in DOMAIN streams[t].data
                             /\ streams'[t].data[i] = streams[t].data[i + 2]
                        ELSE i \in DOMAIN streams[t].data /\ streams'[t].data[i] = streams[t].data[i]
    <3>1. CASE t = s
        BY <1>3, <1>4, <2>1, <3>1
    <3>2. CASE t # s
        BY <1>4, <2>1, <3>2
    <3>3. QED
        BY <3>1, <3>2
  <2> DEFINE Old(t, i) == IF t = s THEN i + 2 ELSE i
  <2>2. ASSUME NEW t \in DOMAIN streams, NEW i \in DOMAIN streams'[t].data
        PROVE  /\ Old(t, i) \in DOMAIN streams[t].data
               /\ streams'[t].data[i] = streams[t].data[Old(t, i)]
      BY <2>1
  <2>3. \A t \in DOMAIN streams, i \in Nat : Old(t, i) \in Nat /\ (t = s => Old(t, i) # 1)
      OBVIOUS
  <2>4. \A t \in DOMAIN streams, i, j \in Nat : Old(t, i) = Old(t, j) => i = j
      OBVIOUS
  <2> HIDE DEF Old
  <2>5. ASSUME NEW t \in DOMAIN streams, NEW i \in DOMAIN streams'[t].data
        PROVE  streams'[t].data[i].no \in 1..counter'
    <3>1. streams[t].data[Old(t, i)].no \in 1..counter
        BY <2>2, <2>5 DEF IInv, NumbersInv
    <3>2. QED
        BY <1>1, <2>2, <2>5, <3>1
  <2>6. ASSUME NEW t \in DOMAIN streams, NEW i \in Nat, FirstAt(t, i)'
        PROVE  /\ FirstAt(t, Old(t, i)) /\ streams'[t].data[i].no = streams[t].data[Old(t, i)].no
               /\ streams'[t].data[i].no # n
    <3>1. i \in DOMAIN streams'[t].data /\ streams'[t].data[i].part = "first"
        BY <2>6 DEF FirstAt
    <3>2. FirstAt(t, Old(t, i)) /\ streams'[t].data[i].no = streams[t].data[Old(t, i)].no
        BY <2>2, <3>1 DEF FirstAt
    <3>3. ~(t = s /\ Old(t, i) = 1) /\ Old(t, i) \in Nat
        BY <2>3
    <3>4. streams[t].data[Old(t, i)].no # n
        BY <1>5, <3>2, <3>3 DEF IInv, NumbersInv
    <3>5. QED
        BY <3>2, <3>4
  <2>7. ASSUME NEW t \in DOMAIN streams, NEW u \in DOMAIN streams, NEW i \in Nat, NEW j \in Nat,
               FirstAt(t, i)', FirstAt(u, j)', streams'[t].data[i].no = streams'[u].data[j].no
        PROVE  t = u /\ i = j
    <3>1. FirstAt(t, Old(t, i)) /\ FirstAt(u, Old(u, j)) /\ Old(t, i) \in Nat /\ Old(u, j) \in Nat
          /\ streams[t].data[Old(t, i)].no = streams[u].data[Old(u, j)].no
        BY <2>3, <2>6, <2>7
    <3>2. t = u /\ Old(t, i) = Old(u, j)
        BY <3>1 DEF IInv, NumbersInv
    <3>3. QED
        BY <2>4, <3>2
  <2>8. ASSUME NEW t \in DOMAIN streams, NEW i \in Nat, FirstAt(t, i)', NEW q \in Peers
        PROVE  streams'[t].data[i].no \notin seen'[q]
    <3>1. FirstAt(t, Old(t, i)) /\ Old(t, i) \in Nat
        BY <2>3, <2>6, <2>8
    <3>2. streams[t].data[Old(t, i)].no \notin seen[q]
        BY <3>1 DEF IInv, NumbersInv
    <3>3. QED
        BY <1>6, <2>6, <2>8, <3>2
  <2>9. ASSUME NEW e \in Callers, Unwritten(e)
        PROVE  /\ \A t \in DOMAIN streams : \A i \in Nat : FirstAt(t, i)' =>
                    streams'[t].data[i].no # caller[e].seqno
               /\ \A q \in Peers : caller[e].seqno \notin seen'[q]
    <3>1. /\ \A t \in DOMAIN streams : \A i \in Nat : FirstAt(t, i) =>
               streams[t].data[i].no # caller[e].seqno
          /\ \A q \in Peers : caller[e].seqno \notin seen[q]
        BY <2>9 DEF IInv, NumbersInv
    <3>2. caller[e].seqno # n
        BY <1>5, <3>1
    <3>3. ASSUME NEW t \in DOMAIN streams, NEW i \in Nat, FirstAt(t, i)'
          PROVE  streams'[t].data[i].no # caller[e].seqno
      <4>1. FirstAt(t, Old(t, i)) /\ streams'[t].data[i].no = streams[t].data[Old(t, i)].no
          BY <2>6, <3>3
      <4>2. Old(t, i) \in Nat
          BY <2>3
      <4>3. QED
          BY <3>1, <4>1, <4>2
    <3>4. \A q \in Peers : caller[e].seqno \notin seen'[q]
        BY <1>6, <3>1, <3>2
    <3>5. QED
        BY <3>3, <3>4
  <2>10. refused' = {}
    <3>1. refused = {} /\ n \notin seen[p]
      <4>1. refused = {} /\ \A q \in Peers : n \notin seen[q]
          BY <1>5 DEF IInv, NumbersInv
      <4>2. QED
          BY <1>2, <4>1 DEF p
    <3>2. QED
        BY <3>1 DEF MessageRead, n, p
  <2>11. \A e, g \in Callers : Unwritten(e) /\ Unwritten(g) /\ caller[e].seqno = caller[g].seqno => e = g
      BY DEF IInv, NumbersInv
  <2>12. QED
      BY <1>1, <1>10, <2>0, <2>5, <2>7, <2>8, <2>9, <2>10, <2>11 DEF NumbersInv
<1>14. QED
    BY <1>7, <1>9, <1>11, <1>12, <1>13 DEF IInv

LEMMA DirectStreamHandlerInv ==
    ASSUME IInv, NEW s \in DOMAIN streams, DirectStreamHandler(s)
    PROVE  IInv'
<1>1. UNCHANGED <<caller, mutexVars, counter, conns>>
    BY DEF DirectStreamHandler
<1>2. CASE streams' = WithoutStreams({s}) /\ UNCHANGED <<seen, refused>>
  <2>1. Types /\ UNCHANGED <<cache, holder, overrun>>
      BY <1>1 DEF IInv, mutexVars
  <2>2. /\ DOMAIN streams' \subseteq Streams /\ streams' \in [DOMAIN streams' -> StreamStates]
        /\ StreamsOnlyEnd
      BY <1>2, <2>1, WithoutStreamsTypes
  <2>3. \A t \in DOMAIN streams' : streams'[t].conn \in conns'[streams'[t].peer]
      BY <1>1, <2>1, <2>2 DEF Types, StreamsOnlyEnd
  <2>4. Types'
      BY <1>1, <1>2, <2>1, <2>2, <2>3 DEF Types
  <2>5. CallersKept /\ WritersKept
      BY <1>1, CallersUnchanged
  <2>6. SameStreams /\ overrun \subseteq overrun'
      BY <1>1, <2>1 DEF SameStreams
  <2>7. counter' \in Nat /\ counter <= counter'
      BY <1>1, <2>1, SameCounter DEF Types
  <2>8. LockInv' /\ MutexInv'
      BY <1>1, <2>5, MutexesKept
  <2>9. WriterInv'
      BY <2>2, <2>5, <2>6, <2>7, WritersStay
  <2>10. RowsInv' /\ NumbersInv'
      BY <1>2, <2>2, <2>5, <2>6, <2>7, FewerStreams, NothingWritten
  <2>11. QED
      BY <2>4, <2>8, <2>9, <2>10 DEF IInv
<1>3. ASSUME NEW d, d = streams[s].data, WholeFirst(d),
             streams' = [streams EXCEPT ![s].data = SubSeq(d, 3, Len(d))],
             seen' = [seen EXCEPT ![streams[s].peer] = @ \cup {d[1].no}],
             refused' = refused \cup ({d[1].no} \cap seen[streams[s].peer])
      PROVE  IInv'
  <2>1. DataBecomes(s, SubSeq(d, 3, Len(d))) /\ MessageRead(s, d)
      BY <1>3 DEF DataBecomes, MessageRead
  <2>2. QED
      BY <1>1, <1>3, <2>1, WholeMessageRead
<1>4. QED
    BY <1>2, <1>3 DEF DirectStreamHandler
-----------------------------------------------------------------------------
LEMMA Invariance == IInv /\ [Next]_vars => IInv'
<1> SUFFICES ASSUME IInv, [Next]_vars PROVE IInv'
    OBVIOUS
<1>1. CASE UNCHANGED vars
  <2>1. UNCHANGED <<caller, mutexVars, counter, conns, streams, seen, refused>>
      BY <1>1 DEF vars, mutexVars
  <2>2. Types /\ Types'
      BY <2>1 DEF IInv, Types, mutexVars
  <2>3. CallersKept /\ WritersKept
      BY <2>1, CallersUnchanged
  <2>4. StreamsOnlyEnd /\ SameStreams /\ overrun \subseteq overrun'
      BY <2>1 DEF StreamsOnlyEnd, SameStreams, mutexVars
  <2>5. counter' \in Nat /\ counter <= counter'
      BY <2>1, <2>2, SameCounter DEF Types
  <2>6. LockInv' /\ MutexInv' /\ WriterInv'
      BY <2>1, <2>3, <2>4, <2>5, MutexesKept, WritersStay
  <2>7. RowsInv' /\ NumbersInv'
      BY <2>1, <2>3, <2>4, <2>5, FewerStreams, NothingWritten
  <2>8. QED
      BY <2>2, <2>6, <2>7 DEF IInv
<1>2. ASSUME NEW c \in Callers, SendStep(c) PROVE IInv'
    BY <1>2, LockStepInv, GetConnectionInv, GetOrCreateStreamInv, CreateMessageInv, WriteMsgInv,
       FlushInv, SendReturnsInv DEF SendStep
<1>3. QED
    BY <1>1, <1>2, SendToConnectedPeerInv, ConnectionMadeInv, ConnectionLostInv,
       DirectStreamHandlerInv, SendDirectToSelfInv, RestartInv DEF Next

LEMMA InvariantHolds == Spec => []IInv
    BY IInvInit, Invariance, PTL DEF Spec

(* What the run checks follows: whole messages in order on every stream    *)
(* whose peer kept its mutex.                                              *)
LEMMA IInvStreams == IInv => StreamInv
<1> SUFFICES ASSUME IInv PROVE StreamInv
    OBVIOUS
<1>1. TypeOK
  <2>1. IsInjective(cache) /\ \A i \in DOMAIN cache : cache[i] \in [key : Peers, mutex : Mutexes]
    <3>1. \A i, j \in DOMAIN cache : cache[i] = cache[j] => i = j
        BY DEF IInv, MutexInv
    <3>2. \A i \in DOMAIN cache : cache[i] \in Entries
        BY DEF IInv, Types
    <3>3. QED
        BY <3>1, <3>2 DEF IsInjective, Entries
  <2>2. refused \subseteq 1..counter
      BY DEF IInv, NumbersInv
  <2>3. QED
      BY <2>1, <2>2 DEF IInv, Types, TypeOK, CallerStates, Places
<1>2. ASSUME NEW s \in DOMAIN streams, streams[s].peer \notin overrun, NEW d, d = streams[s].data
      PROVE  Whole(d) /\ Ordered(d)
  <2>1. d \in Seq(Pieces)
    <3>1. streams[s] \in StreamStates
        BY DEF IInv, Types
    <3>2. QED
        BY <1>2, <3>1 DEF StreamStates
  <2>2. QED
      BY <1>2, <2>1 DEF IInv, RowsInv, Row
<1>3. StreamsHoldWholeMessages
    BY <1>2 DEF StreamsHoldWholeMessages, Whole
<1>4. NumbersIncreaseOnStream
    BY <1>2 DEF NumbersIncreaseOnStream, Ordered
<1>5. QED
    BY <1>1, <1>3, <1>4 DEF StreamInv

(* On every stream there is a row of whole messages in the order of their  *)
(* numbers, unless the mutex of its peer was dropped from the cache while  *)
(* a caller was using it (directSender.Send under MutexHolder.Get), for    *)
(* any number of callers, peers, connections and mutexes.                  *)
THEOREM WholeMessagesInOrder == Spec => []StreamInv
    BY InvariantHolds, IInvStreams, PTL

(* No peer refuses a message it has not got: a number is given out once,   *)
(* to callers, to messages the node sends itself and after restarts alike  *)
(* (directSender.NextSequenceNumber, checkAndSetSeenMessage).              *)
THEOREM NewMessagesAccepted == Spec => []NewMessagesAreNotRefused
<1>1. IInv => NewMessagesAreNotRefused
    BY DEF IInv, NumbersInv, NewMessagesAreNotRefused
<1>2. QED
    BY <1>1, InvariantHolds, PTL
=============================================================================
