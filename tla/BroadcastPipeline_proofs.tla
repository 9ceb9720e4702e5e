---------------------- MODULE BroadcastPipeline_proofs ----------------------
(***************************************************************************)
(* The way of a broadcast from its goroutine to the topic, proved for any  *)
(* number of broadcasts, names and channels: the throttler's counter never *)
(* goes below zero, no message is lost or doubled, and those of a channel  *)
(* stay in order.                                                          *)
(***************************************************************************)
EXTENDS BroadcastPipeline, FiniteSetTheorems, TLAPS

(* The broadcasts that have taken a place of the throttler and not given   *)
(* it back.  There are finitely many of them, whatever Broadcasts is.      *)
Active == {b \in Broadcasts : status[b] \in {"started", "sending", "sent", "panic"}}
ThrottleInv == IsFiniteSet(Active) /\ throttled = Cardinality(Active)

(* Where a message that was handed over can be.                            *)
Handed(b) == status[b] \in {"sent", "done"}
WithForwarder(b) == target[b] \in Ids /\ holding[target[b]] = b
WithCollector(b) == collector = "publish" /\ collected = b

(* A forwarding goroutine holds something exactly while it passes it on,   *)
(* and does not exist before its channel.                                  *)
GoroutinesInv ==
    /\ \A i \in Ids : i > created => forwarder[i] = "none"
    /\ \A i \in Ids : forwarder[i] = "push" <=> holding[i] # Nothing
    /\ collector = "publish" => collected \in Broadcasts
    /\ \A b \in Broadcasts : status[b] \in {"sending", "sent", "done", "panic"} => target[b] \in Ids

(* A message handed over is in one place, and none is before.              *)
PlacesInv ==
    /\ \A i \in Ids : holding[i] \in Broadcasts => target[holding[i]] = i
    /\ \A b \in Broadcasts :
         /\ WithForwarder(b) => Handed(b) /\ ~WithCollector(b) /\ ~Finished(b)
         /\ WithCollector(b) => Handed(b) /\ ~Finished(b)
         /\ Finished(b) => Handed(b)
         /\ Handed(b) => WithForwarder(b) \/ WithCollector(b) \/ Finished(b)

(* Of the messages a channel has accepted at most the last two are on      *)
(* their way: one with its goroutine, the one before it with the collector. *)
OrderInv ==
    \A n \in Names : \A i, j \in DOMAIN accepted[n] : \A x, y \in Broadcasts :
      x = accepted[n][i] /\ y = accepted[n][j] =>
        /\ Handed(x)
        /\ i < j /\ target[x] = target[y] /\ ~Finished(x) => WithCollector(x) /\ WithForwarder(y)

CoreInv == /\ TypeOK /\ accepted \in [Names -> Seq(Broadcasts)]
           /\ GoroutinesInv /\ PlacesInv /\ OrderInv
IInv == CoreInv /\ ThrottleInv

(* At the start there is the default channel and nothing on its way.       *)
LEMMA IInvInit == Init => IInv
<1> SUFFICES ASSUME Init PROVE IInv
    OBVIOUS
<1> USE MaxChannelsAssumption, BroadcastsAssumption
<1>1. 1 \in Ids
    BY DEF Ids
<1>2. TypeOK /\ accepted \in [Names -> Seq(Broadcasts)]
    BY <1>1 DEF Init, TypeOK, Objects, DefaultChannel
<1>3. GoroutinesInv
    BY DEF Init, GoroutinesInv, DefaultChannel, Ids
<1>4. PlacesInv
  <2>1. ASSUME NEW b \in Broadcasts
        PROVE ~WithForwarder(b) /\ ~WithCollector(b) /\ ~Finished(b) /\ ~Handed(b)
      BY DEF Init, WithForwarder, WithCollector, Finished, Handed, NoId, Nothing
  <2>2. \A i \in Ids : holding[i] \notin Broadcasts
      BY DEF Init, Nothing
  <2>3. QED
      BY <2>1, <2>2 DEF PlacesInv
<1>5. OrderInv
    BY DEF Init, OrderInv
<1>6. ThrottleInv
  <2>1. Active = {}
      BY DEF Init, Active
  <2>2. QED
      BY <2>1, FS_EmptySet DEF Init, ThrottleInv
<1>7. QED
    BY <1>2, <1>3, <1>4, <1>5, <1>6 DEF IInv, CoreInv
-----------------------------------------------------------------------------
(* The throttler's counter counts the active broadcasts, so EndProcessing  *)
(* finds at least its own place in it.                                     *)
LEMMA ThrottleStep ==
    ASSUME TypeOK, ThrottleInv, [Next]_vars
    PROVE  ThrottleInv' /\ throttled' \in Nat
<1>1. IsFiniteSet(Active) /\ throttled = Cardinality(Active)
    BY DEF ThrottleInv
<1>2. ASSUME Active' = Active, throttled' = throttled PROVE ThrottleInv' /\ throttled' \in Nat
    BY <1>1, <1>2, FS_CardinalityType DEF ThrottleInv
<1>3. ASSUME NEW b \in Broadcasts, StartProcessing(b) PROVE ThrottleInv' /\ throttled' \in Nat
  <2>1. Active' = Active \cup {b} /\ b \notin Active
      BY <1>3 DEF StartProcessing, Move, Active, TypeOK
  <2>2. /\ IsFiniteSet(Active') /\ Cardinality(Active') = Cardinality(Active) + 1
        /\ Cardinality(Active) \in Nat
      BY <1>1, <2>1, FS_AddElement, FS_CardinalityType
  <2>3. QED
      BY <1>1, <1>3, <2>2 DEF StartProcessing, ThrottleInv
<1>4. ASSUME NEW b \in Broadcasts, EndProcessing(b) PROVE ThrottleInv' /\ throttled' \in Nat
  <2>1. Active' = Active \ {b} /\ b \in Active
      BY <1>4 DEF EndProcessing, Move, Active, TypeOK
  <2>2. /\ IsFiniteSet(Active') /\ Cardinality(Active') = Cardinality(Active) - 1
        /\ Cardinality(Active') \in Nat
      BY <1>1, <2>1, FS_RemoveElement, FS_CardinalityType
  <2>3. QED
      BY <1>1, <1>4, <2>2 DEF EndProcessing, ThrottleInv
<1>5. ASSUME NEW b \in Broadcasts,
             CanProcess(b) \/ GetChannelOrDefault(b) \/ Handoff(b) \/ SendPanics(b)
      PROVE  Active' = Active /\ throttled' = throttled
  <2>1. /\ throttled' = throttled
        /\ \/ status[b] = "idle" /\ status' = [status EXCEPT ![b] = "allowed"]
           \/ status[b] = "idle" /\ status' = [status EXCEPT ![b] = "rejected"]
           \/ status[b] = "started" /\ status' = [status EXCEPT ![b] = "sending"]
           \/ status[b] = "sending" /\ status' = [status EXCEPT ![b] = "sent"]
           \/ status[b] = "sending" /\ status' = [status EXCEPT ![b] = "panic"]
      BY <1>5 DEF CanProcess, GetChannelOrDefault, Handoff, SendPanics, Move
  <2>2. QED
      BY <2>1 DEF Active, TypeOK
<1>6. CASE \/ UNCHANGED callVars
           \/ \E b \in Broadcasts : Broadcast(b)
    BY <1>2, <1>3, <1>4, <1>5, <1>6 DEF Broadcast, callVars, Active
<1>7. QED
    BY <1>6 DEF Next, vars, CreateTopic, RemoveChannel, UnJoinAllTopics, ReceiveNil, ForwarderEnds,
                Collector, CollectorTimer, CollectorEnds, CollectNothing, Publish,
                CollectOneElement, Close
-----------------------------------------------------------------------------
(* A step that moves no message: the messages on their way stay where they *)
(* are and in order.                                                       *)
LEMMA NothingMoves ==
    ASSUME CoreInv, UNCHANGED <<holding, finished, accepted>>,
           \A b \in Broadcasts : Handed(b)' = Handed(b) /\ WithCollector(b)' = WithCollector(b),
           \A b \in Broadcasts : Handed(b) => target'[b] = target[b]
    PROVE  PlacesInv' /\ OrderInv'
<1>1. PlacesInv /\ OrderInv /\ accepted \in [Names -> Seq(Broadcasts)]
    BY DEF CoreInv
<1>2. ASSUME NEW b \in Broadcasts PROVE Finished(b)' = Finished(b)
    BY DEF Finished
<1>3. ASSUME NEW b \in Broadcasts, NEW i \in Ids, holding[i] = b
      PROVE  Handed(b) /\ target[b] = i /\ target'[b] = i
    BY <1>1, <1>3 DEF PlacesInv, WithForwarder
<1>4. ASSUME NEW b \in Broadcasts PROVE WithForwarder(b)' = WithForwarder(b)
    BY <1>3 DEF WithForwarder
<1>5. PlacesInv'
    BY <1>1, <1>2, <1>3, <1>4 DEF PlacesInv
<1>6. OrderInv'
    BY <1>1, <1>2, <1>4 DEF OrderInv
<1>7. QED
    BY <1>5, <1>6

(* The calls around the handing over: nothing is handed over yet, or no    *)
(* more.                                                                   *)
LEMMA CallStep ==
    ASSUME CoreInv, throttled' \in Nat, NEW k \in Broadcasts,
           \/ CanProcess(k) \/ StartProcessing(k) \/ GetChannelOrDefault(k)
           \/ SendPanics(k) \/ EndProcessing(k)
    PROVE  CoreInv'
<1> USE MaxChannelsAssumption
<1>1. TypeOK /\ GoroutinesInv /\ accepted \in [Names -> Seq(Broadcasts)]
    BY DEF CoreInv
<1>2. /\ UNCHANGED <<name, chanVars, forwarder, holding, collector, collected, topics,
                     cancelled, histVars>>
      /\ \/ /\ UNCHANGED target
            /\ \/ /\ status[k] = "idle"
                  /\ \/ status' = [status EXCEPT ![k] = "allowed"]
                     \/ status' = [status EXCEPT ![k] = "rejected"]
               \/ status[k] = "allowed" /\ status' = [status EXCEPT ![k] = "started"]
               \/ status[k] = "sending" /\ status' = [status EXCEPT ![k] = "panic"]
               \/ status[k] = "sent" /\ status' = [status EXCEPT ![k] = "done"]
         \/ /\ status[k] = "started" /\ status' = [status EXCEPT ![k] = "sending"]
            /\ target' = [target EXCEPT ![k] = ChannelOrDefault(name[k])]
    BY DEF CanProcess, StartProcessing, GetChannelOrDefault, SendPanics, EndProcessing, Move
<1>3. ChannelOrDefault(name[k]) \in Ids
    BY <1>1 DEF ChannelOrDefault, TypeOK, Ids, NoId, DefaultChannel
<1>4. TypeOK' /\ (accepted \in [Names -> Seq(Broadcasts)])'
  <2>1. /\ status' \in [Broadcasts -> {"idle", "allowed", "rejected", "started", "sending",
                                       "sent", "done", "panic"}]
        /\ target' \in [Broadcasts -> Ids \cup {NoId}]
    <3>1. /\ status \in [Broadcasts -> {"idle", "allowed", "rejected", "started", "sending",
                                         "sent", "done", "panic"}]
          /\ target \in [Broadcasts -> Ids \cup {NoId}]
        BY <1>1 DEF TypeOK
    <3>2. \E v \in {"allowed", "rejected", "started", "panic", "done", "sending"} :
            status' = [status EXCEPT ![k] = v]
        BY ONLY <1>2
    <3>3. \/ UNCHANGED target
          \/ target' = [target EXCEPT ![k] = ChannelOrDefault(name[k])]
        BY ONLY <1>2
    <3>4. QED
        BY ONLY <1>3, <3>1, <3>2, <3>3
  <2>2. QED
      BY <1>1, <1>2, <2>1 DEF TypeOK, chanVars, histVars
<1>5. GoroutinesInv'
    BY <1>1, <1>2, <1>3, SMTT(30) DEF GoroutinesInv, TypeOK, chanVars
<1>6. PlacesInv' /\ OrderInv'
  <2>1. /\ \A b \in Broadcasts : Handed(b)' = Handed(b)
        /\ \A b \in Broadcasts : Handed(b) => target'[b] = target[b]
      BY <1>1, <1>2 DEF Handed, TypeOK
  <2>2. \A b \in Broadcasts : WithCollector(b)' = WithCollector(b)
      BY <1>2 DEF WithCollector
  <2>3. QED
      BY <1>2, <2>1, <2>2, NothingMoves DEF histVars
<1>7. QED
    BY <1>4, <1>5, <1>6 DEF CoreInv

(* Channels, topics and contexts come and go around the messages.          *)
LEMMA ChannelsStep ==
    ASSUME CoreInv, throttled' \in Nat,
           \/ \E n \in Names : RemoveChannel(n) \/ \E create \in BOOLEAN : CreateTopic(n, create)
           \/ UnJoinAllTopics
           \/ \E i \in Ids : ForwarderEnds(i)
           \/ CollectorTimer \/ CollectorEnds \/ CollectNothing
           \/ Close
    PROVE  CoreInv'
<1> USE MaxChannelsAssumption
<1>1. TypeOK /\ GoroutinesInv /\ accepted \in [Names -> Seq(Broadcasts)]
    BY DEF CoreInv
<1>2. UNCHANGED <<status, name, target, throttled, holding, collected, accepted, finished>>
    BY DEF RemoveChannel, CreateTopic, UnJoinAllTopics, ForwarderEnds, CollectorTimer,
           CollectorEnds, CollectNothing, Close, callVars, histVars
<1>3. /\ topics' \subseteq Names
      /\ cancelled' \subseteq {"handler", "balancer"}
      /\ closed' \subseteq Ids
  <2>1. ASSUME NEW n \in Names, RemoveChannel(n) PROVE <1>3!:
    <3>1. namesChans[n] \in Ids /\ closed' = closed \cup {namesChans[n]}
        BY <1>1, <2>1 DEF RemoveChannel, TypeOK
    <3>2. QED
        BY <1>1, <2>1, <3>1 DEF RemoveChannel, TypeOK
  <2>2. ASSUME NEW n \in Names, NEW create \in BOOLEAN, CreateTopic(n, create) PROVE <1>3!:
      BY <1>1, <2>2 DEF CreateTopic, TypeOK
  <2>3. CASE UnJoinAllTopics \/ Close
      BY <1>1, <2>3 DEF UnJoinAllTopics, Close, TypeOK, chanVars
  <2>4. CASE (\E i \in Ids : ForwarderEnds(i)) \/ CollectorTimer \/ CollectorEnds \/ CollectNothing
      BY <1>1, <2>4 DEF ForwarderEnds, CollectorTimer, CollectorEnds, CollectNothing,
                        TypeOK, chanVars
  <2>5. QED
      BY <2>1, <2>2, <2>3, <2>4
<1>4. \/ UNCHANGED collector
      \/ collector # "publish" /\ collector' \in {"wait", "collect", "ended"}
    BY DEF RemoveChannel, CreateTopic, UnJoinAllTopics, ForwarderEnds, CollectorTimer,
           CollectorEnds, CollectNothing, Close
<1>5. \/ UNCHANGED <<namesChans, created, forwarder>>
      \/ \E n \in Names : UNCHANGED <<created, forwarder>>
                          /\ namesChans' = [namesChans EXCEPT ![n] = NoId]
      \/ \E n \in Names : /\ created < MaxChannels /\ created' = created + 1
                          /\ namesChans' = [namesChans EXCEPT ![n] = created']
                          /\ forwarder' = [forwarder EXCEPT ![created'] = "recv"]
      \/ \E i \in Ids : /\ UNCHANGED <<namesChans, created>>
                        /\ forwarder[i] = "recv" /\ forwarder' = [forwarder EXCEPT ![i] = "ended"]
    BY DEF RemoveChannel, CreateTopic, AddChannel, UnJoinAllTopics, ForwarderEnds,
           CollectorTimer, CollectorEnds, CollectNothing, Close, chanVars
<1>6. /\ namesChans' \in [Names -> Ids \cup {NoId}]
      /\ created' \in Ids
      /\ forwarder' \in [Ids -> {"none", "recv", "push", "ended"}]
      /\ \A i \in Ids : i > created' => forwarder'[i] = "none"
      /\ \A i \in Ids : forwarder'[i] = "push" <=> forwarder[i] = "push"
  <2>1. CASE UNCHANGED <<namesChans, created, forwarder>>
      BY <1>1, <2>1 DEF TypeOK, GoroutinesInv
  <2>2. CASE \E n \in Names : UNCHANGED <<created, forwarder>>
                              /\ namesChans' = [namesChans EXCEPT ![n] = NoId]
      BY <1>1, <2>2 DEF TypeOK, GoroutinesInv
  <2>3. ASSUME NEW n \in Names,
               created < MaxChannels, created' = created + 1,
               namesChans' = [namesChans EXCEPT ![n] = created'],
               forwarder' = [forwarder EXCEPT ![created'] = "recv"]
        PROVE  <1>6!:
    <3>1. created \in Nat /\ created' \in Ids /\ forwarder[created'] = "none"
        BY <1>1, <2>3 DEF TypeOK, Ids, GoroutinesInv
    <3>2. /\ namesChans' \in [Names -> Ids \cup {NoId}]
          /\ forwarder' \in [Ids -> {"none", "recv", "push", "ended"}]
        BY <1>1, <2>3, <3>1 DEF TypeOK
    <3>3. \A i \in Ids : forwarder'[i] = IF i = created' THEN "recv" ELSE forwarder[i]
        BY <1>1, <2>3, <3>1 DEF TypeOK
    <3>4. \A i \in Ids : i > created' => i > created /\ i # created'
        BY <2>3, <3>1 DEF Ids
    <3>5. QED
        BY <1>1, <3>1, <3>2, <3>3, <3>4 DEF GoroutinesInv
  <2>4. ASSUME NEW k \in Ids, UNCHANGED <<namesChans, created>>,
               forwarder[k] = "recv", forwarder' = [forwarder EXCEPT ![k] = "ended"]
        PROVE  <1>6!:
      BY <1>1, <2>4 DEF TypeOK, GoroutinesInv
  <2>5. QED
      BY <1>5, <2>1, <2>2, <2>3, <2>4
<1>7. TypeOK' /\ (accepted \in [Names -> Seq(Broadcasts)])'
    BY <1>1, <1>2, <1>3, <1>4, <1>6 DEF TypeOK
<1>8. GoroutinesInv'
    BY <1>1, <1>2, <1>4, <1>6 DEF GoroutinesInv
<1>9. PlacesInv' /\ OrderInv'
  <2>1. \A b \in Broadcasts : Handed(b)' = Handed(b) /\ WithCollector(b)' = WithCollector(b)
      BY <1>2, <1>4 DEF Handed, WithCollector
  <2>2. QED
      BY <1>2, <2>1, NothingMoves
<1>10. QED
    BY <1>7, <1>8, <1>9 DEF CoreInv

(* A message is handed over to a goroutine that waits, so it holds none:   *)
(* what its channel accepted before is with the collector or finished.     *)
LEMMA HandoffStep ==
    ASSUME CoreInv, throttled' \in Nat, NEW k \in Broadcasts, Handoff(k)
    PROVE  CoreInv'
<1> USE MaxChannelsAssumption, BroadcastsAssumption
<1> DEFINE c == target[k]
<1>1. /\ TypeOK /\ GoroutinesInv /\ PlacesInv /\ OrderInv
      /\ accepted \in [Names -> Seq(Broadcasts)]
    BY DEF CoreInv
<1>2. /\ status[k] = "sending" /\ status' = [status EXCEPT ![k] = "sent"]
      /\ forwarder[c] = "recv" /\ forwarder' = [forwarder EXCEPT ![c] = "push"]
      /\ holding' = [holding EXCEPT ![c] = k]
      /\ accepted' = [accepted EXCEPT ![name[k]] = Append(@, k)]
      /\ UNCHANGED <<name, target, namesChans, created, closed, collector, collected, topics,
                     cancelled, finished>>
    BY DEF Handoff, Move, chanVars
<1>3. c \in Ids /\ holding[c] = Nothing /\ name[k] \in Names
    BY <1>1, <1>2 DEF GoroutinesInv, TypeOK
<1>4. /\ ~Handed(k) /\ ~WithForwarder(k) /\ ~WithCollector(k) /\ ~Finished(k)
    BY <1>1, <1>2 DEF PlacesInv, Handed
<1>5. /\ Handed(k)' /\ WithForwarder(k)' /\ ~WithCollector(k)' /\ ~Finished(k)'
    BY <1>1, <1>2, <1>3, <1>4 DEF Handed, WithForwarder, WithCollector, Finished, TypeOK
<1>6. ASSUME NEW b \in Broadcasts, b # k
      PROVE  /\ Handed(b)' = Handed(b) /\ WithForwarder(b)' = WithForwarder(b)
             /\ WithCollector(b)' = WithCollector(b) /\ Finished(b)' = Finished(b)
             /\ WithForwarder(b) => target[b] # c
  <2>1. Handed(b)' = Handed(b) /\ WithCollector(b)' = WithCollector(b) /\ Finished(b)' = Finished(b)
      BY <1>1, <1>2, <1>6 DEF Handed, WithCollector, Finished, TypeOK
  <2>2. WithForwarder(b)' = WithForwarder(b) /\ (WithForwarder(b) => target[b] # c)
      BY <1>1, <1>2, <1>3, <1>6 DEF WithForwarder, TypeOK
  <2>3. QED
      BY <2>1, <2>2
<1>7. TypeOK'
    BY <1>1, <1>2, <1>3 DEF TypeOK, Objects
<1>8. (accepted \in [Names -> Seq(Broadcasts)])'
    BY <1>1, <1>2, <1>3
<1>9. GoroutinesInv'
    BY <1>1, <1>2, <1>3 DEF GoroutinesInv, TypeOK
<1>10. PlacesInv'
  <2>1. \A i \in Ids : holding'[i] \in Broadcasts => target'[holding'[i]] = i
      BY <1>1, <1>2, <1>3 DEF PlacesInv, TypeOK
  <2>2. QED
      BY <1>1, <1>4, <1>5, <1>6, <2>1 DEF PlacesInv
<1>11. OrderInv'
  <2> SUFFICES ASSUME NEW n \in Names,
                      NEW i \in DOMAIN accepted'[n], NEW j \in DOMAIN accepted'[n],
                      NEW x \in Broadcasts, NEW y \in Broadcasts,
                      x = accepted'[n][i], y = accepted'[n][j]
               PROVE  /\ Handed(x)'
                      /\ i < j /\ target'[x] = target'[y] /\ ~Finished(x)'
                           => WithCollector(x)' /\ WithForwarder(y)'
      BY DEF OrderInv
  <2> DEFINE s == accepted[n]
  <2>1. /\ s \in Seq(Broadcasts)
        /\ \A l \in DOMAIN s : s[l] \in Broadcasts /\ Handed(s[l]) /\ s[l] # k
      BY <1>1, <1>4 DEF OrderInv
  <2>2. CASE i \in DOMAIN s /\ j \in DOMAIN s /\ x = s[i] /\ y = s[j]
    <3>1. /\ Handed(x) /\ x # k /\ y # k
          /\ i < j /\ target[x] = target[y] /\ ~Finished(x) => WithCollector(x) /\ WithForwarder(y)
        BY <1>1, <2>1, <2>2 DEF OrderInv
    <3>2. QED
        BY <1>2, <1>6, <3>1
  <2>3. CASE n # name[k]
    <3>1. accepted'[n] = s
        BY <1>1, <1>2, <2>3
    <3>2. QED
        BY <2>2, <3>1
  <2>4. CASE n = name[k]
    <3>1. accepted'[n] = Append(s, k)
        BY <1>1, <1>2, <1>3, <2>4
    <3>2. /\ DOMAIN accepted'[n] = 1..(Len(s) + 1) /\ DOMAIN s = 1..Len(s) /\ Len(s) \in Nat
          /\ accepted'[n][Len(s) + 1] = k
          /\ \A l \in DOMAIN s : accepted'[n][l] = s[l]
        BY <2>1, <3>1
    <3>3. CASE i = Len(s) + 1
        BY <1>5, <3>2, <3>3
    <3>4. CASE i \in DOMAIN s /\ j = Len(s) + 1
      <4>1. x = s[i] /\ x # k /\ Handed(x) /\ y = k
          BY <2>1, <3>2, <3>4
      <4>2. ASSUME target'[x] = target'[y], ~Finished(x)' PROVE WithCollector(x)'
        <5>1. target[x] = c /\ ~Finished(x) /\ ~WithForwarder(x)
            BY <1>2, <1>6, <4>1, <4>2
        <5>2. QED
            BY <1>1, <1>6, <4>1, <5>1 DEF PlacesInv
      <4>3. QED
          BY <1>5, <1>6, <4>1, <4>2
    <3>5. QED
        BY <2>2, <3>2, <3>3, <3>4
  <2>5. QED
      BY <2>3, <2>4
<1>12. QED
    BY <1>7, <1>8, <1>9, <1>10, <1>11 DEF CoreInv

(* A goroutine takes the nil object of a closed channel: no message moves. *)
LEMMA ReceiveNilStep ==
    ASSUME CoreInv, throttled' \in Nat, NEW k \in Ids, ReceiveNil(k)
    PROVE  CoreInv'
<1> USE MaxChannelsAssumption, BroadcastsAssumption
<1>1. /\ TypeOK /\ GoroutinesInv /\ PlacesInv /\ OrderInv
      /\ accepted \in [Names -> Seq(Broadcasts)]
    BY DEF CoreInv
<1>2. /\ forwarder[k] = "recv" /\ forwarder' = [forwarder EXCEPT ![k] = "push"]
      /\ holding' = [holding EXCEPT ![k] = NilObject]
      /\ UNCHANGED <<status, name, target, namesChans, created, closed, collector, collected,
                     topics, cancelled, accepted, finished>>
    BY DEF ReceiveNil, callVars, chanVars, histVars
<1>3. holding[k] = Nothing /\ NilObject # Nothing
    BY <1>1, <1>2 DEF GoroutinesInv, NilObject, Nothing
<1>4. TypeOK' /\ (accepted \in [Names -> Seq(Broadcasts)])'
    BY <1>1, <1>2 DEF TypeOK, Objects
<1>5. GoroutinesInv'
    BY <1>1, <1>2, <1>3 DEF GoroutinesInv, TypeOK
<1>6. ASSUME NEW b \in Broadcasts
      PROVE  /\ Handed(b)' = Handed(b) /\ WithForwarder(b)' = WithForwarder(b)
             /\ WithCollector(b)' = WithCollector(b) /\ Finished(b)' = Finished(b)
  <2>1. WithForwarder(b)' = WithForwarder(b)
      BY <1>1, <1>2, <1>3 DEF WithForwarder, TypeOK
  <2>2. QED
      BY <1>2, <2>1 DEF Handed, WithCollector, Finished
<1>7. PlacesInv'
  <2>1. \A i \in Ids : holding'[i] \in Broadcasts => target'[holding'[i]] = i
      BY <1>1, <1>2 DEF PlacesInv, TypeOK
  <2>2. QED
      BY <1>1, <1>6, <2>1 DEF PlacesInv
<1>8. OrderInv'
    BY <1>1, <1>2, <1>6 DEF OrderInv
<1>9. QED
    BY <1>4, <1>5, <1>7, <1>8 DEF CoreInv

(* A message goes from its goroutine to the collector, which had none: all *)
(* that the channel accepted before are finished.                          *)
LEMMA CollectStep ==
    ASSUME CoreInv, throttled' \in Nat, NEW k \in Ids, CollectOneElement(k)
    PROVE  CoreInv'
<1> USE MaxChannelsAssumption, BroadcastsAssumption
<1>1. /\ TypeOK /\ GoroutinesInv /\ PlacesInv /\ OrderInv
      /\ accepted \in [Names -> Seq(Broadcasts)]
    BY DEF CoreInv
<1>2. /\ collector = "collect" /\ forwarder[k] = "push"
      /\ collected' = holding[k]
      /\ collector' = IF holding[k] = NilObject THEN "wait" ELSE "publish"
      /\ holding' = [holding EXCEPT ![k] = Nothing]
      /\ forwarder' = [forwarder EXCEPT ![k] = "recv"]
      /\ UNCHANGED <<status, name, target, namesChans, created, closed, topics, cancelled,
                     accepted, finished>>
    BY DEF CollectOneElement, callVars, chanVars, histVars
<1>3. holding[k] \in Broadcasts \cup {NilObject}
    BY <1>1, <1>2 DEF TypeOK, Objects, GoroutinesInv
<1>4. TypeOK' /\ (accepted \in [Names -> Seq(Broadcasts)])'
  <2>1. holding' \in [Ids -> Objects] /\ collected' \in Objects
      BY <1>1, <1>2, <1>3 DEF TypeOK, Objects
  <2>2. /\ forwarder' \in [Ids -> {"none", "recv", "push", "ended"}]
        /\ collector' \in {"wait", "collect", "publish", "ended"}
      BY <1>1, <1>2 DEF TypeOK
  <2>3. QED
      BY <1>1, <1>2, <2>1, <2>2 DEF TypeOK
<1>5. GoroutinesInv'
  <2>1. /\ \A i \in Ids : i > created' => forwarder'[i] = "none"
        /\ \A i \in Ids : forwarder'[i] = "push" <=> holding'[i] # Nothing
      BY <1>1, <1>2 DEF GoroutinesInv, TypeOK
  <2>2. collector' = "publish" => collected' \in Broadcasts
      BY <1>2, <1>3
  <2>3. QED
      BY <1>1, <1>2, <2>1, <2>2 DEF GoroutinesInv
<1>6. ASSUME NEW b \in Broadcasts
      PROVE  /\ Handed(b)' = Handed(b) /\ Finished(b)' = Finished(b)
             /\ ~WithCollector(b) /\ WithCollector(b)' = (holding[k] = b)
             /\ WithForwarder(b)' = (WithForwarder(b) /\ holding[k] # b)
             /\ holding[k] = b => WithForwarder(b)
  <2>1. Handed(b)' = Handed(b) /\ Finished(b)' = Finished(b) /\ ~WithCollector(b)
      BY <1>2 DEF Handed, Finished, WithCollector
  <2>2. WithCollector(b)' = (holding[k] = b)
      BY <1>2, <1>3 DEF WithCollector
  <2>3. holding[k] = b => WithForwarder(b) /\ target[b] = k
      BY <1>1 DEF PlacesInv, WithForwarder
  <2>4. WithForwarder(b)' = (WithForwarder(b) /\ holding[k] # b)
      BY <1>1, <1>2, <2>3 DEF WithForwarder, TypeOK
  <2>5. QED
      BY <2>1, <2>2, <2>3, <2>4
<1>7. PlacesInv'
  <2>1. \A i \in Ids : holding'[i] \in Broadcasts => target'[holding'[i]] = i
      BY <1>1, <1>2 DEF PlacesInv, TypeOK
  <2>2. QED
      BY <1>1, <1>6, <2>1 DEF PlacesInv
<1>8. OrderInv'
    BY <1>1, <1>2, <1>6 DEF OrderInv
<1>9. QED
    BY <1>4, <1>5, <1>7, <1>8 DEF CoreInv

(* The collector's message is finished.                                    *)
LEMMA PublishStep ==
    ASSUME CoreInv, throttled' \in Nat, Publish
    PROVE  CoreInv'
<1> USE MaxChannelsAssumption, BroadcastsAssumption
<1>1. /\ TypeOK /\ GoroutinesInv /\ PlacesInv /\ OrderInv
      /\ accepted \in [Names -> Seq(Broadcasts)]
    BY DEF CoreInv
<1> DEFINE k == collected
<1>2. /\ collector = "publish" /\ collector' = "wait" /\ collected' = Nothing
      /\ \/ finished' = [finished EXCEPT ![k] = "published"]
         \/ finished' = [finished EXCEPT ![k] = "dropped"]
      /\ UNCHANGED <<status, name, target, namesChans, created, closed, forwarder, holding,
                     topics, cancelled, accepted>>
    BY DEF Publish, callVars, chanVars
<1>3. k \in Broadcasts /\ WithCollector(k)
    BY <1>1, <1>2 DEF GoroutinesInv, WithCollector
<1>4. TypeOK' /\ (accepted \in [Names -> Seq(Broadcasts)])'
    BY <1>1, <1>2, <1>3 DEF TypeOK, Objects
<1>5. GoroutinesInv'
    BY <1>1, <1>2 DEF GoroutinesInv
<1>6. ASSUME NEW b \in Broadcasts
      PROVE  /\ Handed(b)' = Handed(b) /\ WithForwarder(b)' = WithForwarder(b)
             /\ ~WithCollector(b)' /\ WithCollector(b) = (b = k)
             /\ Finished(b)' = (Finished(b) \/ b = k)
  <2>1. Finished(b)' = (Finished(b) \/ b = k)
      BY <1>1, <1>2, <1>3 DEF Finished, TypeOK
  <2>2. QED
      BY <1>2, <2>1 DEF Handed, WithForwarder, WithCollector
<1>7. PlacesInv'
  <2>1. \A i \in Ids : holding'[i] \in Broadcasts => target'[holding'[i]] = i
      BY <1>1, <1>2 DEF PlacesInv
  <2>2. QED
      BY <1>1, <1>3, <1>6, <2>1 DEF PlacesInv
<1>8. OrderInv'
  <2> SUFFICES ASSUME NEW n \in Names,
                      NEW i \in DOMAIN accepted[n], NEW j \in DOMAIN accepted[n],
                      NEW x \in Broadcasts, NEW y \in Broadcasts,
                      x = accepted[n][i], y = accepted[n][j]
               PROVE  /\ Handed(x)'
                      /\ i < j /\ target[x] = target[y] => Finished(x)'
      BY <1>2 DEF OrderInv
  <2>1. /\ Handed(x)
        /\ i < j /\ target[x] = target[y] => Finished(x) \/ WithCollector(x)
      BY <1>1 DEF OrderInv
  <2>2. QED
      BY <1>6, <2>1
<1>9. QED
    BY <1>4, <1>5, <1>7, <1>8 DEF CoreInv

(* The invariant holds in every reachable state.                           *)
LEMMA Invariance == Spec => []IInv
<1>1. ASSUME CoreInv, throttled' \in Nat, UNCHANGED vars PROVE CoreInv'
    BY <1>1 DEF vars, callVars, chanVars, histVars, CoreInv, TypeOK, GoroutinesInv, PlacesInv,
                OrderInv, Handed, Finished, WithForwarder, WithCollector
<1>2. ASSUME CoreInv, throttled' \in Nat, Next PROVE CoreInv'
    BY <1>2, CallStep, ChannelsStep, HandoffStep, ReceiveNilStep, CollectStep, PublishStep
       DEF Next, Broadcast, Collector
<1>3. IInv /\ [Next]_vars => IInv'
  <2> SUFFICES ASSUME IInv, [Next]_vars PROVE IInv'
      OBVIOUS
  <2>1. ThrottleInv' /\ throttled' \in Nat
      BY ThrottleStep DEF IInv, CoreInv
  <2>2. QED
      BY <1>1, <1>2, <2>1 DEF IInv
<1>4. QED
    BY IInvInit, <1>3, PTL DEF Spec
-----------------------------------------------------------------------------
(* Messages that went through one channel are published or dropped in the  *)
(* order the channel accepted them, for any number of channels, and the    *)
(* throttler's counter is a number of broadcasts (appendChannel,           *)
(* CollectOneElementFromChannels, processChannelLoadBalancer).             *)
THEOREM PipelineCorrect == Spec => []PipelineInv
<1>1. CoreInv => ChannelOrder
  <2> SUFFICES ASSUME CoreInv, NEW n \in Names,
                      NEW i \in DOMAIN accepted[n], NEW j \in DOMAIN accepted[n], i < j,
                      target[accepted[n][i]] = target[accepted[n][j]],
                      Finished(accepted[n][j])
               PROVE  Finished(accepted[n][i])
      BY DEF ChannelOrder
  <2>1. accepted[n][i] \in Broadcasts /\ accepted[n][j] \in Broadcasts
      BY DEF CoreInv
  <2>2. ~WithForwarder(accepted[n][j])
      BY <2>1 DEF CoreInv, PlacesInv
  <2>3. QED
      BY <2>1, <2>2 DEF CoreInv, OrderInv
<1>2. IInv => PipelineInv
    BY <1>1 DEF IInv, CoreInv, PipelineInv
<1>3. QED
    BY Invariance, <1>2, PTL

(* No message is lost or doubled between Broadcast and its topic, however  *)
(* many goroutines forward and whenever channels are removed or the        *)
(* handler is closed: handed over, it is in one place.                     *)
THEOREM NoneLostNoneDoubled == Spec => []MessagesConserved
<1>1. IInv => MessagesConserved
  <2> SUFFICES ASSUME IInv, NEW b \in Broadcasts
               PROVE  Cardinality({i \in Ids : holding[i] = b})
                      + (IF collector = "publish" /\ collected = b THEN 1 ELSE 0)
                      + (IF Finished(b) THEN 1 ELSE 0)
                        = IF status[b] \in {"sent", "done"} THEN 1 ELSE 0
      BY DEF MessagesConserved
  <2> DEFINE at == {i \in Ids : holding[i] = b}
  <2>1. PlacesInv
      BY DEF IInv, CoreInv
  <2>2. Cardinality(at) = IF WithForwarder(b) THEN 1 ELSE 0
    <3>1. CASE WithForwarder(b)
      <4>1. at = {target[b]}
          BY <2>1, <3>1 DEF PlacesInv, WithForwarder
      <4>2. QED
          BY <3>1, <4>1, FS_Singleton
    <3>2. CASE ~WithForwarder(b)
      <4>1. at = {}
          BY <2>1, <3>2 DEF PlacesInv, WithForwarder
      <4>2. QED
          BY <3>2, <4>1, FS_EmptySet
    <3>3. QED
        BY <3>1, <3>2
  <2>3. QED
      BY <2>1, <2>2 DEF PlacesInv, WithCollector, Handed
<1>2. QED
    BY Invariance, <1>1, PTL
=============================================================================
