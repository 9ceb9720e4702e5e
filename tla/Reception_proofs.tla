--------------------------- MODULE Reception_proofs ---------------------------
(***************************************************************************)
(* What a node makes of the messages it receives, proved for any messages, *)
(* peers and durations: how often a broadcast and how often a direct       *)
(* message is processed, whose fault it is when one never is, and why a    *)
(* peer is denied.                                                         *)
(***************************************************************************)
EXTENDS Reception, TLAPS
-----------------------------------------------------------------------------
(***************************************************************************)
(* Broadcasts by themselves (MessageFreshness).                            *)
(***************************************************************************)
NotAfter(i, j) == i.sec < j.sec \/ (i.sec = j.sec /\ i.frac <= j.frac)

(* What the cache knows of a message that has been processed: either it    *)
(* still holds it, since the first time or a later one, or the cache's     *)
(* duration has gone by since.                                             *)
CacheInv(m) ==
    /\ (processed[m] = 0) <=> (first[m] = Never)
    /\ seen[m] # Never => NotAfter(seen[m], now)
    /\ processed[m] >= 1 /\ seen[m] # Never => NotAfter(first[m], seen[m])
    /\ processed[m] >= 1 /\ seen[m] = Never => Expired(first[m])

(* What is known of the timestamp, and of the time, from the first and     *)
(* from the second time the message was processed.                         *)
TimesInv(m) ==
    /\ processed[m] >= 1 => timestamp[m] <= first[m].sec + AdvanceDuration
    /\ processed[m] >= 2 => timestamp[m] >= first[m].sec + CacheDuration - PastDuration
    /\ processed[m] >= 2 /\ seen[m] # Never => seen[m].sec >= first[m].sec + CacheDuration
    /\ processed[m] >= 2 /\ seen[m] = Never
         => now.sec >= first[m].sec + CacheDuration + CacheDuration
    /\ PastDuration + AdvanceDuration < 2 * CacheDuration => processed[m] <= 2

IInv == TypeOK /\ \A m \in Messages : CacheInv(m) /\ TimesInv(m)

(* The initial state: no message has been seen or processed.               *)
LEMMA IInvInit == Init => IInv
<1> SUFFICES ASSUME Init PROVE IInv
    OBVIOUS
<1>1. TypeOK
    BY DurationsAssumption DEF Init, TypeOK, Instants
<1>2. ASSUME NEW m \in Messages PROVE CacheInv(m) /\ TimesInv(m)
    BY <1>2, DurationsAssumption DEF Init, CacheInv, TimesInv
<1>3. QED
    BY <1>1, <1>2 DEF IInv

(* Time passing keeps every fact, as an entry only gets older.             *)
LEMMA TickStep == IInv /\ Tick => IInv'
<1> SUFFICES ASSUME IInv, Tick PROVE IInv'
    OBVIOUS
<1> USE DurationsAssumption
<1>1. now.sec \in 0..MaxSecond /\ now.frac \in 0..(Fractions - 1)
    BY DEF IInv, TypeOK, Instants
<1>2. /\ now' \in Instants
      /\ \/ now'.sec = now.sec /\ now'.frac = now.frac + 1
         \/ now'.sec = now.sec + 1 /\ now'.frac = 0
  <2>1. CASE now.frac + 1 < Fractions /\ now' = [now EXCEPT !.frac = @ + 1]
      BY <1>1, <2>1 DEF IInv, TypeOK, Instants
  <2>2. CASE /\ now.frac + 1 = Fractions
             /\ now.sec < MaxSecond
             /\ now' = [sec |-> now.sec + 1, frac |-> 0]
      BY <1>1, <2>2 DEF Instants
  <2>3. QED
      BY <2>1, <2>2 DEF Tick
<1>3. UNCHANGED <<timestamp, seen, processed, first>>
    BY DEF Tick
<1>4. TypeOK'
    BY <1>2, <1>3 DEF IInv, TypeOK
<1>5. ASSUME NEW m \in Messages PROVE CacheInv(m)' /\ TimesInv(m)'
  <2>1. CacheInv(m) /\ TimesInv(m)
      BY DEF IInv
  <2>2. /\ seen[m] # Never => seen[m].sec \in Int /\ seen[m].frac \in Int
        /\ first[m] # Never => first[m].sec \in Int /\ first[m].frac \in Int
        /\ processed[m] \in Nat
      BY DEF IInv, TypeOK, Instants
  <2>3. CacheInv(m)'
      BY <1>1, <1>2, <1>3, <2>1, <2>2 DEF CacheInv, NotAfter, Expired
  <2>4. TimesInv(m)'
      BY <1>1, <1>2, <1>3, <2>1, <2>2 DEF CacheInv, TimesInv
  <2>5. QED
      BY <2>3, <2>4
<1>6. QED
    BY <1>4, <1>5 DEF IInv

(* An entry that leaves the cache is older than the cache's duration, and  *)
(* no younger than the message's first processing.                         *)
LEMMA ForgetStep == ASSUME NEW k \in Messages PROVE IInv /\ Forget(k) => IInv'
<1> SUFFICES ASSUME IInv, Forget(k) PROVE IInv'
    OBVIOUS
<1> USE DurationsAssumption
<1>1. /\ seen[k] # Never /\ Expired(seen[k])
      /\ seen' = [seen EXCEPT ![k] = Never]
      /\ UNCHANGED <<now, timestamp, processed, first>>
    BY DEF Forget
<1>2. TypeOK'
    BY <1>1 DEF IInv, TypeOK
<1>3. ASSUME NEW m \in Messages PROVE CacheInv(m)' /\ TimesInv(m)'
  <2>1. CacheInv(m) /\ TimesInv(m)
      BY DEF IInv
  <2>2. /\ now.sec \in Int /\ now.frac \in Int
        /\ seen[m] # Never => seen[m].sec \in Int /\ seen[m].frac \in Int
        /\ first[m] # Never => first[m].sec \in Int /\ first[m].frac \in Int
        /\ processed[m] \in Nat
      BY DEF IInv, TypeOK, Instants
  <2>3. CASE m = k
    <3>1. seen'[m] = Never
        BY <1>1, <2>3 DEF IInv, TypeOK
    <3>2. CacheInv(m)'
        BY <1>1, <2>1, <2>2, <2>3, <3>1 DEF CacheInv, NotAfter, Expired
    <3>3. TimesInv(m)'
        BY <1>1, <2>1, <2>2, <2>3, <3>1 DEF CacheInv, TimesInv, NotAfter, Expired
    <3>4. QED
        BY <3>2, <3>3
  <2>4. CASE m # k
    <3>1. seen'[m] = seen[m]
        BY <1>1, <2>4 DEF IInv, TypeOK
    <3>2. QED
        BY <1>1, <2>1, <3>1 DEF CacheInv, TimesInv, NotAfter, Expired
  <2>5. QED
      BY <2>3, <2>4
<1>4. QED
    BY <1>2, <1>3 DEF IInv

(* A delivery.  Only one that the cache lets through and whose timestamp   *)
(* is valid counts: a second one is later than the first by the cache's    *)
(* duration, a third one would be by twice that.                           *)
LEMMA ReceiveStep == ASSUME NEW k \in Messages PROVE IInv /\ Receive(k) => IInv'
<1> SUFFICES ASSUME IInv, Receive(k) PROVE IInv'
    OBVIOUS
<1> USE DurationsAssumption
<1>1. /\ seen[k] = Never
      /\ seen' = [seen EXCEPT ![k] = now]
      /\ UNCHANGED <<now, timestamp>>
      /\ \/ /\ ValidateMessageByTimestamp(k)
            /\ processed' = [processed EXCEPT ![k] = @ + 1]
            /\ first' = [first EXCEPT ![k] = IF @ = Never THEN now ELSE @]
         \/ UNCHANGED <<processed, first>>
    BY DEF Receive
<1>2. TypeOK'
    BY <1>1 DEF IInv, TypeOK
<1>3. now # Never /\ now.sec \in Nat /\ now.frac \in Nat
    BY DEF IInv, TypeOK, Instants, Never
<1>4. ASSUME NEW m \in Messages PROVE CacheInv(m)' /\ TimesInv(m)'
  <2>1. CacheInv(m) /\ TimesInv(m)
      BY DEF IInv
  <2>2. /\ first[m] # Never => first[m].sec \in Int /\ first[m].frac \in Int
        /\ processed[m] \in Nat /\ timestamp[m] \in Int
      BY DEF IInv, TypeOK, Instants
  <2>3. CASE m = k
    <3>1. seen'[m] = now
        BY <1>1, <2>3 DEF IInv, TypeOK
    <3>2. CASE UNCHANGED <<processed, first>>
        BY <1>1, <1>3, <2>1, <2>2, <2>3, <3>1, <3>2
           DEF CacheInv, TimesInv, NotAfter, Expired
    <3>3. CASE /\ ValidateMessageByTimestamp(k)
               /\ processed' = [processed EXCEPT ![k] = @ + 1]
               /\ first' = [first EXCEPT ![k] = IF @ = Never THEN now ELSE @]
      <4>1. /\ processed'[m] = processed[m] + 1
            /\ first'[m] = IF first[m] = Never THEN now ELSE first[m]
          BY <2>3, <3>3 DEF IInv, TypeOK
      <4>2. /\ timestamp[m] <= now.sec + AdvanceDuration
            /\ timestamp[m] >= now.sec - PastDuration
          BY <2>3, <3>3 DEF ValidateMessageByTimestamp
      <4>3. CASE processed[m] = 0
          BY <1>1, <1>3, <2>1, <2>2, <2>3, <3>1, <4>1, <4>2, <4>3
             DEF CacheInv, TimesInv, NotAfter
      <4>4. CASE processed[m] = 1
          BY <1>1, <1>3, <2>1, <2>2, <2>3, <3>1, <4>1, <4>2, <4>4
             DEF CacheInv, TimesInv, NotAfter, Expired
      <4>5. CASE processed[m] >= 2
          BY <1>1, <1>3, <2>1, <2>2, <2>3, <3>1, <4>1, <4>2, <4>5
             DEF CacheInv, TimesInv, NotAfter, Expired
      <4>6. QED
          BY <2>2, <4>3, <4>4, <4>5
    <3>4. QED
        BY <1>1, <3>2, <3>3
  <2>4. CASE m # k
    <3>1. seen'[m] = seen[m] /\ processed'[m] = processed[m] /\ first'[m] = first[m]
        BY <1>1, <2>4 DEF IInv, TypeOK
    <3>2. QED
        BY <1>1, <2>1, <3>1 DEF CacheInv, TimesInv, NotAfter, Expired
  <2>5. QED
      BY <2>3, <2>4
<1>5. QED
    BY <1>2, <1>4 DEF IInv

(* The invariant holds in every reachable state.                           *)
LEMMA Invariance == Spec => []IInv
<1>1. ASSUME IInv, UNCHANGED vars PROVE IInv'
    BY <1>1 DEF IInv, TypeOK, CacheInv, TimesInv, NotAfter, Expired, vars
<1>2. IInv /\ [Next]_vars => IInv'
    BY <1>1, TickStep, ForgetStep, ReceiveStep DEF Next
<1>3. QED
    BY IInvInit, <1>2, PTL DEF Spec

(* What the invariant says of messages that were processed twice.          *)
LEMMA InvariantSuffices == IInv => PastMessagesProcessedOnce /\ ProcessedAtMostTwice
<1>1. IInv => PastMessagesProcessedOnce
  <2> SUFFICES ASSUME IInv, NEW m \in Messages,
                      processed[m] > 1, PastDuration <= CacheDuration
               PROVE  timestamp[m] >= first[m].sec
      BY DEF PastMessagesProcessedOnce
  <2>1. CacheInv(m) /\ TimesInv(m) /\ processed[m] \in Nat /\ timestamp[m] \in Int
      BY DEF IInv, TypeOK
  <2>2. first[m].sec \in Int
      BY <2>1 DEF CacheInv, IInv, TypeOK, Instants
  <2>3. QED
      BY <2>1, <2>2, DurationsAssumption DEF TimesInv
<1>2. IInv => ProcessedAtMostTwice
    BY DEF IInv, TimesInv, ProcessedAtMostTwice
<1>3. QED
    BY <1>1, <1>2

(* Every reachable state is well typed, for every value of the constants.  *)
THEOREM TypeCorrect == Spec => []TypeOK
<1>1. IInv => TypeOK
    BY DEF IInv
<1>2. QED
    BY Invariance, <1>1, PTL

(* A message written in an earlier second than the one it was first        *)
(* processed in is processed once, whatever the two durations are as long  *)
(* as the cache's is not the shorter one (messagesHandler.go               *)
(* validateMessageByTimestamp).                                            *)
THEOREM PastMessagesOnce == Spec => []PastMessagesProcessedOnce
BY Invariance, InvariantSuffices, PTL

(* No message is processed three times when the window of valid timestamps *)
(* is shorter than twice the cache's duration, as it is for broadcasts.    *)
THEOREM AtMostTwice == Spec => []ProcessedAtMostTwice
BY Invariance, InvariantSuffices, PTL
-----------------------------------------------------------------------------
(***************************************************************************)
(* The node's reception.                                                   *)
(***************************************************************************)
(* Broadcasts satisfy the invariant of MessageFreshness (IInv): one that   *)
(* is not readable is remembered like the others and not processed.        *)

(* A direct message that was processed n times: n - 1 durations of the     *)
(* cache lie between the first time and its latest entry in the cache, n   *)
(* between the first time and now if the cache has forgotten it.  It was   *)
(* valid the first time, so its timestamp is not much later than that, and *)
(* valid the last time, so that was not much later than its timestamp.     *)
ReplaysInv(m) ==
    /\ (dProcessed[m] = 0) <=> (dFirst[m] = Never)
    /\ dProcessed[m] >= 1 =>
         /\ dTimestamp[m] <= dFirst[m].sec + AdvanceDuration
         /\ dSeen[m] # Never =>
              dSeen[m].sec >= dFirst[m].sec + (dProcessed[m] - 1) * DirectCacheDuration
         /\ dSeen[m] = Never =>
              now.sec >= dFirst[m].sec + dProcessed[m] * DirectCacheDuration
         /\ (dProcessed[m] - 1) * DirectCacheDuration <= PastDuration + AdvanceDuration

SpoiltInv(m) == dSeen[m] # Never /\ dProcessed[m] = 0 => m \in excused

DirectInv ==
    /\ now \in Instants
    /\ Direct!TypeOK
    /\ \A m \in DirectMessages : ReplaysInv(m) /\ SpoiltInv(m)

(* A ban follows an offence that is in the past, and does not outlast the  *)
(* last one by more than its duration.                                     *)
BanInv ==
    /\ now.sec \in Nat
    /\ bannedUntil \in [Peers -> Nat]
    /\ lastOffence \in [Peers -> Int]
    /\ \A p \in Peers :
         /\ lastOffence[p] \in -1..now.sec
         /\ lastOffence[p] = -1 => bannedUntil[p] = 0
         /\ lastOffence[p] # -1 => bannedUntil[p] <= lastOffence[p] + BanDuration

(* The initial states: nothing has been received, nobody is denied.        *)
LEMMA ReceptionInits == ReceptionInit => IInv /\ DirectInv /\ BanInv
<1> SUFFICES ASSUME ReceptionInit PROVE IInv /\ DirectInv /\ BanInv
    OBVIOUS
<1> USE DurationsAssumption, ReceptionAssumption
<1>1. IInv
    BY IInvInit DEF ReceptionInit
<1>2. DirectInv
  <2>1. Direct!Init /\ now \in Instants
      BY DEF ReceptionInit, Init, Instants
  <2>2. Direct!TypeOK
      BY <2>1 DEF Direct!Init, Direct!TypeOK, Direct!Instants, Direct!Never, Instants
  <2>3. ASSUME NEW m \in DirectMessages
        PROVE  dSeen[m] = Never /\ dProcessed[m] = 0 /\ dFirst[m] = Never
      BY <2>1, <2>3 DEF Direct!Init, Direct!Never, Never
  <2>4. QED
      BY <2>1, <2>2, <2>3 DEF DirectInv, ReplaysInv, SpoiltInv
<1>3. BanInv
    BY DEF ReceptionInit, Init, BanInv
<1>4. QED
    BY <1>1, <1>2, <1>3

(* What a step does to the clock.                                          *)
LEMMA ClockStep == ASSUME now \in Instants, Tick
                   PROVE  /\ now' \in Instants
                          /\ now'.sec \in Nat /\ now.sec \in Nat
                          /\ now.sec <= now'.sec
<1> USE DurationsAssumption
<1>1. now.sec \in 0..MaxSecond /\ now.frac \in 0..(Fractions - 1)
    BY DEF Instants
<1>2. CASE now.frac + 1 < Fractions /\ now' = [now EXCEPT !.frac = @ + 1]
    BY <1>1, <1>2 DEF Instants
<1>3. CASE /\ now.frac + 1 = Fractions
           /\ now.sec < MaxSecond
           /\ now' = [sec |-> now.sec + 1, frac |-> 0]
    BY <1>1, <1>3 DEF Instants
<1>4. QED
    BY <1>2, <1>3 DEF Tick

(* A broadcast that cannot be read enters the cache and nothing else.      *)
LEMMA MalformedStep ==
    ASSUME NEW k \in Messages, IInv, seen[k] = Never,
           seen' = [seen EXCEPT ![k] = now],
           UNCHANGED <<now, timestamp, processed, first>>
    PROVE  IInv'
<1> USE DurationsAssumption
<1>1. TypeOK'
    BY DEF IInv, TypeOK
<1>2. now # Never /\ now.sec \in Nat /\ now.frac \in Nat
    BY DEF IInv, TypeOK, Instants, Never
<1>3. ASSUME NEW m \in Messages PROVE CacheInv(m)' /\ TimesInv(m)'
  <2>1. CacheInv(m) /\ TimesInv(m)
      BY DEF IInv
  <2>2. /\ first[m] # Never => first[m].sec \in Int /\ first[m].frac \in Int
        /\ processed[m] \in Nat /\ timestamp[m] \in Int
      BY DEF IInv, TypeOK, Instants
  <2>3. CASE m = k
    <3>1. seen'[m] = now
        BY <2>3 DEF IInv, TypeOK
    <3>2. QED
        BY <1>2, <2>1, <2>2, <2>3, <3>1 DEF CacheInv, TimesInv, NotAfter, Expired
  <2>4. CASE m # k
    <3>1. seen'[m] = seen[m]
        BY <2>4 DEF IInv, TypeOK
    <3>2. QED
        BY <2>1, <3>1 DEF CacheInv, TimesInv, NotAfter, Expired
  <2>5. QED
      BY <2>3, <2>4
<1>4. QED
    BY <1>1, <1>3 DEF IInv

(* Every step of the node keeps the invariant of the broadcasts; only      *)
(* those of time and of pubsub concern it.                                 *)
LEMMA BroadcastStep == IInv /\ [ReceptionNext]_receptionVars => IInv'
<1> SUFFICES ASSUME IInv, [ReceptionNext]_receptionVars PROVE IInv'
    OBVIOUS
<1>1. ASSUME UNCHANGED vars PROVE IInv'
    BY <1>1 DEF IInv, TypeOK, CacheInv, TimesInv, NotAfter, Expired, vars
<1>2. CASE Time
    BY <1>2, TickStep DEF Time
<1>3. ASSUME NEW m \in Messages, PubsubForgets(m) PROVE IInv'
    BY <1>3, ForgetStep DEF PubsubForgets
<1>4. ASSUME NEW m \in Messages, NEW p \in Peers, ReceiveBroadcast(m, p) PROVE IInv'
    BY <1>4, ReceiveStep, MalformedStep DEF ReceiveBroadcast, TransformAndCheckMessage
<1>5. ASSUME NEW m \in DirectMessages, SeenMessagesForget(m) PROVE IInv'
    BY <1>1, <1>5 DEF SeenMessagesForget, Direct!Forget, vars
<1>6. ASSUME NEW m \in DirectMessages, NEW p \in Peers, NEW copy \in Copies,
             ProcessReceivedDirectMessage(m, p, copy)
      PROVE  IInv'
    BY <1>1, <1>6 DEF ProcessReceivedDirectMessage, Direct!Receive, vars
<1>7. CASE RegisterDirectMessageProcessor \/ RegisterTopicProcessor
    BY <1>1, <1>7 DEF RegisterDirectMessageProcessor, RegisterTopicProcessor
<1>8. CASE UNCHANGED receptionVars
    BY <1>1, <1>8 DEF receptionVars
<1>9. QED
    BY <1>2, <1>3, <1>4, <1>5, <1>6, <1>7, <1>8 DEF ReceptionNext

(* Products with the cache's duration, the only ones the proofs need.      *)
LEMMA Durations ==
    ASSUME NEW n \in Nat, NEW D \in Nat
    PROVE  /\ n * D \in Nat
           /\ (n + 1) * D = n * D + D
           /\ (n + 1) - 1 = n
           /\ n >= 1 => (n - 1) * D \in Nat /\ n * D = (n - 1) * D + D
OBVIOUS

(* What is known of one direct message, as numbers.                        *)
LEMMA DirectTypes ==
    ASSUME DirectInv, NEW m \in DirectMessages
    PROVE  /\ ReplaysInv(m) /\ SpoiltInv(m)
           /\ now # Never /\ now.sec \in Nat /\ now.frac \in Nat
           /\ dProcessed[m] \in Nat /\ dTimestamp[m] \in Int
           /\ dSeen[m] # Never => dSeen[m].sec \in Int /\ dSeen[m].frac \in Int
           /\ dFirst[m] # Never => dFirst[m].sec \in Int
BY DurationsAssumption
   DEF DirectInv, Instants, Never, Direct!TypeOK, Direct!Instants, Direct!Never

(* What has been proved of a message holds as long as nothing happens to   *)
(* it but time going by.                                                   *)
LEMMA OtherDirect ==
    ASSUME DirectInv, NEW m \in DirectMessages,
           now'.sec \in Nat, now.sec <= now'.sec,
           dSeen'[m] = dSeen[m], dProcessed'[m] = dProcessed[m],
           dFirst'[m] = dFirst[m], dTimestamp'[m] = dTimestamp[m],
           excused \subseteq excused'
    PROVE  ReplaysInv(m)' /\ SpoiltInv(m)'
<1> USE DurationsAssumption, ReceptionAssumption, DirectTypes
<1>1. SpoiltInv(m)'
    BY DEF SpoiltInv
<1>2. dProcessed[m] * DirectCacheDuration \in Nat
    BY Durations
<1>3. ReplaysInv(m)'
    BY <1>2 DEF ReplaysInv
<1>4. QED
    BY <1>1, <1>3

(* The cache forgets an entry that is older than its duration: one more    *)
(* duration has gone by.                                                   *)
LEMMA DirectForgetStep ==
    ASSUME DirectInv, NEW k \in DirectMessages, SeenMessagesForget(k)
    PROVE  DirectInv'
<1> USE DurationsAssumption, ReceptionAssumption
<1>1. /\ dSeen[k] # Never /\ dSeen[k].sec + DirectCacheDuration <= now.sec
      /\ dSeen' = [dSeen EXCEPT ![k] = Never]
      /\ UNCHANGED <<now, dTimestamp, dProcessed, dFirst, excused>>
    BY DirectTypes
       DEF SeenMessagesForget, Direct!Forget, Direct!Expired, Direct!Never, Never
<1>2. now \in Instants /\ Direct!TypeOK'
    BY <1>1 DEF DirectInv, Direct!TypeOK, Direct!Never, Never
<1>3. ASSUME NEW m \in DirectMessages PROVE ReplaysInv(m)' /\ SpoiltInv(m)'
  <2>1. CASE m = k
    <3>1. dSeen'[m] = Never
        BY <1>1, <2>1 DEF DirectInv, Direct!TypeOK
    <3>2. ASSUME dProcessed[m] >= 1
          PROVE  /\ (dProcessed[m] - 1) * DirectCacheDuration \in Nat
                 /\ dProcessed[m] * DirectCacheDuration
                      = (dProcessed[m] - 1) * DirectCacheDuration + DirectCacheDuration
        BY <3>2, Durations, DirectTypes
    <3>3. QED
        BY <1>1, <2>1, <3>1, <3>2, DirectTypes DEF ReplaysInv, SpoiltInv
  <2>2. CASE m # k
    <3>1. dSeen'[m] = dSeen[m]
        BY <1>1, <2>2 DEF DirectInv, Direct!TypeOK
    <3>2. QED
        BY <1>1, <3>1, OtherDirect, DirectTypes
  <2>3. QED
      BY <2>1, <2>2
<1>4. QED
    BY <1>1, <1>2, <1>3 DEF DirectInv

(* A direct message that passed the checks in front of the cache.  It is   *)
(* remembered now; when it is processed the time is that of n durations    *)
(* after the first processing, and its timestamp is still valid.           *)
LEMMA DirectReceiveStep ==
    ASSUME DirectInv, NEW k \in DirectMessages, NEW p \in Peers, NEW copy \in Copies,
           ProcessReceivedDirectMessage(k, p, copy)
    PROVE  DirectInv'
<1> USE DurationsAssumption, ReceptionAssumption
<1>1. /\ dSeen[k] = Never
      /\ dSeen' = [dSeen EXCEPT ![k] = now]
      /\ UNCHANGED <<now, dTimestamp>>
      /\ excused \subseteq excused'
      /\ \/ /\ dTimestamp[k] <= now.sec + AdvanceDuration
            /\ dTimestamp[k] >= now.sec - PastDuration
            /\ dProcessed' = [dProcessed EXCEPT ![k] = @ + 1]
            /\ dFirst' = [dFirst EXCEPT ![k] = IF @ = Never THEN now ELSE @]
         \/ UNCHANGED <<dProcessed, dFirst>> /\ k \in excused'
    BY DEF ProcessReceivedDirectMessage, Acceptable, Addressed, Never, Direct!Receive,
           Direct!ValidateMessageByTimestamp, Direct!Never
<1>2. now \in Instants /\ Direct!TypeOK'
    BY <1>1 DEF DirectInv, Instants, Direct!TypeOK, Direct!Instants
<1>3. ASSUME NEW m \in DirectMessages PROVE ReplaysInv(m)' /\ SpoiltInv(m)'
  <2>1. CASE m = k
    <3>1. dSeen'[m] = now
        BY <1>1, <2>1 DEF DirectInv, Direct!TypeOK
    <3>2. /\ dProcessed[m] * DirectCacheDuration \in Nat
          /\ dProcessed[m] >= 1 =>
               /\ (dProcessed[m] - 1) * DirectCacheDuration \in Nat
               /\ dProcessed[m] * DirectCacheDuration
                    = (dProcessed[m] - 1) * DirectCacheDuration + DirectCacheDuration
        BY Durations, DirectTypes
    <3>3. CASE UNCHANGED <<dProcessed, dFirst>> /\ k \in excused'
        BY <1>1, <2>1, <3>1, <3>2, <3>3, DirectTypes DEF ReplaysInv, SpoiltInv
    <3>4. CASE /\ dTimestamp[k] <= now.sec + AdvanceDuration
               /\ dTimestamp[k] >= now.sec - PastDuration
               /\ dProcessed' = [dProcessed EXCEPT ![k] = @ + 1]
               /\ dFirst' = [dFirst EXCEPT ![k] = IF @ = Never THEN now ELSE @]
      <4>1. /\ dProcessed'[m] = dProcessed[m] + 1
            /\ dFirst'[m] = IF dFirst[m] = Never THEN now ELSE dFirst[m]
          BY <2>1, <3>4 DEF DirectInv, Direct!TypeOK
      <4>2. (dProcessed'[m] - 1) * DirectCacheDuration = dProcessed[m] * DirectCacheDuration
          BY <4>1, DirectTypes
      <4>3. SpoiltInv(m)'
          BY <4>1, DirectTypes DEF SpoiltInv
      <4>4. ASSUME NEW S \in Nat, S = dProcessed[m] * DirectCacheDuration,
                   NEW f \in Int, f = dFirst'[m].sec, dFirst'[m] # Never,
                   dTimestamp[m] <= f + AdvanceDuration,
                   now.sec >= f + S, S <= PastDuration + AdvanceDuration
            PROVE  ReplaysInv(m)'
        <5>1. dProcessed'[m] >= 1 /\ dTimestamp'[m] = dTimestamp[m] /\ dSeen'[m] # Never
            BY <1>1, <3>1, <4>1, DirectTypes
        <5>2. dTimestamp'[m] <= dFirst'[m].sec + AdvanceDuration
            BY <4>4, <5>1
        <5>3. dSeen'[m].sec >= dFirst'[m].sec + (dProcessed'[m] - 1) * DirectCacheDuration
            BY <3>1, <4>2, <4>4
        <5>4. (dProcessed'[m] - 1) * DirectCacheDuration <= PastDuration + AdvanceDuration
            BY <4>2, <4>4
        <5>5. (dProcessed'[m] = 0) <=> (dFirst'[m] = Never)
            BY <4>1, <4>4, DirectTypes
        <5>6. QED
            BY <5>1, <5>2, <5>3, <5>4, <5>5 DEF ReplaysInv
      <4>5. ReplaysInv(m)'
        <5>1. CASE dProcessed[m] = 0
          <6>1. dFirst'[m] = now /\ 0 = dProcessed[m] * DirectCacheDuration
              BY <4>1, <5>1, DirectTypes DEF ReplaysInv
          <6>2. QED
              BY <2>1, <3>4, <4>4, <6>1, DirectTypes
        <5>2. CASE dProcessed[m] >= 1
          <6>1. /\ dFirst'[m] = dFirst[m] /\ dFirst[m] # Never
                /\ dTimestamp[m] <= dFirst[m].sec + AdvanceDuration
                /\ now.sec >= dFirst[m].sec + dProcessed[m] * DirectCacheDuration
              BY <1>1, <2>1, <4>1, <5>2, DirectTypes DEF ReplaysInv
          <6>2. dProcessed[m] * DirectCacheDuration <= PastDuration + AdvanceDuration
              BY <2>1, <3>2, <3>4, <6>1, DirectTypes
          <6>3. QED
              BY <3>2, <4>4, <6>1, <6>2, DirectTypes
        <5>3. QED
            BY <5>1, <5>2, DirectTypes
      <4>6. QED
          BY <4>3, <4>5
    <3>5. QED
        BY <1>1, <3>3, <3>4
  <2>2. CASE m # k
    <3>1. /\ dSeen'[m] = dSeen[m] /\ dProcessed'[m] = dProcessed[m]
          /\ dFirst'[m] = dFirst[m]
        BY <1>1, <2>2 DEF DirectInv, Direct!TypeOK
    <3>2. QED
        BY <1>1, <3>1, OtherDirect, DirectTypes
  <2>3. QED
      BY <2>1, <2>2
<1>4. QED
    BY <1>1, <1>2, <1>3 DEF DirectInv

(* Every step keeps what is known of the direct messages.                  *)
LEMMA DirectStep == DirectInv /\ [ReceptionNext]_receptionVars => DirectInv'
<1> SUFFICES ASSUME DirectInv, [ReceptionNext]_receptionVars PROVE DirectInv'
    OBVIOUS
<1>1. ASSUME UNCHANGED <<directVars, excused>>, now' \in Instants,
             now'.sec \in Nat, now.sec <= now'.sec
      PROVE  DirectInv'
  <2>1. Direct!TypeOK'
      BY <1>1 DEF DirectInv, directVars, Direct!TypeOK, Direct!Instants, Instants
  <2>2. ASSUME NEW m \in DirectMessages PROVE ReplaysInv(m)' /\ SpoiltInv(m)'
      BY <1>1, OtherDirect DEF directVars
  <2>3. QED
      BY <1>1, <2>1, <2>2 DEF DirectInv
<1>2. ASSUME UNCHANGED <<now, directVars, excused>> PROVE DirectInv'
    BY <1>1, <1>2, DurationsAssumption DEF DirectInv, Instants
<1>3. CASE Time
    BY <1>1, <1>3, ClockStep DEF Time, DirectInv
<1>4. ASSUME NEW m \in Messages, PubsubForgets(m) PROVE DirectInv'
    BY <1>2, <1>4 DEF PubsubForgets, Forget
<1>5. ASSUME NEW m \in Messages, NEW p \in Peers, ReceiveBroadcast(m, p) PROVE DirectInv'
    BY <1>2, <1>5 DEF ReceiveBroadcast, TransformAndCheckMessage, Receive
<1>6. ASSUME NEW m \in DirectMessages, SeenMessagesForget(m) PROVE DirectInv'
    BY <1>6, DirectForgetStep
<1>7. ASSUME NEW m \in DirectMessages, NEW p \in Peers, NEW copy \in Copies,
             ProcessReceivedDirectMessage(m, p, copy)
      PROVE  DirectInv'
    BY <1>7, DirectReceiveStep
<1>8. CASE RegisterDirectMessageProcessor \/ RegisterTopicProcessor
    BY <1>2, <1>8 DEF RegisterDirectMessageProcessor, RegisterTopicProcessor, vars
<1>9. CASE UNCHANGED receptionVars
    BY <1>2, <1>9 DEF receptionVars, vars
<1>10. QED
    BY <1>3, <1>4, <1>5, <1>6, <1>7, <1>8, <1>9 DEF ReceptionNext

(* Denying peers: the offence is now, and the term of a peer that is       *)
(* denied already ends before the one it would be given.                   *)
LEMMA BlacklistStep ==
    ASSUME BanInv, NEW S, BlacklistPid(S), UNCHANGED now
    PROVE  BanInv'
<1> USE ReceptionAssumption
<1>1. /\ bannedUntil' \in [Peers -> Nat] /\ lastOffence' \in [Peers -> Int]
      /\ now'.sec \in Nat
    BY DEF BanInv, BlacklistPid
<1>2. ASSUME NEW p \in Peers
      PROVE  /\ lastOffence'[p] \in -1..now.sec
             /\ lastOffence'[p] = -1 => bannedUntil'[p] = 0
             /\ lastOffence'[p] # -1 => bannedUntil'[p] <= lastOffence'[p] + BanDuration
  <2>1. /\ now.sec \in Nat /\ bannedUntil[p] \in Nat
        /\ lastOffence[p] \in -1..now.sec
        /\ lastOffence[p] = -1 => bannedUntil[p] = 0
        /\ lastOffence[p] # -1 => bannedUntil[p] <= lastOffence[p] + BanDuration
      BY DEF BanInv
  <2>2. /\ bannedUntil'[p] = IF p \in S /\ ~IsDenied(p)
                             THEN now.sec + BanDuration ELSE bannedUntil[p]
        /\ lastOffence'[p] = IF p \in S THEN now.sec ELSE lastOffence[p]
      BY DEF BlacklistPid
  <2>3. QED
      BY <2>1, <2>2
<1>3. QED
    BY <1>1, <1>2 DEF BanInv

(* Every step keeps what is known of the bans.                             *)
LEMMA BanStep ==
    BanInv /\ now \in Instants /\ [ReceptionNext]_receptionVars => BanInv'
<1> SUFFICES ASSUME BanInv, now \in Instants, [ReceptionNext]_receptionVars
             PROVE  BanInv'
    OBVIOUS
<1>1. ASSUME UNCHANGED <<now, banVars>> PROVE BanInv'
    BY <1>1 DEF BanInv, banVars
<1>2. CASE Time
  <2>1. now'.sec \in Nat /\ now.sec <= now'.sec /\ UNCHANGED banVars
      BY <1>2, ClockStep DEF Time
  <2>2. ASSUME NEW p \in Peers PROVE lastOffence[p] \in -1..now'.sec
      BY <2>1 DEF BanInv
  <2>3. QED
      BY <2>1, <2>2 DEF BanInv, banVars
<1>3. ASSUME NEW m \in Messages, PubsubForgets(m) PROVE BanInv'
    BY <1>1, <1>3 DEF PubsubForgets, Forget
<1>4. ASSUME NEW m \in Messages, NEW p \in Peers, ReceiveBroadcast(m, p) PROVE BanInv'
    BY <1>1, <1>4, BlacklistStep DEF ReceiveBroadcast, TransformAndCheckMessage, Receive
<1>5. ASSUME NEW m \in DirectMessages, SeenMessagesForget(m) PROVE BanInv'
    BY <1>1, <1>5 DEF SeenMessagesForget, Direct!Forget
<1>6. ASSUME NEW m \in DirectMessages, NEW p \in Peers, NEW copy \in Copies,
             ProcessReceivedDirectMessage(m, p, copy)
      PROVE  BanInv'
    BY <1>1, <1>6 DEF ProcessReceivedDirectMessage, Direct!Receive
<1>7. CASE RegisterDirectMessageProcessor \/ RegisterTopicProcessor
    BY <1>1, <1>7 DEF RegisterDirectMessageProcessor, RegisterTopicProcessor, vars
<1>8. CASE UNCHANGED receptionVars
    BY <1>1, <1>8 DEF receptionVars, vars
<1>9. QED
    BY <1>2, <1>3, <1>4, <1>5, <1>6, <1>7, <1>8 DEF ReceptionNext

(* The three invariants hold in every reachable state of the node.         *)
LEMMA ReceptionInvariance == ReceptionSpec => [](IInv /\ DirectInv /\ BanInv)
<1>1. IInv => now \in Instants
    BY DEF IInv, TypeOK
<1>2. IInv /\ DirectInv /\ BanInv /\ [ReceptionNext]_receptionVars
        => (IInv /\ DirectInv /\ BanInv)'
    BY <1>1, BroadcastStep, DirectStep, BanStep
<1>3. QED
    BY ReceptionInits, <1>2, PTL DEF ReceptionSpec
-----------------------------------------------------------------------------
(* A broadcast written in an earlier second than the one it was first      *)
(* processed in is processed once also when unreadable broadcasts share    *)
(* the cache and direct messages the clock (pubsubCallback,                *)
(* validateMessageByTimestamp).                                            *)
THEOREM ReceivedPastMessagesOnce == ReceptionSpec => []PastMessagesProcessedOnce
BY ReceptionInvariance, InvariantSuffices, PTL

(* No broadcast is processed three times by the node, if the window of     *)
(* valid timestamps is shorter than twice the cache's duration.            *)
THEOREM ReceivedAtMostTwice == ReceptionSpec => []ProcessedAtMostTwice
BY ReceptionInvariance, InvariantSuffices, PTL

(* A direct message is processed at most once for each duration of the     *)
(* direct sender's cache that fits into the window of valid timestamps     *)
(* (processReceivedDirectMessage, timeSeenMessages), whatever the two are: *)
(* the longer the window or the shorter the cache, the more replays.       *)
THEOREM DirectReplays == ReceptionSpec => []DirectReplaysAreBounded
<1>1. DirectInv => DirectReplaysAreBounded
  <2> SUFFICES ASSUME DirectInv, NEW m \in DirectMessages
               PROVE  (dProcessed[m] - 1) * DirectCacheDuration
                        < PastDuration + AdvanceDuration + 1
      BY DEF DirectReplaysAreBounded
  <2> USE DurationsAssumption, ReceptionAssumption
  <2>1. CASE dProcessed[m] = 0
    <3>1. (dProcessed[m] - 1) * DirectCacheDuration = -DirectCacheDuration
        BY <2>1
    <3>2. QED
        BY <3>1
  <2>2. CASE dProcessed[m] >= 1
    <3>1. (dProcessed[m] - 1) * DirectCacheDuration \in Nat
        BY <2>2, DirectTypes, Durations
    <3>2. QED
        BY <2>2, <3>1, DirectTypes DEF ReplaysInv
  <2>3. QED
      BY <2>1, <2>2, DirectTypes
<1>2. QED
    BY ReceptionInvariance, <1>1, PTL

(* A direct message the cache holds and nobody was given was spoilt by its *)
(* own originator: the checks before the cache keep everybody else from    *)
(* entering it (processReceivedDirectMessage).                             *)
THEOREM SpoiltByOriginators == ReceptionSpec => []OnlyOriginatorsSpoil
<1>1. DirectInv => OnlyOriginatorsSpoil
    BY DEF DirectInv, SpoiltInv, OnlyOriginatorsSpoil
<1>2. QED
    BY ReceptionInvariance, <1>1, PTL

(* A peer that is denied relayed or originated a broadcast nobody could    *)
(* read, less than the time of a ban ago (blacklistPid).                   *)
THEOREM Denials == ReceptionSpec => []DenialIsEarned
<1>1. BanInv => DenialIsEarned
  <2> SUFFICES ASSUME BanInv, NEW p \in Peers, IsDenied(p)
               PROVE  lastOffence[p] # -1 /\ now.sec < lastOffence[p] + BanDuration
      BY DEF DenialIsEarned
  <2>1. /\ now.sec \in Nat /\ bannedUntil[p] \in Nat /\ lastOffence[p] \in Int
        /\ now.sec < bannedUntil[p]
        /\ lastOffence[p] = -1 => bannedUntil[p] = 0
        /\ lastOffence[p] # -1 => bannedUntil[p] <= lastOffence[p] + BanDuration
      BY DEF BanInv, IsDenied
  <2>2. QED
      BY <2>1, ReceptionAssumption
<1>2. QED
    BY ReceptionInvariance, <1>1, PTL
=============================================================================
