-------------------------- MODULE BroadcastPipeline --------------------------
(***************************************************************************)
(* Broadcasting in p2p/libp2p: the goroutines of messagesHandler's         *)
(* Broadcast, the outgoingChannelLoadBalancer with one forwarding          *)
(* goroutine per channel, and the goroutine that collects one message at a *)
(* time and publishes it.  All Go channels are unbuffered: a send and its  *)
(* receive are one step.                                                   *)
(***************************************************************************)
EXTENDS Integers, Sequences, FiniteSets

CONSTANTS Broadcasts,       \* goroutines started by Broadcast, each with one message
          Names,            \* channel names; a message's topic has the name of its channel
          MaxChannels,      \* bound: channels ever created, the default one included
          MaxGoroutines,    \* the limit the throttler is created with
          MayRemove,        \* RemoveChannel is called
          MayClose          \* the messages handler is closed

ASSUME MaxChannelsAssumption == MaxChannels \in Nat \ {0}
ASSUME MaxGoroutinesAssumption == MaxGoroutines \in Nat \ {0}
ASSUME MayAssumption == MayRemove \in BOOLEAN /\ MayClose \in BOOLEAN

Ids == 1..MaxChannels
DefaultChannel == 1         \* created by the constructor, always chans[0]
Nothing == "nothing"
NilObject == "nil"          \* what is received from a closed channel
NoId == 0

ASSUME BroadcastsAssumption == Broadcasts \cap {Nothing, NilObject} = {}

VARIABLES
    status,       \* status[b]: where broadcastOnChannelBlocking of b is
    name,         \* name[b]: the channel and topic of the broadcast
    target,       \* target[b]: the channel GetChannelOrDefault returned
    throttled,    \* the throttler's counter
    namesChans,   \* namesChans[n]: the channel of the name, NoId when there is none
    created,      \* number of channels created
    closed,       \* channels that have been closed
    forwarder,    \* forwarder[i]: the goroutine of channel i: "none", "recv", "push", "ended"
    holding,      \* holding[i]: what that goroutine has received and not passed on
    collector,    \* the goroutine processChannelLoadBalancer
    collected,    \* what it has collected
    topics,       \* messagesHandler.topics
    cancelled,    \* contexts cancelled by Close: "handler", "balancer"
    accepted,     \* history: accepted[n], broadcasts received from channels named n, in order
    finished      \* finished[b]: "no", or what became of the message: "published", "dropped"

callVars == <<status, name, target, throttled>>
chanVars == <<namesChans, created, closed>>
histVars == <<accepted, finished>>
vars == <<callVars, chanVars, forwarder, holding, collector, collected, topics,
          cancelled, histVars>>

Init ==
    /\ status = [b \in Broadcasts |-> "idle"]
    /\ name \in [Broadcasts -> Names]
    /\ target = [b \in Broadcasts |-> NoId]
    /\ throttled = 0
    /\ namesChans = [n \in Names |-> NoId]
    /\ created = 1
    /\ closed = {}
    /\ forwarder = [i \in Ids |-> IF i = DefaultChannel THEN "recv" ELSE "none"]
    /\ holding = [i \in Ids |-> Nothing]
    /\ collector = "wait"
    /\ collected = Nothing
    /\ topics = {}
    /\ cancelled = {}
    /\ accepted = [n \in Names |-> <<>>]
    /\ finished = [b \in Broadcasts |-> "no"]
-----------------------------------------------------------------------------
(***************************************************************************)
(* broadcastOnChannelBlocking                                              *)
(***************************************************************************)
Move(b, from, to) == status[b] = from /\ status' = [status EXCEPT ![b] = to]

(* The throttler is asked and told in two calls (CanProcess, then          *)
(* StartProcessing).                                                       *)
CanProcess(b) ==
    /\ Move(b, "idle", IF throttled < MaxGoroutines THEN "allowed" ELSE "rejected")
    /\ UNCHANGED <<name, target, throttled, chanVars, forwarder, holding, collector,
                   collected, topics, cancelled, histVars>>

StartProcessing(b) ==
    /\ Move(b, "allowed", "started")
    /\ throttled' = throttled + 1
    /\ UNCHANGED <<name, target, chanVars, forwarder, holding, collector,
                   collected, topics, cancelled, histVars>>

ChannelOrDefault(n) == IF namesChans[n] # NoId THEN namesChans[n] ELSE DefaultChannel
GetChannelOrDefault(b) ==
    /\ Move(b, "started", "sending")
    /\ target' = [target EXCEPT ![b] = ChannelOrDefault(name[b])]
    /\ UNCHANGED <<name, throttled, chanVars, forwarder, holding, collector,
                   collected, topics, cancelled, histVars>>

(* Mutant: the goroutine takes a message while it still holds another.     *)
HandoffOverwrites(b) ==
    /\ Move(b, "sending", "sent")
    /\ forwarder[target[b]] \in {"recv", "push"}
    /\ forwarder' = [forwarder EXCEPT ![target[b]] = "push"]
    /\ holding' = [holding EXCEPT ![target[b]] = b]
    /\ accepted' = [accepted EXCEPT ![name[b]] = Append(@, b)]
    /\ UNCHANGED <<name, target, throttled, chanVars, collector, collected, topics,
                   cancelled, finished>>

(* The broadcast hands its message to the goroutine of the channel.        *)
Handoff(b) ==
    LET i == target[b]
    IN  /\ Move(b, "sending", "sent")
        /\ i \notin closed
        /\ forwarder[i] = "recv"
        /\ forwarder' = [forwarder EXCEPT ![i] = "push"]
        /\ holding' = [holding EXCEPT ![i] = b]
        /\ accepted' = [accepted EXCEPT ![name[b]] = Append(@, b)]
        /\ UNCHANGED <<name, target, throttled, chanVars, collector, collected, topics,
                       cancelled, finished>>

(* A send on a closed channel, or blocked on it when it is closed; nobody  *)
(* recovers, so the process is gone.                                       *)
SendPanics(b) ==
    /\ target[b] \in closed
    /\ Move(b, "sending", "panic")
    /\ UNCHANGED <<name, target, throttled, chanVars, forwarder, holding, collector,
                   collected, topics, cancelled, histVars>>

EndProcessing(b) ==
    /\ Move(b, "sent", "done")
    /\ throttled' = throttled - 1
    /\ UNCHANGED <<name, target, chanVars, forwarder, holding, collector,
                   collected, topics, cancelled, histVars>>
-----------------------------------------------------------------------------
(***************************************************************************)
(* outgoingChannelLoadBalancer                                             *)
(***************************************************************************)

(* CreateTopic: the topic is stored, and its channel appended if the name  *)
(* has none.                                                               *)
AddChannel(n) ==
    IF namesChans[n] # NoId THEN UNCHANGED <<namesChans, created, forwarder>>
    ELSE /\ created < MaxChannels
         /\ created' = created + 1
         /\ namesChans' = [namesChans EXCEPT ![n] = created']
         /\ forwarder' = [forwarder EXCEPT ![created'] = "recv"]
CreateTopic(n, createChannelForTopic) ==
    /\ n \notin topics
    /\ topics' = topics \cup {n}
    /\ IF createChannelForTopic THEN AddChannel(n)
       ELSE UNCHANGED <<namesChans, created, forwarder>>
    /\ UNCHANGED <<callVars, closed, holding, collector, collected, cancelled, histVars>>

(* UnJoinAllTopics: the topics go, their channels stay.                    *)
UnJoinAllTopics ==
    /\ topics # {}
    /\ topics' = {}
    /\ UNCHANGED <<callVars, chanVars, forwarder, holding, collector, collected,
                   cancelled, histVars>>

(* The goroutine of the channel is left running.                           *)
RemoveChannel(n) ==
    /\ MayRemove
    /\ namesChans[n] # NoId
    /\ closed' = closed \cup {namesChans[n]}
    /\ namesChans' = [namesChans EXCEPT ![n] = NoId]
    /\ UNCHANGED <<callVars, created, forwarder, holding, collector, collected, topics,
                   cancelled, histVars>>

(* Receiving from a closed channel yields nil, again and again.            *)
ReceiveNil(i) ==
    /\ i \in closed
    /\ forwarder[i] = "recv"
    /\ forwarder' = [forwarder EXCEPT ![i] = "push"]
    /\ holding' = [holding EXCEPT ![i] = NilObject]
    /\ UNCHANGED <<callVars, chanVars, collector, collected, topics, cancelled, histVars>>

(* Mutant: the context is watched while a message is passed on as well.    *)
ForwarderEndsAnywhere(i) ==
    /\ "balancer" \in cancelled
    /\ forwarder[i] \in {"recv", "push"}
    /\ forwarder' = [forwarder EXCEPT ![i] = "ended"]
    /\ holding' = [holding EXCEPT ![i] = Nothing]
    /\ UNCHANGED <<callVars, chanVars, collector, collected, topics, cancelled, histVars>>

(* Mutant: the goroutine ends with its channel and not with the context.   *)
ForwarderEndsWithChannel(i) ==
    /\ i \in closed
    /\ forwarder[i] = "recv"
    /\ forwarder' = [forwarder EXCEPT ![i] = "ended"]
    /\ UNCHANGED <<callVars, chanVars, holding, collector, collected, topics, cancelled,
                   histVars>>

(* The goroutine looks at the context only when it waits for a message,    *)
(* never while it passes one on.                                           *)
ForwarderEnds(i) ==
    /\ "balancer" \in cancelled
    /\ forwarder[i] = "recv"
    /\ forwarder' = [forwarder EXCEPT ![i] = "ended"]
    /\ UNCHANGED <<callVars, chanVars, holding, collector, collected, topics, cancelled,
                   histVars>>
-----------------------------------------------------------------------------
(***************************************************************************)
(* processChannelLoadBalancer                                              *)
(***************************************************************************)
CollectorTimer ==
    /\ collector = "wait"
    /\ collector' = "collect"
    /\ UNCHANGED <<callVars, chanVars, forwarder, holding, collected, topics, cancelled,
                   histVars>>
CollectorEnds ==
    /\ collector = "wait"
    /\ "handler" \in cancelled
    /\ collector' = "ended"
    /\ UNCHANGED <<callVars, chanVars, forwarder, holding, collected, topics, cancelled,
                   histVars>>

CollectOneElement(i) ==
    /\ collector = "collect"
    /\ forwarder[i] = "push"
    /\ collected' = holding[i]
    /\ collector' = IF holding[i] = NilObject THEN "wait" ELSE "publish"
    /\ holding' = [holding EXCEPT ![i] = Nothing]
    /\ forwarder' = [forwarder EXCEPT ![i] = "recv"]
    /\ UNCHANGED <<callVars, chanVars, topics, cancelled, histVars>>
CollectNothing ==
    /\ collector = "collect"
    /\ "balancer" \in cancelled
    /\ collector' = "wait"
    /\ UNCHANGED <<callVars, chanVars, forwarder, holding, collected, topics, cancelled,
                   histVars>>

(* Mutant: an unknown topic ends the loop instead of this round of it.     *)
PublishOrEnd ==
    /\ collector = "publish"
    /\ collector' = IF name[collected] \in topics THEN "wait" ELSE "ended"
    /\ collected' = Nothing
    /\ finished' = [finished EXCEPT ![collected] = IF name[collected] \in topics THEN "published"
                                                    ELSE "dropped"]
    /\ UNCHANGED <<callVars, chanVars, forwarder, holding, topics, cancelled, accepted>>

(* Published when its topic is known, dropped otherwise.                   *)
Publish ==
    /\ collector = "publish"
    /\ collector' = "wait"
    /\ collected' = Nothing
    /\ finished' = [finished EXCEPT ![collected] = IF name[collected] \in topics THEN "published"
                                                    ELSE "dropped"]
    /\ UNCHANGED <<callVars, chanVars, forwarder, holding, topics, cancelled, accepted>>

(* messagesHandler.Close cancels its own context, then the balancer's.     *)
Close ==
    /\ MayClose
    /\ \/ cancelled = {} /\ cancelled' = {"handler"}
       \/ cancelled = {"handler"} /\ cancelled' = {"handler", "balancer"}
    /\ UNCHANGED <<callVars, chanVars, forwarder, holding, collector, collected, topics,
                   histVars>>

Broadcast(b) == \/ CanProcess(b) \/ StartProcessing(b) \/ GetChannelOrDefault(b)
                \/ Handoff(b) \/ SendPanics(b) \/ EndProcessing(b)
Collector == \/ CollectorTimer \/ CollectorEnds \/ CollectNothing \/ Publish
             \/ \E i \in Ids : CollectOneElement(i)

Next ==
    /\ \A b \in Broadcasts : status[b] # "panic"
    /\ \/ \E b \in Broadcasts : Broadcast(b)
       \/ \E n \in Names : \/ \E create \in BOOLEAN : CreateTopic(n, create)
                           \/ RemoveChannel(n)
       \/ UnJoinAllTopics
       \/ \E i \in Ids : ReceiveNil(i) \/ ForwarderEnds(i)
       \/ Collector
       \/ Close

(* Goroutines run; those that wait to send on the same Go channel are      *)
(* served in the order they came, so none waits for ever while others are  *)
(* served; a select between two ready branches is random.                  *)
Fairness ==
    /\ \A b \in Broadcasts : /\ WF_vars(StartProcessing(b) \/ GetChannelOrDefault(b))
                             /\ WF_vars(EndProcessing(b))
                             /\ SF_vars(Handoff(b))
    /\ \A i \in Ids : SF_vars(CollectOneElement(i)) /\ SF_vars(ForwarderEnds(i))
    /\ WF_vars(CollectorTimer) /\ WF_vars(Publish) /\ WF_vars(CollectNothing)
    /\ SF_vars(CollectorEnds)

Spec == Init /\ [][Next]_vars
FairSpec == Spec /\ Fairness
-----------------------------------------------------------------------------
Objects == Broadcasts \cup {Nothing, NilObject}
TypeOK ==
    /\ status \in [Broadcasts -> {"idle", "allowed", "rejected", "started", "sending",
                                  "sent", "done", "panic"}]
    /\ name \in [Broadcasts -> Names]
    /\ target \in [Broadcasts -> Ids \cup {NoId}]
    /\ throttled \in Nat
    /\ namesChans \in [Names -> Ids \cup {NoId}]
    /\ created \in Ids
    /\ closed \subseteq Ids
    /\ forwarder \in [Ids -> {"none", "recv", "push", "ended"}]
    /\ holding \in [Ids -> Objects]
    /\ collector \in {"wait", "collect", "publish", "ended"}
    /\ collected \in Objects
    /\ topics \subseteq Names
    /\ cancelled \subseteq {"handler", "balancer"}
    /\ finished \in [Broadcasts -> {"no", "published", "dropped"}]

Finished(b) == finished[b] # "no"

(* No message is lost or doubled between the broadcaster and the topic:    *)
(* each one that was handed over is with exactly one forwarding goroutine, *)
(* with the collector, or finished once, also when channels are removed    *)
(* and when the handler is closed in between.                              *)
MessagesConserved ==
    \A b \in Broadcasts :
      LET places == Cardinality({i \in Ids : holding[i] = b})
                    + (IF collector = "publish" /\ collected = b THEN 1 ELSE 0)
                    + (IF Finished(b) THEN 1 ELSE 0)
      IN  places = IF status[b] \in {"sent", "done"} THEN 1 ELSE 0

(* Messages that went through one channel are never reordered: when one is *)
(* finished, all that the channel accepted before it are finished.         *)
ChannelOrder ==
    \A n \in Names : \A i, j \in DOMAIN accepted[n] :
      i < j /\ target[accepted[n][i]] = target[accepted[n][j]] /\ Finished(accepted[n][j])
        => Finished(accepted[n][i])

(* The pipeline at any moment: well typed, the throttler's counter never   *)
(* negative, and the messages of one name in the order their channel took  *)
(* them.                                                                   *)
PipelineInv == TypeOK /\ ChannelOrder

(* Every broadcast the throttler let through is finished and has given its *)
(* place back, however busy the other channels keep the collector, unless  *)
(* the handler is closed or the channel removed (broadcastOnChannelBlocking *)
(* to publish).                                                            *)
EveryBroadcastFinishes ==
    \A b \in Broadcasts :
      (status[b] = "allowed")
        ~> ((Finished(b) /\ throttled = 0) \/ cancelled # {} \/ closed # {})

(* What the comment on the balancer's Close promises: "Close finishes all  *)
(* started go routines in this instance".  Violated: the goroutine of a    *)
(* channel sends on mainChan without looking at the context                *)
(* (appendChannel), and once processChannelLoadBalancer has ended nobody   *)
(* receives there.                                                         *)
CloseFinishesAllGoroutines ==
    \A i \in Ids : ("balancer" \in cancelled) ~> (forwarder[i] \in {"none", "ended"})

(* What does hold of Close: every forwarding goroutine ends but one that   *)
(* is blocked in that send when the collector has ended, the exception     *)
(* that violates CloseFinishesAllGoroutines.  None waits for its channel   *)
(* for ever, and none stays blocked while somebody still collects.         *)
CloseFinishesGoroutines ==
    \A i \in Ids :
      ("balancer" \in cancelled)
        ~> (forwarder[i] \in {"none", "ended"} \/ (forwarder[i] = "push" /\ collector = "ended"))
=============================================================================
