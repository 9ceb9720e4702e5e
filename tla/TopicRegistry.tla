---------------------------- MODULE TopicRegistry ----------------------------
(***************************************************************************)
(* The message processors of p2p/libp2p: messagesHandler.processors, one   *)
(* topicProcessors object per topic, the validator that pubsub holds for   *)
(* the topic, and the messages that are dispatched to the processors while *)
(* others register and unregister them.                                    *)
(*                                                                         *)
(* The handler's mutex makes a registration one step.  A message is        *)
(* dispatched outside of it: the object is found first, its list is read   *)
(* later, and the processors run after that.                               *)
(***************************************************************************)
EXTENDS Naturals

CONSTANTS Topics,
          RequestTopics,    \* topics whose name holds core.TopicRequestSuffix
          Identifiers,      \* identifiers of the processors
          ReceivedMessages,         \* messages received, each dispatched once
          MaxObjects,       \* bound: topicProcessors objects ever created
          MayClose          \* the context of pubsub may be cancelled

ASSUME RequestTopicsAssumption == RequestTopics \subseteq Topics
ASSUME MaxObjectsAssumption == MaxObjects \in Nat \ {0}
ASSUME MayCloseAssumption == MayClose \in BOOLEAN

Objects == 1..MaxObjects
NilValue == 0

VARIABLES
    keys,         \* the topics that are keys of messagesHandler.processors
    processors,   \* processors[t]: the object under the key, or NilValue
    members,      \* members[o]: the identifiers in the object's own map
    created,      \* number of objects created
    validator,    \* validator[t]: the object the validator held by pubsub captured, 0 for none
    pubsubUp,     \* the context of pubsub has not been cancelled
    unregistered, \* what the last call was, when it was UnregisterAllMessageProcessors
    topic,        \* topic[m]
    direct,       \* direct[m]: received by the direct sender, not through pubsub
    stage,        \* stage[m]: where the dispatching of m is
    found,        \* found[m]: the object m is dispatched to
    list,         \* list[m]: the processors read from that object
    rated,        \* direct messages whose sender's rating was increased
    constant      \* history: constant[m], registered without a break since m was received

regVars == <<keys, processors, members, created, validator, pubsubUp, unregistered>>
msgVars == <<topic, direct, stage, found, list, rated>>
registryVars == <<regVars, msgVars, constant>>

InUse(t) == processors[t] # NilValue
Registered(t) == IF InUse(t) THEN members[processors[t]] ELSE {}

RegistryInit ==
    /\ keys = {}
    /\ processors = [t \in Topics |-> NilValue]
    /\ members = [o \in Objects |-> {}]
    /\ created = 0
    /\ validator = [t \in Topics |-> 0]
    /\ pubsubUp = TRUE
    /\ unregistered = "no"
    /\ topic \in [ReceivedMessages -> Topics]
    /\ direct \in [ReceivedMessages -> BOOLEAN]
    /\ stage = [m \in ReceivedMessages |-> "new"]
    /\ found = [m \in ReceivedMessages |-> 0]
    /\ list = [m \in ReceivedMessages |-> {}]
    /\ rated = {}
    /\ constant = [m \in ReceivedMessages |-> {}]

(* The history of every message on topic t: the identifiers left in place. *)
Keep(t, ids) == constant' = [m \in ReceivedMessages |-> IF topic[m] = t THEN constant[m] \cap ids
                                                ELSE constant[m]]
-----------------------------------------------------------------------------
(***************************************************************************)
(* RegisterMessageProcessor                                                *)
(***************************************************************************)

(* The topic has an object: the identifier must be new in it.              *)
AddTopicProcessor(t, id) ==
    /\ InUse(t)
    /\ id \notin Registered(t)
    /\ members' = [members EXCEPT ![processors[t]] = @ \cup {id}]
    /\ unregistered' = "no"
    /\ UNCHANGED <<keys, processors, created, validator, pubsubUp, msgVars, constant>>

(* The topic has none: a new object is stored, then its callback is given  *)
(* to pubsub.  When pubsub refuses it the object stays, empty.             *)
RegisterMessageProcessor(t, id) ==
    /\ ~InUse(t)
    /\ created < MaxObjects
    /\ created' = created + 1
    /\ keys' = keys \cup {t}
    /\ processors' = [processors EXCEPT ![t] = created']
    /\ IF pubsubUp /\ validator[t] = 0
       THEN /\ validator' = [validator EXCEPT ![t] = created']
            /\ members' = [members EXCEPT ![created'] = {id}]
       ELSE UNCHANGED <<validator, members>>
    /\ unregistered' = "no"
    /\ UNCHANGED <<pubsubUp, msgVars, constant>>
-----------------------------------------------------------------------------
(* Mutant: the last processor's topic keeps its validator.                 *)
UnregisterKeepsValidator(t, id) ==
    /\ id \in Registered(t)
    /\ members' = [members EXCEPT ![processors[t]] = @ \ {id}]
    /\ processors' = [processors EXCEPT ![t] = IF Registered(t) = {id} THEN NilValue ELSE @]
    /\ Keep(t, Registered(t) \ {id})
    /\ unregistered' = "no"
    /\ UNCHANGED <<keys, created, validator, pubsubUp, msgVars>>

(* The last processor leaves: the key keeps a nil value and the validator  *)
(* is taken back.  An unknown topic or identifier changes nothing.         *)
UnregisterMessageProcessor(t, id) ==
    LET last == Registered(t) = {id}
    IN  /\ id \in Registered(t)
        /\ members' = [members EXCEPT ![processors[t]] = @ \ {id}]
        /\ processors' = [processors EXCEPT ![t] = IF last THEN NilValue ELSE @]
        /\ validator' = [validator EXCEPT ![t] = IF last /\ pubsubUp THEN 0 ELSE @]
        /\ Keep(t, Registered(t) \ {id})
        /\ unregistered' = "no"
        /\ UNCHANGED <<keys, created, pubsubUp, msgVars>>

Removable(t) == pubsubUp /\ validator[t] # 0

(* Mutant: one topic is visited only.                                      *)
UnregisterAllVisitsOne ==
    \E t \in {t \in keys : Removable(t)} :
      /\ keys' = keys \ {t}
      /\ processors' = [processors EXCEPT ![t] = NilValue]
      /\ validator' = [validator EXCEPT ![t] = 0]
      /\ constant' = [m \in ReceivedMessages |-> IF topic[m] = t THEN {} ELSE constant[m]]
      /\ unregistered' = "all"
      /\ UNCHANGED <<members, created, pubsubUp, msgVars>>

(* The keys are visited in any order, up to the first one whose validator  *)
(* pubsub cannot take back.                                                *)
UnregisterAllMessageProcessors ==
    LET good == {t \in keys : Removable(t)}
    IN  \E done \in SUBSET good :
          /\ good = keys => done = keys
          /\ keys' = keys \ done
          /\ processors' = [t \in Topics |-> IF t \in done THEN NilValue ELSE processors[t]]
          /\ validator' = [t \in Topics |-> IF t \in done THEN 0 ELSE validator[t]]
          /\ constant' = [m \in ReceivedMessages |-> IF topic[m] \in done THEN {} ELSE constant[m]]
          /\ unregistered' = IF good = keys THEN "all" ELSE "error"
          /\ UNCHANGED <<members, created, pubsubUp, msgVars>>

ClosePubSub ==
    /\ MayClose /\ pubsubUp
    /\ pubsubUp' = FALSE
    /\ UNCHANGED <<keys, processors, members, created, validator, unregistered, msgVars,
                   constant>>
-----------------------------------------------------------------------------
(***************************************************************************)
(* A message is received.  pubsub calls the callback of the validator it   *)
(* holds, which captured an object; the direct sender's message looks its  *)
(* object up (ProcessReceivedMessage).                                     *)
(***************************************************************************)
At(m, from, to) == stage[m] = from /\ stage' = [stage EXCEPT ![m] = to]

PubsubCallback(m) ==
    /\ ~direct[m]
    /\ pubsubUp
    /\ validator[topic[m]] # 0
    /\ At(m, "new", "found")
    /\ found' = [found EXCEPT ![m] = validator[topic[m]]]
    /\ constant' = [constant EXCEPT ![m] = Registered(topic[m])]
    /\ UNCHANGED <<regVars, topic, direct, list, rated>>

ProcessReceivedMessage(m) ==
    /\ direct[m]
    /\ \/ /\ InUse(topic[m])
          /\ At(m, "new", "found")
          /\ found' = [found EXCEPT ![m] = processors[topic[m]]]
       \/ /\ ~InUse(topic[m])              \* ErrNilValidator
          /\ At(m, "new", "refused")
          /\ UNCHANGED found
    /\ constant' = [constant EXCEPT ![m] = Registered(topic[m])]
    /\ UNCHANGED <<regVars, topic, direct, list, rated>>

(* Mutant: one processor of the list is enough.                            *)
GetListOne(m) ==
    /\ At(m, "found", "listed")
    /\ \E one \in SUBSET members[found[m]] :
         /\ \A a, b \in one : a = b
         /\ list' = [list EXCEPT ![m] = one]
    /\ UNCHANGED <<regVars, topic, direct, found, rated, constant>>

GetList(m) ==
    /\ At(m, "found", "listed")
    /\ list' = [list EXCEPT ![m] = members[found[m]]]
    /\ UNCHANGED <<regVars, topic, direct, found, rated, constant>>

(* Every processor of the list is called; the message is accepted when     *)
(* none returned an error.  An accepted direct message that is no request  *)
(* increases its sender's rating.                                          *)
Accept(m) ==
    /\ At(m, "listed", "accepted")
    /\ rated' = IF direct[m] /\ topic[m] \notin RequestTopics THEN rated \cup {m} ELSE rated
    /\ UNCHANGED <<regVars, topic, direct, found, list, constant>>
Reject(m) ==
    /\ list[m] # {}
    /\ At(m, "listed", "rejected")
    /\ UNCHANGED <<regVars, topic, direct, found, list, rated, constant>>

Dispatch(m) == \/ PubsubCallback(m) \/ ProcessReceivedMessage(m)
               \/ GetList(m) \/ Accept(m) \/ Reject(m)

RegistryNext ==
    \/ \E t \in Topics, id \in Identifiers :
         \/ AddTopicProcessor(t, id) \/ RegisterMessageProcessor(t, id)
         \/ UnregisterMessageProcessor(t, id)
    \/ UnregisterAllMessageProcessors
    \/ ClosePubSub
    \/ \E m \in ReceivedMessages : Dispatch(m)

RegistrySpec == RegistryInit /\ [][RegistryNext]_registryVars
-----------------------------------------------------------------------------
Stages == {"new", "found", "listed", "accepted", "rejected", "refused"}
RegistryTypeOK ==
    /\ keys \subseteq Topics
    /\ processors \in [Topics -> 0..MaxObjects]
    /\ \A t \in Topics : InUse(t) => t \in keys
    /\ members \in [Objects -> SUBSET Identifiers]
    /\ created \in 0..MaxObjects
    /\ validator \in [Topics -> 0..MaxObjects]
    /\ pubsubUp \in BOOLEAN
    /\ unregistered \in {"no", "all", "error"}
    /\ topic \in [ReceivedMessages -> Topics]
    /\ direct \in [ReceivedMessages -> BOOLEAN]
    /\ stage \in [ReceivedMessages -> Stages]
    /\ found \in [ReceivedMessages -> 0..MaxObjects]
    /\ \A m \in ReceivedMessages : stage[m] = "found" => found[m] \in Objects
    /\ list \in [ReceivedMessages -> SUBSET Identifiers]
    /\ rated \subseteq ReceivedMessages
    /\ constant \in [ReceivedMessages -> SUBSET Identifiers]

(* The two ways a message can come in agree: while pubsub runs it holds a  *)
(* validator for a topic exactly when the handler has an object for it,    *)
(* the validator dispatches to that very object, and the object is not     *)
(* empty (RegisterMessageProcessor and UnregisterMessageProcessor update   *)
(* the handler and pubsub one after the other).                            *)
OneObjectPerTopic ==
    pubsubUp => \A t \in Topics :
                  IF InUse(t) THEN validator[t] = processors[t] /\ Registered(t) # {}
                  ELSE validator[t] = 0

(* No processor is skipped: a message accepted was seen by every processor *)
(* that stayed registered on its topic from its reception on, although     *)
(* others came and went between the lookup and the reading of the list.    *)
SeenByAllRegistered ==
    \A m \in ReceivedMessages :
      stage[m] \in {"accepted", "rejected"} => constant[m] \subseteq list[m]

(* Objects belong to one topic, and one that was given up never comes      *)
(* back: a message that found it late is not dispatched to the processors  *)
(* of another topic.                                                       *)
DispatchedWithinTopic ==
    \A m \in ReceivedMessages : \A t \in Topics :
      found[m] # 0 /\ processors[t] = found[m] => t = topic[m]

(* The dispatching of messages: well typed, nobody skipped, nobody else.   *)
RegistryInv == RegistryTypeOK /\ SeenByAllRegistered /\ DispatchedWithinTopic

(* What the comment on UnregisterAllMessageProcessors says: it "will       *)
(* unregister all message processors for topics".  Violated while pubsub   *)
(* runs: a topic whose last processor was unregistered is still a key of   *)
(* the map, pubsub has no validator to take back for it, and the call      *)
(* returns that error with other topics still registered.                  *)
AllAreUnregistered ==
    pubsubUp /\ unregistered # "no" => \A t \in Topics : ~InUse(t)

(* What does hold of it: while pubsub runs the key without an object, the  *)
(* one that violates AllAreUnregistered, is the only thing that makes the  *)
(* call leave processors behind, and it reports an error then.             *)
UnregisterAllIsComplete ==
    pubsubUp /\ unregistered # "no" /\ (\E t \in Topics : InUse(t))
      => unregistered = "error" /\ \E t \in keys : ~InUse(t)
=============================================================================
