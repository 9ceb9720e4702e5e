------------------------ MODULE TopicRegistry_proofs ------------------------
(***************************************************************************)
(* The registry of message processors for any topics, identifiers and      *)
(* messages, and any number of objects: pubsub and the handler agree, and  *)
(* a message reaches every processor that stays and nobody else's.         *)
(***************************************************************************)
EXTENDS TopicRegistry, TLAPS

(* Every topicProcessors object belongs to one topic for ever: objects are *)
(* numbered as they are created, two topics never share one, and whoever   *)
(* still refers to an object (a validator, a message) has the topic of the *)
(* handler's entry for it, if there still is one.                          *)
Ownership ==
    /\ \A t \in Topics : processors[t] <= created /\ validator[t] <= created
    /\ \A t, u \in Topics : processors[t] = processors[u] => t = u \/ ~InUse(t)
    /\ \A t, u \in Topics : validator[t] = processors[u] => t = u \/ validator[t] = 0
    /\ \A m \in ReceivedMessages : found[m] <= created

(* A message that found its object will read, or has read, a list with all *)
(* the processors that have been there since it came.                      *)
ListsInv ==
    \A m \in ReceivedMessages :
      /\ stage[m] = "found" => constant[m] \subseteq members[found[m]]
      /\ stage[m] \in {"listed", "accepted", "rejected"} => constant[m] \subseteq list[m]

(* Why the last UnregisterAllMessageProcessors stopped, while nothing else *)
(* has been registered or unregistered since.                              *)
UnregisteredInv ==
    /\ unregistered = "all" => keys = {}
    /\ unregistered = "error" /\ pubsubUp => \E t \in keys : ~InUse(t)

IInv == /\ RegistryTypeOK /\ Ownership /\ DispatchedWithinTopic /\ OneObjectPerTopic
        /\ ListsInv /\ UnregisteredInv

(* At the start nothing is registered.                                     *)
LEMMA IInvInit == RegistryInit => IInv
<1> SUFFICES ASSUME RegistryInit PROVE IInv
    OBVIOUS
<1> USE MaxObjectsAssumption
<1>1. RegistryTypeOK
    BY DEF RegistryInit, RegistryTypeOK, Objects, InUse, NilValue, Stages
<1>2. Ownership
    BY DEF RegistryInit, Ownership, InUse, NilValue
<1>3. DispatchedWithinTopic /\ OneObjectPerTopic /\ ListsInv /\ UnregisteredInv
    BY DEF RegistryInit, DispatchedWithinTopic, OneObjectPerTopic, ListsInv, UnregisteredInv, InUse, NilValue
<1>4. QED
    BY <1>1, <1>2, <1>3 DEF IInv

(* A processor more in an object that exists.                              *)
LEMMA AddStep ==
    ASSUME IInv, NEW t \in Topics, NEW id \in Identifiers, AddTopicProcessor(t, id)
    PROVE  IInv'
<1> USE MaxObjectsAssumption
<1>1. /\ InUse(t) /\ members' = [members EXCEPT ![processors[t]] = @ \cup {id}]
      /\ unregistered' = "no"
      /\ UNCHANGED <<keys, processors, created, validator, pubsubUp, topic, direct, stage,
                     found, list, rated, constant>>
    BY DEF AddTopicProcessor, msgVars
<1>2. /\ RegistryTypeOK /\ Ownership /\ DispatchedWithinTopic /\ OneObjectPerTopic
      /\ ListsInv /\ UnregisteredInv
    BY DEF IInv
<1>3. members' \in [Objects -> SUBSET Identifiers]
    BY <1>1, <1>2 DEF RegistryTypeOK
<1>4. ASSUME NEW o \in Objects PROVE members[o] \subseteq members'[o]
    BY <1>1, <1>2 DEF RegistryTypeOK
<1>5. RegistryTypeOK'
    BY <1>1, <1>2, <1>3 DEF RegistryTypeOK, InUse
<1>6. Ownership' /\ DispatchedWithinTopic'
    BY <1>1, <1>2 DEF Ownership, DispatchedWithinTopic, InUse
<1>7. OneObjectPerTopic'
  <2> SUFFICES ASSUME pubsubUp, NEW u \in Topics
               PROVE  IF InUse(u) THEN validator[u] = processors[u] /\ Registered(u)' # {}
                      ELSE validator[u] = 0
      BY <1>1 DEF OneObjectPerTopic, InUse
  <2>1. IF InUse(u) THEN validator[u] = processors[u] /\ Registered(u) # {}
        ELSE validator[u] = 0
      BY <1>2 DEF OneObjectPerTopic
  <2>2. CASE InUse(u)
    <3>1. processors[u] \in Objects
        BY <1>2, <2>2 DEF RegistryTypeOK, InUse, NilValue, Objects
    <3>2. QED
        BY <1>1, <1>4, <2>1, <2>2, <3>1 DEF Registered, InUse
  <2>3. QED
      BY <2>1, <2>2
<1>8. ListsInv'
    BY <1>1, <1>2, <1>4 DEF ListsInv, RegistryTypeOK
<1>9. UnregisteredInv'
    BY <1>1 DEF UnregisteredInv
<1>10. QED
    BY <1>5, <1>6, <1>7, <1>8, <1>9 DEF IInv

(* The first processor of a topic, in an object nobody refers to yet.      *)
LEMMA RegisterStep ==
    ASSUME IInv, NEW t \in Topics, NEW id \in Identifiers, RegisterMessageProcessor(t, id)
    PROVE  IInv'
<1> USE MaxObjectsAssumption
<1> DEFINE o == created + 1
<1>1. /\ ~InUse(t) /\ created < MaxObjects /\ created' = o
      /\ keys' = keys \cup {t} /\ processors' = [processors EXCEPT ![t] = o]
      /\ \/ /\ pubsubUp /\ validator[t] = 0
            /\ validator' = [validator EXCEPT ![t] = o]
            /\ members' = [members EXCEPT ![o] = {id}]
         \/ ~(pubsubUp /\ validator[t] = 0) /\ UNCHANGED <<validator, members>>
      /\ unregistered' = "no"
      /\ UNCHANGED <<pubsubUp, topic, direct, stage, found, list, rated, constant>>
    BY DEF RegisterMessageProcessor, msgVars
<1>2. /\ RegistryTypeOK /\ Ownership /\ DispatchedWithinTopic /\ OneObjectPerTopic
      /\ ListsInv /\ UnregisteredInv
    BY DEF IInv
<1>3. created \in Nat /\ o \in Objects /\ o \in Nat \ {0}
    BY <1>1, <1>2 DEF RegistryTypeOK, Objects
<1>4. /\ \A u \in Topics : processors'[u] = IF u = t THEN o ELSE processors[u]
      /\ \A u \in Topics : validator'[u] = validator[u] \/ (u = t /\ validator'[u] = o)
      /\ \A x \in Objects : x # o => members'[x] = members[x]
      /\ \A u \in Topics : processors[u] \in Nat /\ validator[u] \in Nat
      /\ \A m \in ReceivedMessages : found[m] \in Nat
    BY <1>1, <1>2 DEF RegistryTypeOK
<1>5. RegistryTypeOK'
  <2>1. /\ processors' \in [Topics -> 0..MaxObjects]
        /\ validator' \in [Topics -> 0..MaxObjects]
        /\ members' \in [Objects -> SUBSET Identifiers]
        /\ created' \in 0..MaxObjects
    <3>1. o \in 0..MaxObjects /\ created' \in 0..MaxObjects
        BY <1>1, <1>3 DEF Objects
    <3>2. processors' \in [Topics -> 0..MaxObjects]
        BY <1>1, <1>2, <3>1 DEF RegistryTypeOK
    <3>3. CASE UNCHANGED <<validator, members>>
        BY <1>2, <3>1, <3>2, <3>3 DEF RegistryTypeOK
    <3>4. CASE /\ validator' = [validator EXCEPT ![t] = o]
               /\ members' = [members EXCEPT ![o] = {id}]
        BY <1>2, <3>1, <3>2, <3>4 DEF RegistryTypeOK
    <3>5. QED
        BY <1>1, <3>1, <3>2, <3>3, <3>4
  <2>2. keys' \subseteq Topics /\ \A u \in Topics : InUse(u)' => u \in keys'
      BY <1>1, <1>2, <1>4 DEF RegistryTypeOK, InUse
  <2>3. QED
      BY <1>1, <1>2, <2>1, <2>2 DEF RegistryTypeOK
<1>6. Ownership'
    BY <1>1, <1>2, <1>3, <1>4 DEF Ownership, InUse, NilValue
<1>7. DispatchedWithinTopic'
    BY <1>1, <1>2, <1>3, <1>4 DEF Ownership, DispatchedWithinTopic
<1>8. OneObjectPerTopic'
  <2> SUFFICES ASSUME pubsubUp, NEW u \in Topics
               PROVE  IF InUse(u)' THEN validator'[u] = processors'[u] /\ Registered(u)' # {}
                      ELSE validator'[u] = 0
      BY <1>1 DEF OneObjectPerTopic
  <2>1. CASE u = t
    <3>1. validator[t] = 0
        BY <1>1, <1>2 DEF OneObjectPerTopic
    <3>2. members'[o] = {id} /\ validator'[t] = o
        BY <1>1, <1>2, <1>3, <3>1 DEF RegistryTypeOK
    <3>3. QED
        BY <1>3, <1>4, <2>1, <3>2 DEF Registered, InUse, NilValue
  <2>2. CASE u # t
    <3>1. processors'[u] = processors[u] /\ validator'[u] = validator[u] /\ InUse(u)' = InUse(u)
        BY <1>4, <2>2 DEF InUse
    <3>2. CASE InUse(u)
      <4>1. processors[u] \in Objects /\ processors[u] # o
          BY <1>2, <1>3, <1>4, <3>2 DEF RegistryTypeOK, InUse, NilValue, Objects, Ownership
      <4>2. members'[processors[u]] = members[processors[u]]
          BY <1>4, <4>1
      <4>3. QED
          BY <1>2, <3>1, <3>2, <4>2 DEF OneObjectPerTopic, Registered
    <3>3. QED
        BY <1>2, <3>1, <3>2 DEF OneObjectPerTopic
  <2>3. QED
      BY <2>1, <2>2
<1>9. ListsInv'
  <2>1. ASSUME NEW m \in ReceivedMessages, stage[m] = "found"
        PROVE  members'[found[m]] = members[found[m]]
      BY <1>2, <1>3, <1>4, <2>1 DEF RegistryTypeOK, Ownership
  <2>2. QED
      BY <1>1, <1>2, <2>1 DEF ListsInv
<1>10. UnregisteredInv'
    BY <1>1 DEF UnregisteredInv
<1>11. QED
    BY <1>5, <1>6, <1>7, <1>8, <1>9, <1>10 DEF IInv

(* A processor less.  The list of a message that found the object does not *)
(* shrink but for the identifier, which is constant for it no more.        *)
LEMMA UnregisterStep ==
    ASSUME IInv, NEW t \in Topics, NEW id \in Identifiers, UnregisterMessageProcessor(t, id)
    PROVE  IInv'
<1> USE MaxObjectsAssumption
<1> DEFINE last == Registered(t) = {id}
           o == processors[t]
<1>1. /\ id \in Registered(t)
      /\ members' = [members EXCEPT ![o] = @ \ {id}]
      /\ processors' = [processors EXCEPT ![t] = IF last THEN NilValue ELSE @]
      /\ validator' = [validator EXCEPT ![t] = IF last /\ pubsubUp THEN 0 ELSE @]
      /\ constant' = [m \in ReceivedMessages |-> IF topic[m] = t THEN constant[m] \cap (Registered(t) \ {id})
                                         ELSE constant[m]]
      /\ unregistered' = "no"
      /\ UNCHANGED <<keys, created, pubsubUp, topic, direct, stage, found, list, rated>>
    BY DEF UnregisterMessageProcessor, Keep, msgVars
<1>2. /\ RegistryTypeOK /\ Ownership /\ DispatchedWithinTopic /\ OneObjectPerTopic
      /\ ListsInv /\ UnregisteredInv
    BY DEF IInv
<1>3. InUse(t) /\ Registered(t) = members[o] /\ o \in Objects /\ o # 0
    BY <1>1, <1>2 DEF Registered, RegistryTypeOK, InUse, NilValue, Objects
<1>4. /\ processors'[t] = IF last THEN 0 ELSE o
      /\ validator'[t] = IF last /\ pubsubUp THEN 0 ELSE validator[t]
      /\ \A u \in Topics : u # t => processors'[u] = processors[u] /\ validator'[u] = validator[u]
      /\ members'[o] = members[o] \ {id}
      /\ \A x \in Objects : x # o => members'[x] = members[x]
    BY <1>1, <1>2, <1>3 DEF RegistryTypeOK, NilValue
<1>5. RegistryTypeOK'
  <2>1. /\ processors' \in [Topics -> 0..MaxObjects]
        /\ validator' \in [Topics -> 0..MaxObjects]
      BY <1>1, <1>2 DEF RegistryTypeOK, NilValue
  <2>2. /\ members' \in [Objects -> SUBSET Identifiers]
        /\ constant' \in [ReceivedMessages -> SUBSET Identifiers]
      BY <1>1, <1>2 DEF RegistryTypeOK
  <2>3. \A u \in Topics : InUse(u)' => u \in keys'
      BY <1>1, <1>2, <1>3, <1>4 DEF RegistryTypeOK, InUse
  <2>4. QED
      BY <1>1, <1>2, <2>1, <2>2, <2>3 DEF RegistryTypeOK
<1>6. Ownership'
  <2>1. \A u \in Topics : /\ processors'[u] \in {0, processors[u]}
                          /\ validator'[u] \in {0, validator[u]}
      BY <1>4
  <2>2. created \in Nat /\ created' = created /\ found' = found
      BY <1>1, <1>2 DEF RegistryTypeOK
  <2>3. QED
      BY <1>2, <2>1, <2>2 DEF Ownership, InUse, NilValue
<1>7. DispatchedWithinTopic'
    BY <1>1, <1>2, <1>4 DEF DispatchedWithinTopic
<1>8. OneObjectPerTopic'
  <2> SUFFICES ASSUME pubsubUp, NEW u \in Topics
               PROVE  IF InUse(u)' THEN validator'[u] = processors'[u] /\ Registered(u)' # {}
                      ELSE validator'[u] = 0
      BY <1>1 DEF OneObjectPerTopic
  <2>1. CASE u = t
    <3>1. CASE last
        BY <1>4, <2>1, <3>1 DEF InUse, NilValue
    <3>2. CASE ~last
      <4>1. members[o] \ {id} # {}
          BY <1>1, <1>3, <3>2
      <4>2. processors'[t] = o /\ validator'[t] = o
          BY <1>2, <1>3, <1>4, <3>2 DEF OneObjectPerTopic
      <4>3. QED
          BY <1>3, <1>4, <2>1, <4>1, <4>2 DEF InUse, NilValue, Registered
    <3>3. QED
        BY <3>1, <3>2
  <2>2. CASE u # t
    <3>1. processors'[u] = processors[u] /\ validator'[u] = validator[u] /\ InUse(u)' = InUse(u)
        BY <1>4, <2>2 DEF InUse
    <3>2. CASE InUse(u)
      <4>1. processors[u] \in Objects /\ processors[u] # o
          BY <1>2, <2>2, <3>2 DEF RegistryTypeOK, InUse, NilValue, Objects, Ownership
      <4>2. members'[processors[u]] = members[processors[u]]
          BY <1>4, <4>1
      <4>3. QED
          BY <1>2, <3>1, <3>2, <4>2 DEF OneObjectPerTopic, Registered
    <3>3. QED
        BY <1>2, <3>1, <3>2 DEF OneObjectPerTopic
  <2>3. QED
      BY <2>1, <2>2
<1>9. ListsInv'
  <2> SUFFICES ASSUME NEW m \in ReceivedMessages
               PROVE  /\ stage[m] = "found" => constant'[m] \subseteq members'[found[m]]
                      /\ stage[m] \in {"listed", "accepted", "rejected"}
                           => constant'[m] \subseteq list[m]
      BY <1>1 DEF ListsInv
  <2>1. constant'[m] \subseteq constant[m]
      BY <1>1
  <2>2. ASSUME stage[m] = "found" PROVE constant'[m] \subseteq members'[found[m]]
    <3>1. CASE found[m] = o
      <4>1. topic[m] = t
          BY <1>2, <1>3, <3>1 DEF DispatchedWithinTopic
      <4>2. QED
          BY <1>1, <1>3, <1>4, <3>1, <4>1
    <3>2. CASE found[m] # o
      <4>1. members'[found[m]] = members[found[m]]
          BY <1>2, <1>4, <2>2, <3>2 DEF RegistryTypeOK
      <4>2. QED
          BY <1>2, <2>1, <2>2, <4>1 DEF ListsInv
    <3>3. QED
        BY <3>1, <3>2
  <2>3. QED
      BY <1>2, <2>1, <2>2 DEF ListsInv
<1>10. UnregisteredInv'
    BY <1>1 DEF UnregisteredInv
<1>11. QED
    BY <1>5, <1>6, <1>7, <1>8, <1>9, <1>10 DEF IInv

(* All of them, or up to a topic pubsub has no validator for: while pubsub *)
(* runs that is a key without an object.                                   *)
LEMMA UnregisterAllStep ==
    ASSUME IInv, UnregisterAllMessageProcessors
    PROVE  IInv'
<1> USE MaxObjectsAssumption
<1> DEFINE good == {t \in keys : Removable(t)}
<1>1. PICK done \in SUBSET good :
          /\ good = keys => done = keys
          /\ keys' = keys \ done
          /\ processors' = [t \in Topics |-> IF t \in done THEN NilValue ELSE processors[t]]
          /\ validator' = [t \in Topics |-> IF t \in done THEN 0 ELSE validator[t]]
          /\ constant' = [m \in ReceivedMessages |-> IF topic[m] \in done THEN {} ELSE constant[m]]
          /\ unregistered' = IF good = keys THEN "all" ELSE "error"
          /\ UNCHANGED <<members, created, pubsubUp, topic, direct, stage, found, list, rated>>
    BY DEF UnregisterAllMessageProcessors, msgVars
<1>2. /\ RegistryTypeOK /\ Ownership /\ DispatchedWithinTopic /\ OneObjectPerTopic
      /\ ListsInv /\ UnregisteredInv
    BY DEF IInv
<1>3. /\ \A u \in Topics : processors'[u] = IF u \in done THEN 0 ELSE processors[u]
      /\ \A u \in Topics : validator'[u] = IF u \in done THEN 0 ELSE validator[u]
      /\ \A m \in ReceivedMessages : constant'[m] \subseteq constant[m]
    BY <1>1 DEF NilValue
<1>4. RegistryTypeOK'
  <2>1. /\ processors' \in [Topics -> 0..MaxObjects]
        /\ validator' \in [Topics -> 0..MaxObjects]
      BY <1>1, <1>2 DEF RegistryTypeOK, NilValue
  <2>2. constant' \in [ReceivedMessages -> SUBSET Identifiers]
      BY <1>1, <1>2 DEF RegistryTypeOK
  <2>3. \A u \in Topics : InUse(u)' => u \in keys'
      BY <1>1, <1>2, <1>3 DEF RegistryTypeOK, InUse, NilValue
  <2>4. unregistered' \in {"no", "all", "error"}
      BY <1>1
  <2>5. QED
      BY <1>1, <1>2, <2>1, <2>2, <2>3, <2>4 DEF RegistryTypeOK
<1>5. Ownership'
  <2>1. \A u \in Topics : /\ processors'[u] \in {0, processors[u]}
                          /\ validator'[u] \in {0, validator[u]}
      BY <1>3
  <2>2. created \in Nat /\ created' = created /\ found' = found
      BY <1>1, <1>2 DEF RegistryTypeOK
  <2>3. QED
      BY <1>2, <2>1, <2>2 DEF Ownership, InUse, NilValue
<1>6. DispatchedWithinTopic'
    BY <1>1, <1>2, <1>3 DEF DispatchedWithinTopic
<1>7. OneObjectPerTopic'
    BY <1>1, <1>2, <1>3 DEF OneObjectPerTopic, InUse, NilValue, Registered
<1>8. ListsInv'
    BY <1>1, <1>2, <1>3 DEF ListsInv
<1>9. UnregisteredInv'
  <2>1. CASE good = keys
      BY <1>1, <2>1 DEF UnregisteredInv
  <2>2. CASE good # keys
    <3>1. PICK t \in keys : ~Removable(t)
        BY <2>2
    <3>2. t \in keys' /\ t \in Topics /\ processors'[t] = processors[t]
        BY <1>1, <1>2, <1>3, <3>1 DEF RegistryTypeOK
    <3>3. pubsubUp => ~InUse(t)
        BY <1>2, <3>1, <3>2 DEF Removable, OneObjectPerTopic, InUse, NilValue
    <3>4. unregistered' = "error" /\ pubsubUp' = pubsubUp
        BY <1>1, <2>2
    <3>5. QED
        BY <3>2, <3>3, <3>4 DEF UnregisteredInv, InUse
  <2>3. QED
      BY <2>1, <2>2
<1>10. QED
    BY <1>4, <1>5, <1>6, <1>7, <1>8, <1>9 DEF IInv

(* pubsub goes down: nothing but its own state changes.                    *)
LEMMA CloseStep == ASSUME IInv, ClosePubSub PROVE IInv'
BY DEF ClosePubSub, msgVars, IInv, RegistryTypeOK, Ownership, DispatchedWithinTopic,
       OneObjectPerTopic, ListsInv, UnregisteredInv, InUse, Registered

(* A message finds its object: the one of its topic's processors, through  *)
(* the validator as well as through the lookup.                            *)
LEMMA FoundStep ==
    ASSUME IInv, NEW k \in ReceivedMessages, PubsubCallback(k) \/ ProcessReceivedMessage(k)
    PROVE  IInv'
<1> USE MaxObjectsAssumption
<1> DEFINE o == processors[topic[k]]
<1>1. /\ RegistryTypeOK /\ Ownership /\ DispatchedWithinTopic /\ OneObjectPerTopic
      /\ ListsInv /\ UnregisteredInv
    BY DEF IInv
<1>2. topic[k] \in Topics
    BY <1>1 DEF RegistryTypeOK
<1>3. /\ \/ /\ InUse(topic[k])
            /\ stage' = [stage EXCEPT ![k] = "found"]
            /\ found' = [found EXCEPT ![k] = o]
         \/ /\ stage' = [stage EXCEPT ![k] = "refused"]
            /\ UNCHANGED found
      /\ constant' = [constant EXCEPT ![k] = Registered(topic[k])]
      /\ UNCHANGED <<keys, processors, members, created, validator, pubsubUp, unregistered,
                     topic, direct, list, rated>>
  <2>1. CASE PubsubCallback(k)
    <3>1. InUse(topic[k]) /\ validator[topic[k]] = o
        BY <1>1, <1>2, <2>1 DEF PubsubCallback, OneObjectPerTopic
    <3>2. QED
        BY <2>1, <3>1 DEF PubsubCallback, At, regVars
  <2>2. CASE ProcessReceivedMessage(k)
      BY <2>2 DEF ProcessReceivedMessage, At, regVars
  <2>3. QED
      BY <2>1, <2>2
<1>4. Registered(topic[k]) \subseteq Identifiers
    BY <1>1, <1>2 DEF Registered, RegistryTypeOK, InUse, NilValue, Objects
<1>5. Ownership' /\ DispatchedWithinTopic' /\ ListsInv' /\ RegistryTypeOK'
  <2>1. CASE /\ InUse(topic[k])
             /\ stage' = [stage EXCEPT ![k] = "found"]
             /\ found' = [found EXCEPT ![k] = o]
    <3>1. o \in Objects /\ o \in 0..MaxObjects /\ o <= created
        BY <1>1, <1>2, <2>1 DEF RegistryTypeOK, InUse, NilValue, Objects, Ownership
    <3>2. /\ stage'[k] = "found" /\ found'[k] = o /\ constant'[k] = members[o]
          /\ \A m \in ReceivedMessages : m # k => /\ stage'[m] = stage[m] /\ found'[m] = found[m]
                                          /\ constant'[m] = constant[m]
        BY <1>1, <1>3, <2>1 DEF RegistryTypeOK, Registered
    <3>3. RegistryTypeOK'
      <4>1. /\ stage' \in [ReceivedMessages -> Stages] /\ found' \in [ReceivedMessages -> 0..MaxObjects]
            /\ constant' \in [ReceivedMessages -> SUBSET Identifiers]
          BY <1>1, <1>3, <1>4, <2>1, <3>1 DEF RegistryTypeOK, Stages
      <4>2. \A m \in ReceivedMessages : stage'[m] = "found" => found'[m] \in Objects
          BY <1>1, <3>1, <3>2 DEF RegistryTypeOK
      <4>3. QED
          BY <1>1, <1>3, <4>1, <4>2 DEF RegistryTypeOK, InUse
    <3>4. Ownership'
        BY <1>1, <1>3, <3>1, <3>2 DEF Ownership, InUse
    <3>5. DispatchedWithinTopic'
        BY <1>1, <1>2, <1>3, <2>1, <3>2 DEF Ownership, DispatchedWithinTopic
    <3>6. ListsInv'
        BY <1>1, <1>3, <3>2 DEF ListsInv
    <3>7. QED
        BY <3>3, <3>4, <3>5, <3>6
  <2>2. CASE stage' = [stage EXCEPT ![k] = "refused"] /\ UNCHANGED found
    <3>1. /\ stage'[k] = "refused"
          /\ \A m \in ReceivedMessages : m # k => stage'[m] = stage[m] /\ constant'[m] = constant[m]
        BY <1>1, <1>3, <2>2 DEF RegistryTypeOK
    <3>2. RegistryTypeOK'
      <4>1. /\ stage' \in [ReceivedMessages -> Stages]
            /\ constant' \in [ReceivedMessages -> SUBSET Identifiers]
          BY <1>1, <1>3, <1>4, <2>2 DEF RegistryTypeOK, Stages
      <4>2. \A m \in ReceivedMessages : stage'[m] = "found" => found'[m] \in Objects
          BY <1>1, <2>2, <3>1 DEF RegistryTypeOK
      <4>3. QED
          BY <1>1, <1>3, <2>2, <4>1, <4>2 DEF RegistryTypeOK, InUse
    <3>3. Ownership' /\ DispatchedWithinTopic'
        BY <1>1, <1>3, <2>2 DEF Ownership, DispatchedWithinTopic, InUse
    <3>4. ListsInv'
        BY <1>1, <1>3, <2>2, <3>1 DEF ListsInv
    <3>5. QED
        BY <3>2, <3>3, <3>4
  <2>3. QED
      BY <1>3, <2>1, <2>2
<1>6. OneObjectPerTopic' /\ UnregisteredInv'
    BY <1>1, <1>3 DEF OneObjectPerTopic, UnregisteredInv, InUse, Registered
<1>7. QED
    BY <1>5, <1>6 DEF IInv

(* The list is read, and the message accepted or rejected.                 *)
LEMMA ListStep ==
    ASSUME IInv, NEW k \in ReceivedMessages, GetList(k) \/ Accept(k) \/ Reject(k)
    PROVE  IInv'
<1> USE MaxObjectsAssumption
<1>1. /\ RegistryTypeOK /\ Ownership /\ DispatchedWithinTopic /\ OneObjectPerTopic
      /\ ListsInv /\ UnregisteredInv
    BY DEF IInv
<1>2. /\ \/ /\ stage[k] = "found" /\ stage' = [stage EXCEPT ![k] = "listed"]
            /\ list' = [list EXCEPT ![k] = members[found[k]]]
            /\ UNCHANGED rated
         \/ /\ stage[k] = "listed"
            /\ stage' = [stage EXCEPT ![k] = "accepted"] \/ stage' = [stage EXCEPT ![k] = "rejected"]
            /\ UNCHANGED list
            /\ rated' \in {rated, rated \cup {k}}
      /\ UNCHANGED <<keys, processors, members, created, validator, pubsubUp, unregistered,
                     topic, direct, found, constant>>
    BY DEF GetList, Accept, Reject, At, regVars
<1>3. /\ \A m \in ReceivedMessages : m # k => stage'[m] = stage[m] /\ list'[m] = list[m]
      /\ stage'[k] \in {"listed", "accepted", "rejected"}
      /\ constant[k] \subseteq list'[k]
    BY <1>1, <1>2 DEF RegistryTypeOK, ListsInv
<1>4. RegistryTypeOK'
  <2>1. /\ stage' \in [ReceivedMessages -> Stages]
        /\ list' \in [ReceivedMessages -> SUBSET Identifiers]
        /\ rated' \subseteq ReceivedMessages
      BY <1>1, <1>2 DEF RegistryTypeOK, Stages
  <2>2. \A m \in ReceivedMessages : stage'[m] = "found" => found'[m] \in Objects
      BY <1>1, <1>2, <1>3 DEF RegistryTypeOK
  <2>3. QED
      BY <1>1, <1>2, <2>1, <2>2 DEF RegistryTypeOK, InUse
<1>5. ListsInv'
    BY <1>1, <1>2, <1>3 DEF ListsInv
<1>6. Ownership' /\ DispatchedWithinTopic' /\ OneObjectPerTopic' /\ UnregisteredInv'
    BY <1>1, <1>2 DEF Ownership, DispatchedWithinTopic, OneObjectPerTopic, UnregisteredInv,
                      InUse, Registered
<1>7. QED
    BY <1>4, <1>5, <1>6 DEF IInv

(* The invariant holds in every reachable state.                           *)
LEMMA Invariance == RegistrySpec => []IInv
<1>1. ASSUME IInv, UNCHANGED registryVars PROVE IInv'
    BY <1>1 DEF registryVars, regVars, msgVars, IInv, RegistryTypeOK, Ownership, DispatchedWithinTopic,
                OneObjectPerTopic, ListsInv, UnregisteredInv, InUse, Registered
<1>2. IInv /\ [RegistryNext]_registryVars => IInv'
    BY <1>1, AddStep, RegisterStep, UnregisterStep, UnregisterAllStep, CloseStep,
       FoundStep, ListStep DEF RegistryNext, Dispatch
<1>3. QED
    BY IInvInit, <1>2, PTL DEF RegistrySpec
-----------------------------------------------------------------------------
(* While processors come and go, a message that is dispatched outside of   *)
(* the handler's mutex is seen by all that stay and by none of another     *)
(* topic, however many there are of each (pubsubCallback,                  *)
(* ProcessReceivedMessage, topicProcessors.getList).                       *)
THEOREM RegistryCorrect == RegistrySpec => []RegistryInv
<1>1. IInv => RegistryInv
    BY DEF IInv, ListsInv, RegistryInv, SeenByAllRegistered
<1>2. QED
    BY Invariance, <1>1, PTL

(* The handler and pubsub, which RegisterMessageProcessor and its opposite *)
(* update one after the other, always hold the same object for a topic.    *)
THEOREM HandlerAndPubsubAgree == RegistrySpec => []OneObjectPerTopic
<1>1. IInv => OneObjectPerTopic
    BY DEF IInv
<1>2. QED
    BY Invariance, <1>1, PTL

(* What UnregisterAllMessageProcessors leaves behind while pubsub runs it  *)
(* leaves because of a key without an object, and it reports an error.     *)
THEOREM UnregisterAll == RegistrySpec => []UnregisterAllIsComplete
<1>1. IInv => UnregisterAllIsComplete
  <2> SUFFICES ASSUME IInv, pubsubUp, unregistered # "no", NEW t \in Topics, InUse(t)
               PROVE  unregistered = "error" /\ \E u \in keys : ~InUse(u)
      BY DEF UnregisterAllIsComplete
  <2>1. t \in keys /\ unregistered \in {"no", "all", "error"}
      BY DEF IInv, RegistryTypeOK
  <2>2. QED
      BY <2>1 DEF IInv, UnregisteredInv
<1>2. QED
    BY Invariance, <1>1, PTL
=============================================================================
