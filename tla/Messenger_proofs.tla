--------------------------- MODULE Messenger_proofs ---------------------------
(***************************************************************************)
(* The life of the messenger, for all configurations, any number of        *)
(* retries and whatever other processes do with the ports: a construction  *)
(* that succeeds, one that fails, and Close.  Then two of its parts: the   *)
(* peer discoverers it builds and the preferred peers holder it is given.  *)
(***************************************************************************)
EXTENDS Messenger, Discovery, PeersHolder, FiniteSetTheorems, SequenceTheorems, TLAPS

(***************************************************************************)
(* The inductive invariant.                                                *)
(***************************************************************************)
(* A fetch that has its list has a topic to file it under.                 *)
FetchInv ==
    \A g \in Callers \cup {Loop} : fetching[g].list # None => fetching[g].topic \in Topics

(* Ports and tries.                                                        *)
PortsInv ==
    /\ taken \subseteq everTaken /\ probed \subseteq everTaken
    /\ watchers \subseteq 1 .. tries
    /\ phase = "check" => tries = 0
    /\ phase \notin {"check", "failed"} => tries >= 1
    /\ phase \in {"options", "bind", "seeders", "components", "running"} =>
         PortError(config.port) = "nil" /\ port \in RangeOf(config)
    /\ phase \in {"seeders", "components", "running"} => port \notin taken

(* What the construction has built, and which checks it has passed.        *)
BuildInv ==
    /\ phase \notin {"closing", "closed", "failed"} => err = "nil"
    /\ phase \in {"check", "port", "options", "bind"} => ~hostOpen
    /\ phase \in {"seeders", "components", "running"} => hostOpen
    /\ phase \in {"check", "port", "options", "bind", "seeders"} => routines = {} /\ step = 1
    /\ phase \in {"components", "running"} => ~config.selfSeeder
    /\ phase = "components" =>
         /\ step <= Len(Components)
         /\ step > 3 => NewSharderError(config.sharding) = "nil"
         /\ step > 4 => NewPeerDiscoverersError(config) = "nil"
    /\ phase = "running" => /\ step = 1
                            /\ NewSharderError(config.sharding) = "nil"
                            /\ NewPeerDiscoverersError(config) = "nil"

(* What Close has stopped.                                                 *)
CloseInv ==
    /\ phase \notin {"closing", "closed"} => cancelled = {}
    /\ phase \notin {"closing", "closed", "failed"} => failures = {}
    /\ phase = "closing" =>
         /\ \A j \in 1 .. step - 1 : CloseSteps[j] \in Contexts => CloseSteps[j] \in cancelled
         /\ step > 7 => (hostOpen => "host" \in failures)
    /\ phase \in {"closing", "closed"} => (err = "nil" <=> failures = {})
    /\ phase = "closed" => cancelled = Contexts /\ (hostOpen => "host" \in failures)

(* Why a construction failed, and what it leaves behind.                   *)
ComponentErrors == {"targetPeerCount", "validators", "observers", "sum", "sharderType",
                    "noProtocol", "kadType", "refreshInterval", "tableRefresh"}
FailureInv ==
    phase = "failed" =>
        /\ err = "bind" => tries = MaxRetriesIfBindError /\ port \in everTaken
        /\ err = "noFreePort" => RangeOf(config) \subseteq everTaken
        /\ hostOpen => err = "selfSeeder" \/ "host" \in failures
        /\ routines # {} => err \in ComponentErrors

LifeInv == PortsInv /\ BuildInv /\ CloseInv /\ FailureInv
IInv == MessengerTypeOK /\ FetchInv /\ LifeInv
-----------------------------------------------------------------------------
(* What the constructors may answer.                                       *)
LEMMA ErrorFacts ==
    /\ \A p : PortError(p) \in {"nil", "portValue", "startPort", "endPort", "portFormat"}
    /\ \A a : TransportError(a) \in {"nil", "transportAddress", "noTransports"}
    /\ \A t : NewConnectionsWatcherError(t) \in {"nil", "watcherType"}
    /\ \A t : CreateResourceLimiterError(t) \in {"nil", "limiterType"}
    /\ \A c : ComponentError(c) \in {"nil"} \cup ComponentErrors
<1>1. \A p : PortError(p) \in {"nil", "portValue", "startPort", "endPort", "portFormat"}
  BY DEF PortError
<1>2. \A a : TransportError(a) \in {"nil", "transportAddress", "noTransports"}
  BY DEF TransportError
<1>3. /\ \A t : NewConnectionsWatcherError(t) \in {"nil", "watcherType"}
      /\ \A t : CreateResourceLimiterError(t) \in {"nil", "limiterType"}
  BY DEF NewConnectionsWatcherError, CreateResourceLimiterError
<1>4. \A s : NewListsSharderError(s) \in {"nil"} \cup ComponentErrors
  BY DEF NewListsSharderError, ComponentErrors
<1>5. \A s : NewSharderError(s) \in {"nil"} \cup ComponentErrors
  BY <1>4 DEF NewSharderError, ComponentErrors
<1>6. \A c : NewPeerDiscoverersError(c) \in {"nil"} \cup ComponentErrors
  BY DEF NewPeerDiscoverersError, ComponentErrors
<1>7. \A c : ComponentError(c) \in {"nil"} \cup ComponentErrors
  BY <1>5, <1>6 DEF ComponentError
<1> QED
  BY <1>1, <1>2, <1>3, <1>7

(* The order of the components and of Close.                               *)
LEMMA ComponentFacts ==
    /\ Len(Components) = 10 /\ Components[3] = "sharder" /\ Components[4] = "discoverers"
    /\ \A i \in 1 .. 10 : Components[i] \in Routines \cup {"sharder", "directSender"}
BY DEF Components, Routines
LEMMA CloseFacts ==
    /\ Len(CloseSteps) = 10
    /\ CloseSteps[7] = "host"
    /\ \A i \in 1 .. 10 : i # 7 => CloseSteps[i] # "host"
    /\ \A x \in Contexts : \E i \in 1 .. 10 : CloseSteps[i] = x
    /\ CloseSteps[10] \notin Contexts
<1> DEFINE a == MessagesHandlerCloses
           b == ConnectionsHandlerCloses
           d == <<"host", "watcher", "messenger", "peerstore">>
           Names == {"messagesHandler", "outgoingCLB", "debugger", "connectionsHandler",
                     "peersOnChannel", "connMonitor", "host", "watcher", "messenger", "peerstore"}
<1>1. /\ a \in Seq(Names) /\ Len(a) = 3
      /\ a[1] = "messagesHandler" /\ a[2] = "outgoingCLB" /\ a[3] = "debugger"
  BY DEF MessagesHandlerCloses
<1>2. /\ b \in Seq(Names) /\ Len(b) = 3
      /\ b[1] = "connectionsHandler" /\ b[2] = "peersOnChannel" /\ b[3] = "connMonitor"
  BY DEF ConnectionsHandlerCloses
<1>3. /\ d \in Seq(Names) /\ Len(d) = 4
      /\ d[1] = "host" /\ d[2] = "watcher" /\ d[3] = "messenger" /\ d[4] = "peerstore"
  OBVIOUS
<1>4. CloseSteps = (a \o b) \o d
  BY DEF CloseSteps
<1> HIDE DEF a, b, d, Names
<1>5. /\ a \o b \in Seq(Names) /\ Len(a \o b) = 6
      /\ \A i \in 1 .. 6 : (a \o b)[i] = IF i <= 3 THEN a[i] ELSE b[i - 3]
  <2>1. /\ a \o b \in Seq(Names) /\ Len(a \o b) = Len(a) + Len(b)
        /\ \A i \in 1 .. Len(a) + Len(b) :
             (a \o b)[i] = IF i <= Len(a) THEN a[i] ELSE b[i - Len(a)]
    BY ONLY <1>1, <1>2, ConcatProperties
  <2> QED
    BY <1>1, <1>2, <2>1
<1>6. /\ Len(CloseSteps) = 10
      /\ \A i \in 1 .. 10 : CloseSteps[i] = IF i <= 6 THEN (a \o b)[i] ELSE d[i - 6]
  <2>1. /\ Len(CloseSteps) = Len(a \o b) + Len(d)
        /\ \A i \in 1 .. Len(a \o b) + Len(d) :
             CloseSteps[i] = IF i <= Len(a \o b) THEN (a \o b)[i] ELSE d[i - Len(a \o b)]
    <3> DEFINE e == a \o b
    <3>1. e \in Seq(Names) /\ CloseSteps = e \o d
      BY <1>4, <1>5
    <3> HIDE DEF e
    <3>2. /\ Len(e \o d) = Len(e) + Len(d)
          /\ \A i \in 1 .. Len(e) + Len(d) :
               (e \o d)[i] = IF i <= Len(e) THEN e[i] ELSE d[i - Len(e)]
      BY ONLY <1>3, <3>1, ConcatProperties
    <3> QED
      BY <3>1, <3>2 DEF e
  <2> QED
    <3>1. Len(a \o b) = 6 /\ Len(d) = 4
      BY ONLY <1>3, <1>5
    <3> QED
      BY ONLY <2>1, <3>1
<1>7. /\ CloseSteps[1] = "messagesHandler" /\ CloseSteps[2] = "outgoingCLB"
      /\ CloseSteps[3] = "debugger" /\ CloseSteps[4] = "connectionsHandler"
      /\ CloseSteps[5] = "peersOnChannel" /\ CloseSteps[6] = "connMonitor"
  BY <1>1, <1>2, <1>5, <1>6
<1>8. /\ CloseSteps[7] = "host" /\ CloseSteps[8] = "watcher"
      /\ CloseSteps[9] = "messenger" /\ CloseSteps[10] = "peerstore"
  BY <1>3, <1>6
<1> QED
  BY <1>6, <1>7, <1>8 DEF Contexts
LEMMA PortFacts ==
    \A c \in Configs : PortError(c.port) = "nil" => RangeOf(c) \subseteq Ports
BY DEF Ports
-----------------------------------------------------------------------------
(* A step of the cache of peers on topics.                                 *)
PocNext ==
    \/ BuildTopicList \/ PocTick \/ UNCHANGED pocVars
    \/ \E g \in Callers \cup {Loop} : FetchPeers(g) \/ UpdateConnectedPeersOnTopic(g)
    \/ \E t \in Topics : \/ RefreshNext(t) \/ PeersChange(t)
                         \/ \E c \in Callers : ConnectedPeersOnChannel(c, t)

(* The cache stays well typed: what is filed was fetched for a topic.      *)
LEMMA PocStep ==
    ASSUME PocTypeOK, FetchInv, PocNext
    PROVE  PocTypeOK' /\ FetchInv'
<1> DEFINE G == Callers \cup {Loop}
           Fetches == [topic : Topics \cup {NoTopic}, list : Versions \cup {None}]
<1>0. /\ fetching \in [G -> Fetches] /\ Idle \in Fetches /\ None \notin Versions
      /\ Idle.list = None
  BY DEF PocTypeOK, Idle, None, Versions
<1>1. CASE UNCHANGED pocVars
  BY <1>1 DEF pocVars, PocTypeOK, FetchInv
<1>2. CASE BuildTopicList
  BY <1>2 DEF BuildTopicList, PocTypeOK, FetchInv
<1>3. CASE PocTick
  <2>1. age' \in [Topics -> 0 .. TtlInterval + 1]
    BY <1>3, TtlAssumption DEF PocTick, PocTypeOK
  <2> QED
    BY <1>3, <2>1 DEF PocTick, PocTypeOK, FetchInv
<1>4. ASSUME NEW g \in G, FetchPeers(g) PROVE PocTypeOK' /\ FetchInv'
  <2>1. fetching[g].topic \in Topics /\ truth[fetching[g].topic] \in Versions
    BY <1>0, <1>4 DEF FetchPeers, PocTypeOK
  <2>2. fetching' \in [G -> Fetches]
    BY <1>0, <1>4, <2>1 DEF FetchPeers
  <2>3. \A h \in G : fetching'[h].topic = fetching[h].topic
    BY <1>0, <1>4 DEF FetchPeers
  <2>4. \A h \in G : h # g => fetching'[h] = fetching[h]
    BY <1>0, <1>4 DEF FetchPeers
  <2>5. FetchInv'
    BY <2>1, <2>3, <2>4 DEF FetchInv
  <2> QED
    BY <1>4, <2>2, <2>5 DEF FetchPeers, PocTypeOK
<1>5. ASSUME NEW g \in G, UpdateConnectedPeersOnTopic(g) PROVE PocTypeOK' /\ FetchInv'
  <2>1. fetching[g].topic \in Topics /\ fetching[g].list \in Versions
    BY <1>0, <1>5 DEF UpdateConnectedPeersOnTopic, FetchInv
  <2>2. peers' \in [Topics -> Versions \cup {None}] /\ age' \in [Topics -> 0 .. TtlInterval + 1]
    BY <1>5, <2>1, TtlAssumption DEF UpdateConnectedPeersOnTopic, PocTypeOK
  <2>3. fetching' \in [G -> Fetches]
    BY <1>0, <1>5 DEF UpdateConnectedPeersOnTopic
  <2>4. FetchInv'
    BY <1>0, <1>5 DEF UpdateConnectedPeersOnTopic, FetchInv
  <2> QED
    BY <1>5, <2>2, <2>3, <2>4 DEF UpdateConnectedPeersOnTopic, PocTypeOK
<1>6. ASSUME NEW t \in Topics, NEW g \in G,
             fetching' = [fetching EXCEPT ![g] = [topic |-> t, list |-> None]]
      PROVE  fetching' \in [G -> Fetches] /\ FetchInv'
  <2>1. [topic |-> t, list |-> None] \in Fetches
    OBVIOUS
  <2>2. fetching' \in [G -> Fetches]
    BY <1>0, <1>6, <2>1
  <2>3. \A h \in G : fetching'[h] = fetching[h] \/ fetching'[h].list = None
    BY <1>0, <1>6
  <2> QED
    BY <2>2, <2>3 DEF FetchInv
<1>7. ASSUME NEW t \in Topics, RefreshNext(t) PROVE PocTypeOK' /\ FetchInv'
  BY <1>6, <1>7 DEF RefreshNext, PocTypeOK
<1>8. ASSUME NEW t \in Topics, NEW c \in Callers, ConnectedPeersOnChannel(c, t)
      PROVE  PocTypeOK' /\ FetchInv'
  BY <1>6, <1>8 DEF ConnectedPeersOnChannel, PocTypeOK
<1>9. ASSUME NEW t \in Topics, PeersChange(t) PROVE PocTypeOK' /\ FetchInv'
  BY <1>9, TtlAssumption DEF PeersChange, PocTypeOK, Versions, FetchInv
<1> QED
  BY <1>1, <1>2, <1>3, <1>4, <1>5, <1>7, <1>8, <1>9 DEF PocNext
-----------------------------------------------------------------------------
LifeTypeOK ==
    /\ config \in Configs
    /\ phase \in {"check", "port", "options", "bind", "seeders", "components", "running",
                  "closing", "closed", "failed"}
    /\ tries \in 0 .. MaxRetriesIfBindError
    /\ probed \subseteq Ports /\ taken \subseteq Ports /\ everTaken \subseteq Ports
    /\ port \in Ports \cup {None}
    /\ hostOpen \in BOOLEAN
    /\ step \in 1 .. 10
    /\ routines \subseteq Routines
    /\ watchers \subseteq 1 .. MaxRetriesIfBindError
    /\ cancelled \subseteq Contexts
    /\ err \in Errors
    /\ failures \subseteq ClosingFaults
LEMMA TypeParts == MessengerTypeOK <=> PocTypeOK /\ LifeTypeOK
BY CloseFacts DEF MessengerTypeOK, LifeTypeOK

(* The life of the messenger when the cache of peers on topics moves.      *)
LEMMA LifeUnchanged ==
    ASSUME LifeTypeOK, LifeInv, UNCHANGED lifeVars
    PROVE  LifeTypeOK' /\ LifeInv'
<1>1. LifeTypeOK'
  BY DEF LifeTypeOK, lifeVars, ClosingFaults
<1>2. PortsInv'
  BY DEF LifeInv, PortsInv, lifeVars
<1>3. BuildInv'
  BY DEF LifeInv, BuildInv, lifeVars
<1>4. CloseInv'
  BY DEF LifeInv, CloseInv, lifeVars
<1>5. FailureInv'
  BY DEF LifeInv, FailureInv, lifeVars
<1> QED
  BY <1>1, <1>2, <1>3, <1>4, <1>5 DEF LifeInv

(* newNetworkMessenger, before there is a host.                            *)
LEMMA CheckStep ==
    ASSUME LifeTypeOK, LifeInv, CheckArguments
    PROVE  LifeTypeOK' /\ LifeInv'
<1> USE DEF LifeInv, CheckArguments, Fail
<1>1. LifeTypeOK'
  BY RetriesAssumption DEF LifeTypeOK, ClosingFaults, Errors
<1>2. PortsInv'
  BY RetriesAssumption DEF LifeTypeOK, PortsInv
<1>3. BuildInv'
  BY DEF BuildInv
<1>4. CloseInv'
  BY DEF CloseInv
<1>5. FailureInv'
  BY DEF FailureInv, BuildInv
<1> QED
  BY <1>1, <1>2, <1>3, <1>4, <1>5

LEMMA FixedPortStep ==
    ASSUME LifeTypeOK, LifeInv, GetFixedPort
    PROVE  LifeTypeOK' /\ LifeInv'
<1> USE DEF LifeInv, GetFixedPort, Fail
<1>0. /\ config.port \in Seq(Int)
      /\ PortError(config.port) = "nil" => config.port[1] \in RangeOf(config)
      /\ PortError(config.port) = "nil" => RangeOf(config) \subseteq Ports
      /\ PortError(config.port) \in {"nil", "portValue", "startPort", "endPort", "portFormat"}
  BY ConfigsAssumption, PortFacts, ErrorFacts DEF LifeTypeOK, RangeOf
<1>1. LifeTypeOK'
  <2>1. port' \in Ports \cup {None} /\ err' \in Errors
        /\ phase' \in {"options", "failed"}
    BY <1>0 DEF LifeTypeOK, Errors
  <2> QED
    BY <2>1 DEF LifeTypeOK, ClosingFaults
<1>2. PortsInv'
  BY <1>0 DEF LifeTypeOK, PortsInv
<1>3. BuildInv'
  BY DEF BuildInv
<1>4. CloseInv'
  BY DEF CloseInv
<1>5. FailureInv'
  BY <1>0 DEF FailureInv, BuildInv
<1> QED
  BY <1>1, <1>2, <1>3, <1>4, <1>5

LEMMA ProbeStep ==
    ASSUME LifeTypeOK, LifeInv, NEW p \in Ports, ProbePort(p)
    PROVE  LifeTypeOK' /\ LifeInv'
<1> USE DEF LifeInv, ProbePort, Fail
<1>1. LifeTypeOK'
  BY DEF LifeTypeOK, ClosingFaults, Errors
<1>2. PortsInv'
  BY DEF LifeTypeOK, PortsInv
<1>3. BuildInv'
  BY DEF BuildInv
<1>4. CloseInv'
  BY DEF CloseInv
<1>5. FailureInv'
  BY <1>2 DEF FailureInv, BuildInv, PortsInv
<1> QED
  BY <1>1, <1>2, <1>3, <1>4, <1>5

LEMMA OptionsStep ==
    ASSUME LifeTypeOK, LifeInv, BuildOptions
    PROVE  LifeTypeOK' /\ LifeInv'
<1> DEFINE Answers == {"nil", "watcherType", "privateKey", "transportAddress", "noTransports",
                       "limiterType"}
<1>0. /\ UNCHANGED <<config, tries, probed, port, taken, everTaken, hostOpen, step, routines,
                     cancelled, failures>>
      /\ phase = "options" /\ watchers' \in {watchers, watchers \cup {tries}}
      /\ \/ phase' = "failed" /\ err' \in Answers
         \/ phase' = "bind" /\ err' = err
  BY ErrorFacts DEF BuildOptions, Fail
<1> USE DEF LifeInv
<1>1. LifeTypeOK'
  <2>1. watchers' \subseteq 1 .. MaxRetriesIfBindError
    BY <1>0, RetriesAssumption DEF LifeTypeOK, PortsInv
  <2> QED
    BY <1>0, <2>1 DEF LifeTypeOK, ClosingFaults, Errors
<1>2. PortsInv'
  BY <1>0, RetriesAssumption DEF LifeTypeOK, PortsInv
<1>3. BuildInv'
  BY <1>0 DEF BuildInv
<1>4. CloseInv'
  BY <1>0 DEF CloseInv
<1>5. FailureInv'
  BY <1>0 DEF FailureInv, BuildInv
<1> QED
  BY <1>1, <1>2, <1>3, <1>4, <1>5

(* libp2p.New and what follows it.                                         *)
LEMMA NewHostStep ==
    ASSUME LifeTypeOK, LifeInv, NewHost
    PROVE  LifeTypeOK' /\ LifeInv'
<1>0. /\ UNCHANGED <<config, port, taken, everTaken, step, routines, watchers, cancelled,
                     failures>>
      /\ phase = "bind"
      /\ \/ /\ port \in taken /\ tries < MaxRetriesIfBindError
            /\ phase' = "port" /\ tries' = tries + 1 /\ probed' = {}
            /\ UNCHANGED <<err, hostOpen>>
         \/ /\ port \in taken /\ ~(tries < MaxRetriesIfBindError)
            /\ phase' = "failed" /\ err' = "bind" /\ UNCHANGED <<tries, probed, hostOpen>>
         \/ /\ port \notin taken /\ phase' = "seeders" /\ hostOpen' = TRUE
            /\ UNCHANGED <<err, tries, probed>>
         \/ /\ phase' = "failed" /\ err' = "newHost" /\ UNCHANGED <<hostOpen, tries, probed>>
  BY DEF NewHost, Fail
<1> USE DEF LifeInv
<1>1. LifeTypeOK'
  <2>1. err' \in Errors /\ phase' \in {"port", "seeders", "failed"} /\ hostOpen' \in BOOLEAN
    BY <1>0 DEF LifeTypeOK, Errors
  <2>2. tries' \in 0 .. MaxRetriesIfBindError /\ probed' \subseteq Ports
    BY <1>0, RetriesAssumption DEF LifeTypeOK
  <2>3. ClosingFaults' = ClosingFaults
    BY <1>0 DEF ClosingFaults
  <2> QED
    BY <1>0, <2>1, <2>2, <2>3 DEF LifeTypeOK
<1>2. PortsInv'
  BY <1>0, RetriesAssumption DEF LifeTypeOK, PortsInv
<1>3. BuildInv'
  BY <1>0 DEF BuildInv
<1>4. CloseInv'
  BY <1>0 DEF CloseInv
<1>5. FailureInv'
  <2>1. ~(tries < MaxRetriesIfBindError) => tries = MaxRetriesIfBindError
    BY RetriesAssumption DEF LifeTypeOK
  <2> QED
    BY <1>0, <2>1 DEF FailureInv, BuildInv, PortsInv
<1> QED
  BY <1>1, <1>2, <1>3, <1>4, <1>5

LEMMA SeedersStep ==
    ASSUME LifeTypeOK, LifeInv, ValidateSeeders
    PROVE  LifeTypeOK' /\ LifeInv'
<1> USE DEF LifeInv, ValidateSeeders, Fail
<1>1. LifeTypeOK'
  <2>1. err' \in Errors /\ phase' \in {"components", "failed"}
    BY DEF LifeTypeOK, Errors
  <2>2. ClosingFaults' = ClosingFaults
    BY DEF ClosingFaults
  <2> QED
    BY <2>1, <2>2 DEF LifeTypeOK
<1>2. PortsInv'
  BY DEF PortsInv
<1>3. BuildInv'
  BY ComponentFacts DEF BuildInv
<1>4. CloseInv'
  BY DEF CloseInv
<1>5. FailureInv'
  BY DEF FailureInv, BuildInv
<1> QED
  BY <1>1, <1>2, <1>3, <1>4, <1>5

LEMMA AddComponentStep ==
    ASSUME LifeTypeOK, LifeInv, AddComponent
    PROVE  LifeTypeOK' /\ LifeInv'
<1> DEFINE component == Components[step]
<1>1. /\ UNCHANGED <<config, tries, probed, port, taken, everTaken, watchers, cancelled>>
      /\ phase = "components" /\ step \in 1 .. 10
  BY ComponentFacts DEF AddComponent, LifeTypeOK
<1>2. CASE ComponentError(component) # "nil"
  <2>1. /\ phase' = "failed" /\ err' = ComponentError(component)
        /\ hostOpen' \in BOOLEAN /\ (hostOpen' => "host" \in failures')
        /\ failures' \subseteq ClosingFaults
        /\ UNCHANGED <<step, routines>>
    BY <1>2 DEF AddComponent, Fail, CloseHost, LifeTypeOK
  <2>2. err' \in ComponentErrors
    BY <1>2, <2>1, ErrorFacts
  <2>3. LifeTypeOK'
    BY <1>1, <2>1, <2>2 DEF LifeTypeOK, ClosingFaults, Errors, ComponentErrors
  <2>4. PortsInv'
    BY <1>1, <2>1 DEF LifeInv, PortsInv
  <2>5. BuildInv' /\ CloseInv'
    BY <1>1, <2>1 DEF LifeInv, BuildInv, CloseInv
  <2>6. FailureInv'
    BY <2>1, <2>2 DEF FailureInv, ComponentErrors
  <2> QED
    BY <2>3, <2>4, <2>5, <2>6 DEF LifeInv
<1>3. CASE ComponentError(component) = "nil"
  <2>1. /\ routines' = routines \cup Started(component) /\ UNCHANGED <<err, hostOpen, failures>>
        /\ \/ step = 10 /\ phase' = "running" /\ step' = 1
           \/ step # 10 /\ phase' = phase /\ step' = step + 1
    BY <1>3, ComponentFacts DEF AddComponent
  <2>2. Started(component) \subseteq Routines
    <3>1. component \in Routines \cup {"sharder", "directSender"}
      BY <1>1, ComponentFacts
    <3> QED
      BY <3>1 DEF Started, Routines
  <2>3. LifeTypeOK'
    BY <1>1, <2>1, <2>2 DEF LifeTypeOK, ClosingFaults
  <2>4. PortsInv'
    BY <1>1, <2>1 DEF LifeInv, PortsInv
  <2>5. /\ step > 3 => NewSharderError(config.sharding) = "nil"
        /\ step > 4 => NewPeerDiscoverersError(config) = "nil"
        /\ step = 3 => NewSharderError(config.sharding) = "nil"
        /\ step = 4 => NewPeerDiscoverersError(config) = "nil"
    BY <1>1, <1>3, ComponentFacts DEF LifeInv, BuildInv, ComponentError
  <2>6. BuildInv'
    BY <1>1, <2>1, <2>5, ComponentFacts DEF LifeInv, BuildInv
  <2>7. CloseInv' /\ FailureInv'
    BY <1>1, <2>1 DEF LifeInv, CloseInv, FailureInv
  <2> QED
    BY <2>3, <2>4, <2>6, <2>7 DEF LifeInv
<1> QED
  BY <1>2, <1>3
-----------------------------------------------------------------------------
LEMMA CloseBegins ==
    ASSUME LifeTypeOK, LifeInv, Close
    PROVE  LifeTypeOK' /\ LifeInv'
<1> USE DEF LifeInv, Close
<1>1. LifeTypeOK'
  BY DEF LifeTypeOK, ClosingFaults
<1>2. PortsInv' /\ BuildInv' /\ FailureInv'
  BY DEF PortsInv, BuildInv, FailureInv
<1>3. CloseInv'
  BY DEF CloseInv, BuildInv
<1> QED
  BY <1>1, <1>2, <1>3

(* A step of Close stops its part, whether it fails or not.                *)
LEMMA CloseStepStep ==
    ASSUME LifeTypeOK, LifeInv, CloseStep
    PROVE  LifeTypeOK' /\ LifeInv'
<1> DEFINE part == CloseSteps[step]
<1>1. /\ UNCHANGED <<config, tries, probed, port, taken, everTaken, routines, watchers>>
      /\ phase = "closing" /\ step \in 1 .. 10
      /\ cancelled' = IF part \in Contexts THEN cancelled \cup {part} ELSE cancelled
      /\ ClosePart(part)
      /\ \/ step = 10 /\ phase' = "closed" /\ step' = step
         \/ step # 10 /\ phase' = phase /\ step' = step + 1
  BY CloseFacts DEF CloseStep, LifeTypeOK
<1> HIDE DEF part
<1>2. /\ \/ UNCHANGED <<err, failures>>
         \/ part \in ClosingFaults /\ err' = part /\ failures' = failures \cup {part}
      /\ hostOpen' \in BOOLEAN
      /\ step # 7 => hostOpen' = hostOpen
      /\ step = 7 => (hostOpen' => "host" \in failures')
  <2>1. step = 7 <=> part = "host"
    BY <1>1, CloseFacts DEF part
  <2> QED
    BY <1>1, <2>1 DEF ClosePart, CloseHost, LifeTypeOK
<1>3. /\ err' \in Errors /\ failures' \subseteq ClosingFaults
      /\ part \in ClosingFaults => part \in {"debugger", "host", "peerstore"}
  BY <1>2 DEF LifeTypeOK, ClosingFaults, Errors
<1>4. LifeTypeOK'
  <2>1. cancelled' \subseteq Contexts /\ step' \in 1 .. 10
    BY <1>1 DEF LifeTypeOK
  <2>2. ClosingFaults' = ClosingFaults
    BY <1>1 DEF ClosingFaults
  <2>3. phase' \in {"closing", "closed"} /\ hostOpen' \in BOOLEAN
    BY <1>1, <1>2
  <2>4. failures' \subseteq ClosingFaults'
    BY <1>3, <2>2
  <2> QED
    BY <1>1, <1>3, <2>1, <2>3, <2>4 DEF LifeTypeOK
<1>5. PortsInv' /\ BuildInv' /\ FailureInv'
  BY <1>1 DEF LifeInv, PortsInv, BuildInv, FailureInv
<1>6. err' = "nil" <=> failures' = {}
  <2>1. err = "nil" <=> failures = {}
    BY <1>1 DEF LifeInv, CloseInv
  <2>2. CASE UNCHANGED <<err, failures>>
    BY <2>1, <2>2
  <2>3. CASE part \in ClosingFaults /\ err' = part /\ failures' = failures \cup {part}
    BY <1>3, <2>3
  <2> QED
    BY <1>2, <2>2, <2>3
<1>7. \A j \in 1 .. step : CloseSteps[j] \in Contexts => CloseSteps[j] \in cancelled'
  <2>1. \A j \in 1 .. step - 1 : CloseSteps[j] \in Contexts => CloseSteps[j] \in cancelled
    BY <1>1 DEF LifeInv, CloseInv
  <2>2. \A j \in 1 .. step : j = step \/ j \in 1 .. step - 1
    BY <1>1
  <2>3. cancelled \subseteq cancelled' /\ (part \in Contexts => part \in cancelled')
    BY <1>1
  <2> QED
    BY <2>1, <2>2, <2>3 DEF part
<1>8. step >= 7 => (hostOpen' => "host" \in failures')
  <2>1. step > 7 => (hostOpen => "host" \in failures)
    BY <1>1 DEF LifeInv, CloseInv
  <2>2. CASE step = 7
    BY <1>2, <2>2
  <2>3. CASE step > 7
    <3>1. hostOpen' = hostOpen /\ failures \subseteq failures'
      BY <1>1, <1>2, <2>3
    <3> QED
      BY <2>1, <2>3, <3>1
  <2> QED
    BY <1>1, <2>2, <2>3
<1>9. step = 10 => cancelled' = Contexts
  <2> SUFFICES ASSUME step = 10 PROVE cancelled' = Contexts
    OBVIOUS
  <2>1. \A x \in Contexts : x \in cancelled'
    BY <1>7, CloseFacts
  <2> QED
    BY <1>4, <2>1 DEF LifeTypeOK
<1>10. CloseInv'
  <2>1. CASE step = 10
    BY <1>1, <1>6, <1>8, <1>9, <2>1 DEF CloseInv
  <2>2. CASE step # 10
    <3>1. step' - 1 = step /\ phase' = "closing" /\ (step' > 7 => step >= 7)
      BY <1>1, <2>2
    <3> QED
      BY <1>6, <1>7, <1>8, <3>1 DEF CloseInv
  <2> QED
    BY <2>1, <2>2
<1> QED
  BY <1>4, <1>5, <1>10 DEF LifeInv

(* Goroutines that end, and the ports of other processes.                  *)
LEMMA RoutinesStep ==
    ASSUME LifeTypeOK, LifeInv, RoutinesEnd \/ LoadBalancerEnds \/ RefreshEnds \/ WatcherEnds
    PROVE  LifeTypeOK' /\ LifeInv'
<1>1. /\ UNCHANGED <<config, phase, tries, probed, port, taken, everTaken, hostOpen, step,
                     cancelled, err, failures>>
      /\ routines' \subseteq routines /\ watchers' \subseteq watchers
  BY DEF RoutinesEnd, LoadBalancerEnds, RefreshEnds, WatcherEnds
<1>2. LifeTypeOK'
  BY <1>1 DEF LifeTypeOK, ClosingFaults
<1>3. PortsInv'
  BY <1>1 DEF LifeInv, PortsInv
<1>4. BuildInv'
  BY <1>1 DEF LifeInv, BuildInv
<1>5. CloseInv' /\ FailureInv'
  BY <1>1 DEF LifeInv, CloseInv, FailureInv
<1> QED
  BY <1>2, <1>3, <1>4, <1>5 DEF LifeInv

LEMMA ChurnStep ==
    ASSUME LifeTypeOK, LifeInv, NEW p \in Ports, PortChurn(p)
    PROVE  LifeTypeOK' /\ LifeInv'
<1> USE DEF LifeInv, PortChurn
<1>1. LifeTypeOK'
  BY DEF LifeTypeOK, ClosingFaults
<1>2. PortsInv'
  BY DEF PortsInv
<1>3. BuildInv'
  BY DEF BuildInv
<1>4. CloseInv' /\ FailureInv'
  BY DEF CloseInv, FailureInv
<1> QED
  BY <1>1, <1>2, <1>3, <1>4
-----------------------------------------------------------------------------
LEMMA InitInv == MessengerInit => IInv
<1> SUFFICES ASSUME MessengerInit PROVE IInv
  OBVIOUS
<1> USE DEF MessengerInit
<1>1. PocTypeOK /\ FetchInv
  <2>1. Idle.topic = NoTopic /\ Idle.list = None
    BY DEF Idle
  <2>2. Idle \in [topic : Topics \cup {NoTopic}, list : Versions \cup {None}]
    BY DEF Idle
  <2>3. fetching \in [Callers \cup {Loop} ->
                        [topic : Topics \cup {NoTopic}, list : Versions \cup {None}]]
    BY <2>2 DEF NewPeersOnChannel
  <2>4. FetchInv
    BY <2>1 DEF NewPeersOnChannel, FetchInv
  <2>5. /\ truth \in [Topics -> Versions] /\ peers \in [Topics -> Versions \cup {None}]
        /\ age \in [Topics -> 0 .. TtlInterval + 1] /\ toRefresh \in SUBSET Topics
    BY TtlAssumption DEF NewPeersOnChannel, Versions
  <2> QED
    BY <2>3, <2>4, <2>5 DEF PocTypeOK
<1>2. LifeTypeOK
  <2>1. err \in Errors
    BY DEF Errors
  <2>2. tries \in 0 .. MaxRetriesIfBindError /\ step \in 1 .. 10
    BY RetriesAssumption
  <2> QED
    BY <2>1, <2>2 DEF LifeTypeOK
<1>3. PortsInv
  BY DEF PortsInv
<1>4. BuildInv /\ CloseInv /\ FailureInv
  BY DEF BuildInv, CloseInv, FailureInv
<1> QED
  BY <1>1, <1>2, <1>3, <1>4, TypeParts DEF IInv, LifeInv

LEMMA IInvStep == IInv /\ [MessengerNext]_messengerVars => IInv'
<1> SUFFICES ASSUME IInv, [MessengerNext]_messengerVars PROVE IInv'
  OBVIOUS
<1>0. PocTypeOK /\ FetchInv /\ LifeTypeOK /\ LifeInv
  BY TypeParts DEF IInv
<1>1. SUFFICES (PocTypeOK /\ FetchInv)' /\ (LifeTypeOK /\ LifeInv)'
  <2>1. (PocTypeOK /\ LifeTypeOK)' => MessengerTypeOK'
    BY TypeParts, PTL
  <2> QED
    BY <2>1 DEF IInv
<1>2. ASSUME UNCHANGED lifeVars, PocNext
      PROVE  (PocTypeOK /\ FetchInv)' /\ (LifeTypeOK /\ LifeInv)'
  BY <1>0, <1>2, PocStep, LifeUnchanged
<1>3. ASSUME UNCHANGED pocVars PROVE (PocTypeOK /\ FetchInv)'
  BY <1>0, <1>3, PocStep DEF PocNext
<1>4. CASE UNCHANGED messengerVars
  BY <1>2, <1>4 DEF messengerVars, PocNext
<1>5. CASE PeersOnChannelStep \/ RefreshStep
  <2>1. UNCHANGED lifeVars /\ PocNext
    BY <1>5 DEF PeersOnChannelStep, RefreshStep, CallerFetch, TimePasses, PocNext
  <2> QED
    BY <1>2, <2>1
<1>6. CASE CheckArguments
  BY <1>0, <1>3, <1>6, CheckStep DEF CheckArguments
<1>7. CASE GetFixedPort
  BY <1>0, <1>3, <1>7, FixedPortStep DEF GetFixedPort
<1>8. ASSUME NEW p \in Ports, ProbePort(p)
      PROVE  (PocTypeOK /\ FetchInv)' /\ (LifeTypeOK /\ LifeInv)'
  BY <1>0, <1>3, <1>8, ProbeStep DEF ProbePort
<1>9. CASE BuildOptions
  BY <1>0, <1>3, <1>9, OptionsStep DEF BuildOptions
<1>10. CASE NewHost
  BY <1>0, <1>3, <1>10, NewHostStep DEF NewHost
<1>11. CASE ValidateSeeders
  BY <1>0, <1>3, <1>11, SeedersStep DEF ValidateSeeders
<1>12. CASE AddComponent
  BY <1>0, <1>3, <1>12, AddComponentStep DEF AddComponent
<1>13. CASE Close
  BY <1>0, <1>3, <1>13, CloseBegins DEF Close
<1>14. CASE CloseStep
  BY <1>0, <1>3, <1>14, CloseStepStep DEF CloseStep
<1>15. CASE RoutinesEnd \/ LoadBalancerEnds \/ RefreshEnds \/ WatcherEnds
  BY <1>0, <1>3, <1>15, RoutinesStep DEF RoutinesEnd, LoadBalancerEnds, RefreshEnds, WatcherEnds
<1>16. ASSUME NEW p \in Ports, PortChurn(p)
       PROVE  (PocTypeOK /\ FetchInv)' /\ (LifeTypeOK /\ LifeInv)'
  BY <1>0, <1>3, <1>16, ChurnStep DEF PortChurn
<1> QED
  BY <1>4, <1>5, <1>6, <1>7, <1>8, <1>9, <1>10, <1>11, <1>12, <1>13, <1>14, <1>15, <1>16
  DEF MessengerNext, ConstructionStep

LEMMA Invariance == MessengerSpec => []IInv
BY InitInv, IInvStep, PTL DEF MessengerSpec

(* A messenger that is running owns its port and has been given limits     *)
(* that add up.                                                            *)
LEMMA RunningSuffices == IInv => RunningNodeIsSound
<1> SUFFICES ASSUME IInv, phase = "running"
             PROVE  /\ hostOpen /\ port \in RangeOf(config) \ taken
                    /\ ~config.selfSeeder
                    /\ config.sharding.type = "ListsSharder" =>
                         config.sharding.target > config.sharding.intraV + config.sharding.crossV
                                                  + config.sharding.intraO + config.sharding.crossO
                                                  + config.sharding.seeders
                    /\ config.kad.enabled => config.kad.protocols > 0
  BY DEF RunningNodeIsSound
<1>1. hostOpen /\ port \in RangeOf(config) \ taken /\ ~config.selfSeeder
  BY DEF IInv, LifeInv, PortsInv, BuildInv
<1>2. NewSharderError(config.sharding) = "nil" /\ NewPeerDiscoverersError(config) = "nil"
  BY DEF IInv, LifeInv, BuildInv
<1>3. /\ config.sharding.target \in Nat /\ config.sharding.intraV \in Nat
      /\ config.sharding.crossV \in Nat /\ config.sharding.intraO \in Nat
      /\ config.sharding.crossO \in Nat /\ config.sharding.seeders \in Nat
      /\ config.kad.protocols \in Nat
  BY ConfigsAssumption DEF IInv, MessengerTypeOK
<1>4. config.sharding.type = "ListsSharder" =>
        config.sharding.target > config.sharding.intraV + config.sharding.crossV
                                 + config.sharding.intraO + config.sharding.crossO
                                 + config.sharding.seeders
  <2>1. config.sharding.type = "ListsSharder" => NewListsSharderError(config.sharding) = "nil"
    BY <1>2 DEF NewSharderError
  <2> QED
    BY <1>3, <2>1 DEF NewListsSharderError
<1>5. config.kad.enabled => config.kad.protocols > 0
  BY <1>2, <1>3 DEF NewPeerDiscoverersError
<1> QED
  BY <1>1, <1>4, <1>5

(***************************************************************************)
(* Whatever the configuration is, whatever fails and whatever happens to   *)
(* the ports: a messenger that newNetworkMessenger returns owns a port of  *)
(* its range and has sound limits; it fails for want of a port only when   *)
(* it had to; and a failure leaves behind no more than is said             *)
(* (netMessenger.go newNetworkMessenger, ports.go).                        *)
(***************************************************************************)
THEOREM MessengerCorrect == MessengerSpec => []ConstructionInv
<1>1. IInv => PortFailuresAreReal
  BY DEF IInv, LifeInv, FailureInv, PortFailuresAreReal
<1>2. IInv => FailedConstructionLeftovers
  <2> SUFFICES ASSUME IInv PROVE FailedConstructionLeftovers
    OBVIOUS
  <2>1. tries \in Nat /\ watchers \subseteq 1 .. tries
    BY DEF IInv, MessengerTypeOK, LifeInv, PortsInv
  <2>2. IsFiniteSet(1 .. tries) /\ Cardinality(1 .. tries) = tries
    BY <2>1, FS_Interval
  <2>3. Cardinality(watchers) <= tries
    BY <2>1, <2>2, FS_Subset
  <2> QED
    BY <2>3 DEF IInv, LifeInv, FailureInv, FailedConstructionLeftovers, ComponentErrors
<1>3. IInv => ConstructionInv
  BY <1>1, <1>2, RunningSuffices DEF IInv, ConstructionInv
<1> QED
  BY Invariance, <1>3, PTL

(* Close reaches every component although some of them fail, and returns   *)
(* nil only if none did (netMessenger.go Close, messagesHandler.go Close,  *)
(* connectionsHandler.go Close).                                           *)
THEOREM CloseIsComplete == MessengerSpec => []CloseReachesEveryone
<1>1. IInv => CloseReachesEveryone
  BY DEF IInv, LifeInv, CloseInv, CloseReachesEveryone
<1> QED
  BY Invariance, <1>1, PTL
-----------------------------------------------------------------------------
(***************************************************************************)
(* The peer discoverers for any list of seeders, any limit of the sharder  *)
(* and any number of callers of Bootstrap: the seeders come first, no      *)
(* index leaves their list, and one call of Bootstrap succeeds.            *)
(***************************************************************************)
(***************************************************************************)
(* The inductive invariant.                                                *)
(***************************************************************************)
(* What a goroutine that dials the seeders in turn tells those who wait    *)
(* for it, and that there is a seeder to dial.                             *)
TryerInv ==
    /\ connected # {} => everConnected
    /\ \A r \in Requesters :
         /\ tryer[r] \in {"dial", "pause"} => InitialPeersList # <<>>
         /\ tryer[r] = "done" => everConnected \/ InitialPeersList = <<>>

(* The dht is there when a call of Bootstrap has succeeded; the optimized  *)
(* discoverer's loop may still hold the answer for that call.              *)
Succeeded == \E c \in BootstrapCallers : caller[c] = "nil"
Holds(result) == loop = "answer" /\ answer = result
CallersInv ==
    /\ type \in {"legacy", "optimized", "nil"}
    /\ type = "legacy" => (kadDHT # "nil" <=> Succeeded)
    /\ type = "optimized" =>
         /\ status = "not initialized" => ~Succeeded /\ ~Holds("nil")
         /\ status = "initialized" => Succeeded \/ Holds("nil")
         /\ Holds("nil") => ~Succeeded
         /\ Holds("already") => Succeeded

DiscoveryIInv == DiscoveryInv /\ OneBootstrapSucceeds /\ TryerInv /\ CallersInv
-----------------------------------------------------------------------------
(* A list of seeders is empty, or its indexes are those of seeders.        *)
LEMMA ListFacts ==
    /\ Len(InitialPeersList) \in Nat
    /\ InitialPeersList # <<>> => Len(InitialPeersList) > 0
    /\ \A i \in 1 .. Len(InitialPeersList) : InitialPeersList[i] \in Seeders
BY SeedersAssumption

(* What a dial may change, whatever the sharder evicts, and what its       *)
(* success means.                                                          *)
DialOutcome(ok) ==
    /\ connected' \subseteq Seeders /\ everConnected' \in BOOLEAN
    /\ refusals' \in 0 .. MaxRefusals
    /\ everConnected => everConnected'
    /\ connected' # {} => everConnected'
    /\ ok => everConnected'
LEMMA DialStep ==
    ASSUME DialTypeOK, TryerInv, NEW s \in Seeders, NEW ok \in BOOLEAN,
           Dial(s, ok) \/ (ok /\ Opened(s))
    PROVE  DialOutcome(ok)
<1>1. connected # {} => everConnected
  BY DEF TryerInv
<1>2. CASE ok /\ s \in connected /\ UNCHANGED <<connected, everConnected, refusals>>
  BY <1>1, <1>2 DEF DialOutcome, DialTypeOK
<1>3. CASE Opened(s)
  <2>1. PICK gone : connected' = (connected \cup {s}) \ gone
    BY <1>3 DEF Opened
  <2> QED
    BY <1>3, <2>1 DEF Opened, DialOutcome, DialTypeOK
<1>4. CASE ~ok /\ UNCHANGED <<connected, everConnected>>
           /\ (refusals' = refusals \/ (refusals < MaxRefusals /\ refusals' = refusals + 1))
  BY <1>1, <1>4, BoundsAssumption DEF DialOutcome, DialTypeOK
<1> QED
  BY <1>2, <1>3, <1>4 DEF Dial
LEMMA CreateStep ==
    ASSUME DialTypeOK, NEW ok \in BOOLEAN, CreateKadDht(ok)
    PROVE  createFails' \in 0 .. MaxCreateFails
<1>1. CASE UNCHANGED createFails
  BY <1>1 DEF DialTypeOK
<1>2. CASE createFails < MaxCreateFails /\ createFails' = createFails + 1
  BY <1>2, BoundsAssumption DEF DialTypeOK
<1> QED
  BY <1>1, <1>2 DEF CreateKadDht
(* A discoverer that is not the configured one stays as it is.             *)
LEMMA OkddStays == ASSUME OkddTypeOK, UNCHANGED okddVars PROVE OkddTypeOK'
BY Zenon DEF okddVars, OkddTypeOK
LEMMA DialStays == ASSUME DialTypeOK, UNCHANGED dialVars PROVE DialTypeOK'
BY Zenon DEF dialVars, DialTypeOK
-----------------------------------------------------------------------------
(* The optimized discoverer.                                               *)
SlowInv == DialTypeOK /\ OkddTypeOK /\ SlowTimerMeansSeeder
LEMMA OptimizedTypes ==
    ASSUME SlowInv, TryerInv, OkddNext
    PROVE  SlowInv' /\ (everConnected => everConnected') /\ (connected' # {} => everConnected')
<1> DEFINE Goal == SlowInv' /\ (everConnected => everConnected')
                   /\ (connected' # {} => everConnected')
<1>0. connected # {} => everConnected
  BY DEF TryerInv
<1> USE DEF SlowInv
<1>1. ASSUME NEW c \in BootstrapCallers, OkddBootstrap(c) \/ InitRequested(c) PROVE Goal
  <2>1. /\ UNCHANGED <<connected, everConnected, refusals, drops, createFails, ctxDone, status,
                       answer, seeder, reached, afterRound, timer, lastRound, unserved>>
        /\ (loop' = loop \/ loop' = "init")
        /\ caller' \in {[caller EXCEPT ![c] = "sending"], [caller EXCEPT ![c] = "waiting"]}
    BY <1>1 DEF OkddBootstrap, InitRequested, okddVars
  <2>2. DialTypeOK'
    BY <2>1 DEF DialTypeOK
  <2>3. loop' \in {"select", "init", "answer", "round", "dial", "find", "ended"}
        /\ (loop' = "dial" => loop = "dial")
    BY <2>1 DEF OkddTypeOK
  <2>4. OkddTypeOK'
    BY <2>1, <2>3, Zenon DEF OkddTypeOK
  <2>5. SlowTimerMeansSeeder'
    BY <2>1, Zenon DEF SlowTimerMeansSeeder
  <2> QED
    BY <1>0, <2>1, <2>2, <2>4, <2>5
<1>2. CASE OkddInitialize
  <2>1. createFails' \in 0 .. MaxCreateFails
    <3>1. CASE UNCHANGED createFails
      BY <3>1 DEF DialTypeOK
    <3>2. CASE \E ok \in BOOLEAN : CreateKadDht(ok)
      BY <3>2, CreateStep
    <3> QED
      BY <1>2, <3>1, <3>2 DEF OkddInitialize
  <2>2. status' \in {"not initialized", "initialized"} /\ answer' \in {"nil", "already", "createErr"}
    BY <1>2 DEF OkddInitialize, OkddTypeOK
  <2> QED
    BY <1>0, <1>2, <2>1, <2>2 DEF OkddInitialize, DialTypeOK, OkddTypeOK, SlowTimerMeansSeeder
<1>3. ASSUME NEW c \in BootstrapCallers, InitAnswered(c) PROVE Goal
  <2>1. UNCHANGED <<connected, everConnected, refusals, drops, createFails, ctxDone, status,
                    answer, lastRound>>
    BY <1>3 DEF InitAnswered
  <2>2. DialTypeOK'
    BY <1>3, <2>1 DEF InitAnswered, DialTypeOK, OkddTypeOK
  <2>3. \/ /\ loop' = "round" /\ seeder' = 1 /\ reached' = FALSE /\ afterRound' = "find"
           /\ unserved' = FALSE /\ timer' = timer
        \/ /\ loop' = "select" /\ timer' = "fast"
           /\ UNCHANGED <<seeder, reached, afterRound, unserved>>
    BY <1>3 DEF InitAnswered, StartRound, CreateChTimeSeedersReconnect
  <2>4. OkddTypeOK'
    BY <2>1, <2>3 DEF OkddTypeOK
  <2>5. SlowTimerMeansSeeder'
    BY <2>1, <2>3 DEF SlowTimerMeansSeeder
  <2> QED
    BY <1>0, <2>1, <2>2, <2>4, <2>5
<1>4. CASE SeedersReconnectTimer \/ OkddReconnectToNetwork \/ FindPeersTimer \/ FindPeers
  <2>1. /\ UNCHANGED <<dialVars, status, answer, timer, lastRound>>
        /\ loop' \in {loop, "round", "find", "select"} /\ seeder' \in {seeder, 1}
        /\ (reached' = reached \/ reached' = FALSE) /\ afterRound' \in {afterRound, "select"}
        /\ (unserved' = unserved \/ unserved' = TRUE \/ unserved' = FALSE)
    BY <1>4 DEF SeedersReconnectTimer, OkddReconnectToNetwork, FindPeersTimer, FindPeers,
                StartRound
  <2>2. DialTypeOK' /\ UNCHANGED <<connected, everConnected, ctxDone>>
    BY <2>1 DEF dialVars, DialTypeOK
  <2>3. OkddTypeOK'
    <3>1. reached' \in BOOLEAN
      BY <2>1 DEF OkddTypeOK
    <3>2. unserved' \in BOOLEAN
      BY <2>1 DEF OkddTypeOK
    <3>3. /\ loop' \in {"select", "init", "answer", "round", "dial", "find", "ended"}
          /\ seeder' \in {1} \cup 1 .. Len(InitialPeersList)
          /\ afterRound' \in {"select", "find"}
      BY <2>1 DEF OkddTypeOK
    <3>4. loop' = "dial" => seeder' \in 1 .. Len(InitialPeersList)
      BY <1>4 DEF SeedersReconnectTimer, OkddReconnectToNetwork, FindPeersTimer, FindPeers,
                  StartRound, OkddTypeOK
    <3> QED
      BY <2>1, <3>1, <3>2, <3>3, <3>4 DEF OkddTypeOK
  <2>4. SlowTimerMeansSeeder'
    BY <2>1, <2>2 DEF SlowTimerMeansSeeder
  <2> QED
    BY <1>0, <2>2, <2>3, <2>4
<1>5. CASE RoundWithoutSeeders
  <2>1. /\ UNCHANGED <<dialVars, status, answer, seeder, reached, afterRound, lastRound, unserved>>
        /\ timer' = (IF status = "initialized" THEN "slow" ELSE "fast") /\ loop' = afterRound
        /\ status # "initialized" \/ InitialPeersList = <<>>
    BY <1>5 DEF RoundWithoutSeeders, EndRound, CreateChTimeSeedersReconnect
  <2>2. DialTypeOK' /\ UNCHANGED <<connected, everConnected, ctxDone>>
    BY <2>1, DialStays DEF dialVars
  <2>3. /\ timer' \in {"slow", "fast"} /\ loop' # "dial"
        /\ loop' \in {"select", "init", "answer", "round", "dial", "find", "ended"}
    BY <2>1 DEF OkddTypeOK
  <2>4. OkddTypeOK'
    BY <2>1, <2>3, Zenon DEF OkddTypeOK
  <2>5. SlowTimerMeansSeeder'
    BY <2>1 DEF SlowTimerMeansSeeder
  <2> QED
    BY <1>0, <2>2, <2>4, <2>5
<1>6. ASSUME NEW ok \in BOOLEAN, SeederDone(ok), DialOutcome(ok),
             seeder \in 1 .. Len(InitialPeersList),
             UNCHANGED <<drops, createFails, ctxDone, caller>>
      PROVE  Goal
  <2>1. DialTypeOK'
    BY <1>6 DEF DialOutcome, DialTypeOK
  <2>2. seeder' \in 1 .. Len(InitialPeersList)
    BY <1>6, ListFacts DEF SeederDone
  <2>3. reached' \in BOOLEAN
    BY <1>6 DEF SeederDone, OkddTypeOK
  <2>4. UNCHANGED <<ctxDone, status, answer, afterRound, unserved>>
    BY <1>6 DEF SeederDone
  <2>5. \/ /\ timer' = IF ctxDone \/ reached' THEN "slow" ELSE "fast"
           /\ loop' = afterRound /\ lastRound' = IF reached' THEN "found" ELSE "missed"
        \/ loop' = "round" /\ UNCHANGED <<timer, lastRound>>
    BY <1>6 DEF SeederDone, EndRound, CreateChTimeSeedersReconnect
  <2>6. OkddTypeOK'
    BY <2>2, <2>3, <2>4, <2>5 DEF OkddTypeOK
  <2>7. SlowTimerMeansSeeder'
    BY <2>4, <2>5 DEF SlowTimerMeansSeeder
  <2> QED
    BY <1>6, <2>1, <2>6, <2>7 DEF DialOutcome
<1>61. ASSUME NEW ok \in BOOLEAN, RoundDials(ok) PROVE Goal
  <2>1. seeder \in 1 .. Len(InitialPeersList) /\ InitialPeersList[seeder] \in Seeders
    BY <1>61, ListFacts DEF RoundDials, OkddTypeOK
  <2>2. DialOutcome(ok)
    BY <1>61, <2>1, DialStep DEF RoundDials
  <2> QED
    BY <1>6, <1>61, <2>1, <2>2 DEF RoundDials
<1>62. CASE RoundSkips
  <2> DEFINE ok == InitialPeersList[seeder] \in connected
  <2>1. seeder \in 1 .. Len(InitialPeersList)
    BY <1>62, ListFacts DEF RoundSkips, InRound, OkddTypeOK
  <2>2. /\ SeederDone(ok) /\ ok \in BOOLEAN
        /\ UNCHANGED <<connected, everConnected, refusals, drops, createFails, ctxDone, caller>>
    BY <1>62 DEF RoundSkips, dialVars
  <2>3. ok => everConnected
    BY <1>0
  <2> HIDE DEF ok
  <2>4. DialOutcome(ok)
    BY <1>0, <2>2, <2>3 DEF DialOutcome, DialTypeOK
  <2> QED
    BY <1>6, <2>1, <2>2, <2>4
<1>63. CASE RoundAllows
  <2>1. /\ UNCHANGED <<dialVars, status, answer, seeder, reached, afterRound, timer, lastRound,
                       unserved>>
        /\ loop' = "dial" /\ InitialPeersList # <<>>
    BY <1>63 DEF RoundAllows, InRound
  <2>2. DialTypeOK' /\ UNCHANGED <<connected, everConnected, ctxDone>>
    BY <2>1, DialStays DEF dialVars
  <2>3. seeder' \in 1 .. Len(InitialPeersList)
    <3>1. seeder \in {1} \cup 1 .. Len(InitialPeersList) /\ Len(InitialPeersList) > 0
      BY <2>1, ListFacts DEF OkddTypeOK
    <3> QED
      BY <2>1, <3>1, ListFacts
  <2>4. OkddTypeOK'
    <3>1. loop' \in {"select", "init", "answer", "round", "dial", "find", "ended"}
      BY <2>1
    <3> QED
      BY <2>1, <2>3, <3>1, Zenon DEF OkddTypeOK
  <2>5. SlowTimerMeansSeeder'
    BY <2>1, <2>2 DEF SlowTimerMeansSeeder
  <2> QED
    BY <1>0, <2>2, <2>4, <2>5
<1>7. CASE OkddLoopEnds
  <2>1. caller' \in [BootstrapCallers -> {"idle", "sending", "waiting", "nil", "already",
                                          "createErr", "ctxErr"}]
    BY <1>7 DEF OkddLoopEnds, DialTypeOK
  <2>2. /\ loop' = "ended"
        /\ UNCHANGED <<connected, everConnected, refusals, drops, createFails, ctxDone, status,
                       answer, seeder, reached, afterRound, timer, lastRound, unserved>>
    BY <1>7 DEF OkddLoopEnds
  <2>3. DialTypeOK'
    BY <2>1, <2>2, Zenon DEF DialTypeOK
  <2>4. loop' # "dial" /\ loop' \in {"select", "init", "answer", "round", "dial", "find", "ended"}
    BY <2>2
  <2>5. OkddTypeOK'
    BY <2>2, <2>4, Zenon DEF OkddTypeOK
  <2>6. SlowTimerMeansSeeder'
    BY <2>2, Zenon DEF SlowTimerMeansSeeder
  <2> QED
    BY <1>0, <2>2, <2>3, <2>5, <2>6
<1> QED
  BY <1>1, <1>2, <1>3, <1>4, <1>5, <1>61, <1>62, <1>63, <1>7 DEF OkddNext, OkddLoopStep
-----------------------------------------------------------------------------
(* The legacy discoverer.                                                  *)
LookupInv == DialTypeOK /\ CkddTypeOK /\ LookupOnlyAfterSeeder /\ TryerInv
LEMMA LegacyTypes ==
    ASSUME LookupInv, CkddNext
    PROVE  LookupInv'
<1> USE DEF LookupInv
<1> DEFINE Found == everConnected \/ InitialPeersList = <<>>
           Indexes == {1} \cup 1 .. Len(InitialPeersList)
<1>0. /\ "bootstrap" \in Requesters /\ "monitor" \in Requesters
      /\ tryer["bootstrap"] = "done" => Found
  BY DEF Requesters, TryerInv
(* The goroutines that dial: a new one, or one that was received from.     *)
<1>1. ASSUME UNCHANGED dialVars, NEW r \in Requesters,
             \/ ConnectToOnePeer(r)
             \/ tryer' \in {tryer, [tryer EXCEPT ![r] = "none"]} /\ startIndex' = startIndex
      PROVE  /\ DialTypeOK' /\ TryerInv'
             /\ tryer' \in [Requesters -> {"none", "dial", "pause", "done"}]
             /\ startIndex' \in [Requesters -> Indexes]
             /\ everConnected' = everConnected
  <2>1. DialTypeOK' /\ connected' = connected /\ everConnected' = everConnected
    BY <1>1 DEF dialVars, DialTypeOK
  <2>2. /\ tryer' \in [Requesters -> {"none", "dial", "pause", "done"}]
        /\ startIndex' \in [Requesters -> Indexes]
    BY <1>1 DEF ConnectToOnePeer, CkddTypeOK
  <2>3. \A q \in Requesters : \/ tryer'[q] = tryer[q] \/ tryer'[q] = "none"
                              \/ tryer'[q] = "dial" /\ InitialPeersList # <<>>
                              \/ tryer'[q] = "done" /\ InitialPeersList = <<>>
    BY <1>1 DEF ConnectToOnePeer, CkddTypeOK
  <2> QED
    BY <2>1, <2>2, <2>3 DEF TryerInv
<1>2. ASSUME NEW c \in BootstrapCallers, CkddBootstrap(c) PROVE LookupInv'
  <2>1. /\ UNCHANGED <<connected, everConnected, refusals, drops, ctxDone, monitor, tryer,
                       startIndex, lookupFails>>
        /\ kadDHT' \in {kadDHT, "nil", "running"} /\ boot' \in {boot, "start"}
        /\ caller' \in {[caller EXCEPT ![c] = "already"], [caller EXCEPT ![c] = "nil"],
                        [caller EXCEPT ![c] = "createErr"]}
    BY <1>2 DEF CkddBootstrap
  <2>2. createFails' \in 0 .. MaxCreateFails
    <3>1. CASE UNCHANGED createFails
      BY <3>1 DEF DialTypeOK
    <3>2. CASE \E ok \in BOOLEAN : CreateKadDht(ok)
      BY <3>2, CreateStep
    <3> QED
      BY <1>2, <3>1, <3>2 DEF CkddBootstrap
  <2>3. DialTypeOK'
    BY <2>1, <2>2 DEF DialTypeOK
  <2>4. CkddTypeOK' /\ LookupOnlyAfterSeeder'
    BY <2>1 DEF CkddTypeOK, LookupOnlyAfterSeeder
  <2>5. TryerInv'
    BY <2>1 DEF TryerInv
  <2> QED
    BY <2>3, <2>4, <2>5
<1>3. CASE ConnectToInitialAndBootstrap
  <2>1. /\ UNCHANGED <<kadDHT, monitor, lookupFails>> /\ UNCHANGED dialVars
        /\ boot' = "await" /\ ConnectToOnePeer("bootstrap")
    BY <1>3 DEF ConnectToInitialAndBootstrap
  <2> QED
    BY <1>0, <1>1, <2>1 DEF CkddTypeOK, LookupOnlyAfterSeeder
<1>4. CASE BootAwait
  <2>1. /\ UNCHANGED <<kadDHT, monitor, startIndex, lookupFails>> /\ UNCHANGED dialVars
        /\ tryer' \in {tryer, [tryer EXCEPT !["bootstrap"] = "none"]}
        /\ \/ boot' = "lookup" /\ tryer["bootstrap"] = "done"
           \/ boot' = "ended"
    BY <1>4 DEF BootAwait
  <2> QED
    BY <1>0, <1>1, <2>1 DEF CkddTypeOK, LookupOnlyAfterSeeder
<1>5. CASE BootLookup
  <2>1. /\ UNCHANGED <<kadDHT, monitor>> /\ UNCHANGED dialVars
        /\ boot = "lookup" /\ boot' \in {"sleep", "reconnect"}
        /\ ConnectToOnePeer("bootstrap") \/ (tryer' = tryer /\ startIndex' = startIndex)
    BY <1>5 DEF BootLookup
  <2>2. lookupFails' \in 0 .. MaxLookupFails
    BY <1>5, LookupAssumption DEF BootLookup, CkddTypeOK
  <2> QED
    BY <1>0, <1>1, <2>1, <2>2 DEF CkddTypeOK, LookupOnlyAfterSeeder
<1>6. CASE BootReconnect \/ BootSleep
  <2>1. /\ UNCHANGED <<kadDHT, monitor, startIndex, lookupFails>> /\ UNCHANGED dialVars
        /\ tryer' \in {tryer, [tryer EXCEPT !["bootstrap"] = "none"]}
        /\ boot \in {"reconnect", "sleep"} /\ boot' \in {"sleep", "ended", "lookup"}
    BY <1>6 DEF BootReconnect, BootSleep
  <2> QED
    BY <1>0, <1>1, <2>1 DEF CkddTypeOK, LookupOnlyAfterSeeder
<1>7. CASE CkddReconnectToNetwork \/ ReconnectReturns
  <2>1. /\ UNCHANGED <<kadDHT, boot, lookupFails>> /\ UNCHANGED dialVars
        /\ monitor' \in {"waiting", "idle"}
        /\ \/ ConnectToOnePeer("monitor")
           \/ /\ tryer' \in {tryer, [tryer EXCEPT !["monitor"] = "none"]}
              /\ startIndex' = startIndex
    BY <1>7 DEF CkddReconnectToNetwork, ReconnectReturns
  <2> QED
    BY <1>0, <1>1, <2>1 DEF CkddTypeOK, LookupOnlyAfterSeeder
<1>8. ASSUME NEW r \in Requesters, TryerPause(r) PROVE LookupInv'
  <2>1. /\ UNCHANGED <<kadDHT, boot, monitor, lookupFails>> /\ UNCHANGED dialVars
        /\ tryer[r] = "pause"
        /\ startIndex' \in {startIndex, [startIndex EXCEPT ![r] = 1]}
        /\ tryer' \in {[tryer EXCEPT ![r] = "none"], [tryer EXCEPT ![r] = "dial"]}
    BY <1>8 DEF TryerPause, CkddTypeOK
  <2>2. connected' = connected /\ everConnected' = everConnected /\ DialTypeOK'
    BY <2>1 DEF dialVars, DialTypeOK
  <2>3. CkddTypeOK' /\ LookupOnlyAfterSeeder'
    BY <2>1, <2>2 DEF CkddTypeOK, LookupOnlyAfterSeeder
  <2>4. TryerInv'
    BY <2>1, <2>2 DEF TryerInv, CkddTypeOK
  <2> QED
    BY <2>2, <2>3, <2>4
<1>9. ASSUME NEW r \in Requesters, NEW ok \in BOOLEAN, TryConnectToSeeder(r, ok) PROVE LookupInv'
  <2> DEFINE n == Len(InitialPeersList)
  <2>1. /\ UNCHANGED <<drops, createFails, ctxDone, caller, kadDHT, boot, monitor, lookupFails>>
        /\ tryer[r] = "dial" /\ Dial(InitialPeersList[startIndex[r]], ok)
        /\ \/ /\ ok /\ tryer' = [tryer EXCEPT ![r] = "done"]
              /\ startIndex' = [startIndex EXCEPT ![r] = 1]
           \/ /\ ~ok /\ tryer' = [tryer EXCEPT ![r] = "pause"]
              /\ startIndex' = [startIndex EXCEPT ![r] = (startIndex[r] % n) + 1]
    BY <1>9 DEF TryConnectToSeeder
  <2>2. InitialPeersList # <<>> /\ n \in Nat /\ n > 0
    BY <2>1, ListFacts DEF TryerInv
  <2>3. startIndex[r] \in 1 .. n /\ (startIndex[r] % n) + 1 \in 1 .. n
    BY <2>2 DEF CkddTypeOK
  <2>4. DialOutcome(ok)
    BY <2>1, <2>3, ListFacts, DialStep
  <2>5. DialTypeOK'
    BY <2>1, <2>4 DEF DialOutcome, DialTypeOK
  <2>6. CkddTypeOK'
    BY <2>1, <2>3 DEF CkddTypeOK
  <2>7. LookupOnlyAfterSeeder'
    BY <2>1, <2>4 DEF DialOutcome, LookupOnlyAfterSeeder
  <2>8. TryerInv'
    <3>1. \A q \in Requesters : tryer'[q] = tryer[q] \/ (tryer'[q] = "done" /\ ok)
                                \/ tryer'[q] = "pause"
      BY <2>1 DEF CkddTypeOK
    <3>2. ok => everConnected'
      BY <2>4 DEF DialOutcome
    <3>3. (everConnected => everConnected') /\ (connected' # {} => everConnected')
      BY <2>4 DEF DialOutcome
    <3> QED
      BY <2>2, <3>1, <3>2, <3>3 DEF TryerInv
  <2> QED
    BY <2>5, <2>6, <2>7, <2>8
<1> QED
  BY <1>2, <1>3, <1>4, <1>5, <1>6, <1>7, <1>8, <1>9 DEF CkddNext, CkddBootStep, TryerStep
-----------------------------------------------------------------------------
(* What the callers of Bootstrap are told.  A step that answers nobody ... *)
BootInv == OneBootstrapSucceeds /\ CallersInv
LEMMA NobodyAnswered ==
    ASSUME BootInv, type' = type, UNCHANGED <<kadDHT, status>>,
           \A c \in BootstrapCallers : /\ (caller'[c] = "nil") <=> (caller[c] = "nil")
                                       /\ (caller'[c] = "already") <=> (caller[c] = "already"),
           \A result \in {"nil", "already"} : Holds(result)' <=> Holds(result)
    PROVE  BootInv'
<1>1. Succeeded' <=> Succeeded
  BY DEF Succeeded
<1>2. (Holds("nil")' <=> Holds("nil")) /\ (Holds("already")' <=> Holds("already"))
  OBVIOUS
<1>3. OneBootstrapSucceeds'
  BY DEF BootInv, OneBootstrapSucceeds
<1>4. CallersInv'
  BY <1>1, <1>2 DEF BootInv, CallersInv
<1> QED
  BY <1>3, <1>4 DEF BootInv

(* ... and the others, of the optimized discoverer ...                     *)
LEMMA OptimizedAnswers ==
    ASSUME DialTypeOK, OkddTypeOK, BootInv, type = "optimized", OkddNext, UNCHANGED <<type, kadDHT>>
    PROVE  BootInv'
<1>1. ASSUME NEW c \in BootstrapCallers, OkddBootstrap(c) \/ InitRequested(c) PROVE BootInv'
  <2>1. /\ UNCHANGED <<status, answer>> /\ (loop' = loop \/ (loop = "select" /\ loop' = "init"))
        /\ caller[c] \in {"idle", "sending"}
        /\ caller' \in {[caller EXCEPT ![c] = "sending"], [caller EXCEPT ![c] = "waiting"]}
    BY <1>1 DEF OkddBootstrap, InitRequested, okddVars
  <2>2. \A d \in BootstrapCallers :
          \/ d # c /\ caller'[d] = caller[d]
          \/ d = c /\ caller'[d] \in {"sending", "waiting"}
    BY <2>1 DEF DialTypeOK
  <2> QED
    BY <2>1, <2>2, NobodyAnswered DEF Holds
<1>2. CASE OkddInitialize
  <2>1. UNCHANGED caller /\ loop = "init" /\ loop' = "answer" /\ (Succeeded' <=> Succeeded)
    BY <1>2 DEF OkddInitialize, Succeeded
  <2>2. OneBootstrapSucceeds'
    BY <2>1 DEF BootInv, OneBootstrapSucceeds
  <2>3. \/ status # "not initialized" /\ answer' = "already" /\ status' = status
        \/ status = "not initialized" /\ answer' = "nil" /\ status' = "initialized"
        \/ status = "not initialized" /\ answer' = "createErr" /\ status' = status
    BY <1>2 DEF OkddInitialize
  <2>4. CallersInv'
    BY <2>1, <2>3 DEF BootInv, CallersInv, Holds, OkddTypeOK
  <2> QED
    BY <2>2, <2>4 DEF BootInv
<1>3. ASSUME NEW c \in BootstrapCallers, InitAnswered(c) PROVE BootInv'
  <2>1. /\ loop = "answer" /\ caller[c] = "waiting" /\ UNCHANGED <<status, answer>>
        /\ caller' = [caller EXCEPT ![c] = answer] /\ loop' \in {"round", "select"}
    BY <1>3 DEF InitAnswered, StartRound
  <2>2. /\ caller'[c] = answer
        /\ \A d \in BootstrapCallers : d # c => caller'[d] = caller[d]
    BY <2>1 DEF DialTypeOK
  <2>3. CASE answer = "nil"
    <3>1. ~Succeeded /\ Succeeded' /\ status = "initialized"
      BY <2>1, <2>2, <2>3 DEF BootInv, CallersInv, Holds, Succeeded, OkddTypeOK
    <3>2. \A d \in BootstrapCallers : caller'[d] = "nil" => d = c
      BY <2>2, <3>1 DEF Succeeded
    <3>3. OneBootstrapSucceeds'
      BY <2>2, <2>3, <3>2 DEF OneBootstrapSucceeds
    <3>4. CallersInv'
      BY <2>1, <3>1 DEF BootInv, CallersInv, Holds
    <3> QED
      BY <3>3, <3>4 DEF BootInv
  <2>4. CASE answer # "nil"
    <3>1. Succeeded' <=> Succeeded
      BY <2>1, <2>2, <2>4 DEF Succeeded
    <3>2. answer = "already" => Succeeded
      BY <2>1 DEF BootInv, CallersInv, Holds
    <3>3. OneBootstrapSucceeds'
      <4>1. \A d, e \in BootstrapCallers : caller'[d] = "nil" /\ caller'[e] = "nil" => d = e
        BY <2>2, <2>4 DEF BootInv, OneBootstrapSucceeds
      <4>2. (\E d \in BootstrapCallers : caller'[d] = "already") => Succeeded
        BY <2>2, <3>2 DEF BootInv, OneBootstrapSucceeds, Succeeded
      <4> QED
        BY <3>1, <4>1, <4>2 DEF OneBootstrapSucceeds, Succeeded
    <3>4. CallersInv'
      BY <2>1, <2>4, <3>1 DEF BootInv, CallersInv, Holds
    <3> QED
      BY <3>3, <3>4 DEF BootInv
  <2> QED
    BY <2>3, <2>4
<1>4. CASE SeedersReconnectTimer \/ OkddReconnectToNetwork \/ FindPeersTimer \/ FindPeers
  <2>1. /\ UNCHANGED <<caller, status, answer>>
        /\ loop' = loop \/ (loop # "answer" /\ loop' # "answer")
    BY <1>4 DEF SeedersReconnectTimer, OkddReconnectToNetwork, FindPeersTimer, FindPeers,
                StartRound, dialVars
  <2> QED
    BY <2>1, NobodyAnswered DEF Holds
<1>5. CASE RoundWithoutSeeders \/ RoundSkips \/ RoundAllows \/ \E ok \in BOOLEAN : RoundDials(ok)
  <2>1. /\ UNCHANGED <<caller, status, answer>> /\ loop \in {"round", "dial"}
        /\ loop' \in {"round", "dial", afterRound}
    BY <1>5 DEF RoundWithoutSeeders, RoundSkips, RoundAllows, RoundDials, InRound, SeederDone,
                EndRound, dialVars
  <2>2. loop' # "answer"
    BY <2>1 DEF OkddTypeOK
  <2> QED
    BY <2>1, <2>2, NobodyAnswered DEF Holds
<1>6. CASE OkddLoopEnds
  <2>1. UNCHANGED <<status, answer>> /\ loop = "select" /\ loop' = "ended"
    BY <1>6 DEF OkddLoopEnds
  <2>2. \A d \in BootstrapCallers :
          caller'[d] = caller[d] \/ (caller[d] = "waiting" /\ caller'[d] = "ctxErr")
    BY <1>6 DEF OkddLoopEnds, DialTypeOK
  <2> QED
    BY <2>1, <2>2, NobodyAnswered DEF Holds
<1> QED
  BY <1>1, <1>2, <1>3, <1>4, <1>5, <1>6 DEF OkddNext, OkddLoopStep

(* ... and of the legacy one.                                              *)
LEMMA LegacyAnswers ==
    ASSUME DialTypeOK, CkddTypeOK, BootInv, type = "legacy", CkddNext,
           UNCHANGED <<type, status, loop, answer>>
    PROVE  BootInv'
<1>1. ASSUME NEW c \in BootstrapCallers, CkddBootstrap(c) PROVE BootInv'
  <2>1. /\ caller[c] = "idle"
        /\ \/ kadDHT # "nil" /\ kadDHT' = kadDHT /\ caller' = [caller EXCEPT ![c] = "already"]
           \/ kadDHT = "nil" /\ kadDHT' = "running" /\ caller' = [caller EXCEPT ![c] = "nil"]
           \/ kadDHT = "nil" /\ kadDHT' = "nil" /\ caller' = [caller EXCEPT ![c] = "createErr"]
    BY <1>1 DEF CkddBootstrap
  <2>2. /\ caller' = [caller EXCEPT ![c] = caller'[c]]
        /\ \A d \in BootstrapCallers : d # c => caller'[d] = caller[d]
    BY <2>1 DEF DialTypeOK
  <2>3. kadDHT # "nil" <=> Succeeded
    BY DEF BootInv, CallersInv
  <2>4. CASE caller'[c] = "already" /\ kadDHT # "nil" /\ kadDHT' = kadDHT
    <3>1. Succeeded /\ Succeeded'
      BY <2>1, <2>2, <2>3, <2>4 DEF Succeeded
    <3>2. OneBootstrapSucceeds'
      BY <2>2, <2>4, <3>1 DEF BootInv, OneBootstrapSucceeds, Succeeded
    <3> QED
      BY <2>4, <3>1, <3>2 DEF BootInv, CallersInv
  <2>5. CASE caller'[c] = "nil" /\ kadDHT = "nil" /\ kadDHT' = "running"
    <3>1. ~Succeeded /\ Succeeded'
      BY <2>3, <2>5 DEF Succeeded
    <3>2. \A d \in BootstrapCallers : caller'[d] = "nil" => d = c
      BY <2>2, <3>1 DEF Succeeded
    <3>3. OneBootstrapSucceeds'
      BY <2>5, <3>2 DEF OneBootstrapSucceeds
    <3> QED
      BY <2>5, <3>1, <3>3 DEF BootInv, CallersInv
  <2>6. CASE caller'[c] = "createErr" /\ kadDHT' = kadDHT
    BY <2>1, <2>2, <2>6, NobodyAnswered DEF Holds
  <2> QED
    BY <2>1, <2>4, <2>5, <2>6 DEF DialTypeOK
<1>2. CASE CkddBootStep \/ CkddReconnectToNetwork \/ ReconnectReturns
           \/ \E r \in Requesters : TryerStep(r)
  <2>1. UNCHANGED <<caller, kadDHT>>
    BY <1>2 DEF CkddBootStep, ConnectToInitialAndBootstrap, BootAwait, BootLookup, BootReconnect,
                BootSleep, CkddReconnectToNetwork, ReconnectReturns, TryerStep, TryerPause,
                TryConnectToSeeder, dialVars
  <2> QED
    BY <2>1, NobodyAnswered DEF Holds
<1> QED
  BY <1>1, <1>2 DEF CkddNext
-----------------------------------------------------------------------------
LEMMA DiscoveryInitInv == NewPeerDiscoverers => DiscoveryIInv
<1> SUFFICES ASSUME NewPeerDiscoverers PROVE DiscoveryIInv
  OBVIOUS
<1> USE DEF NewPeerDiscoverers, DialInit, OkddInit, CkddInit
<1>1. DialTypeOK
  <2>1. /\ refusals \in 0 .. MaxRefusals /\ drops \in 0 .. MaxDrops
        /\ createFails \in 0 .. MaxCreateFails
    <3>1. refusals = 0 /\ drops = 0 /\ createFails = 0
      OBVIOUS
    <3> QED
      BY ONLY <3>1, BoundsAssumption
  <2>2. connected \in SUBSET Seeders /\ everConnected \in BOOLEAN /\ ctxDone \in BOOLEAN
    OBVIOUS
  <2>3. caller \in [BootstrapCallers -> {"idle", "sending", "waiting", "nil", "already",
                                         "createErr", "ctxErr"}]
    OBVIOUS
  <2> QED
    BY <2>1, <2>2, <2>3 DEF DialTypeOK
<1>2. OkddTypeOK /\ SlowTimerMeansSeeder
  BY DEF OkddTypeOK, SlowTimerMeansSeeder
<1>3. CkddTypeOK /\ LookupOnlyAfterSeeder /\ TryerInv
  <2>1. lookupFails \in 0 .. MaxLookupFails
    <3>1. lookupFails = 0
      OBVIOUS
    <3> QED
      BY ONLY <3>1, LookupAssumption
  <2>2. /\ tryer \in [Requesters -> {"none", "dial", "pause", "done"}]
        /\ startIndex \in [Requesters -> {1} \cup 1 .. Len(InitialPeersList)]
    OBVIOUS
  <2>3. CkddTypeOK
    BY <2>1, <2>2 DEF CkddTypeOK
  <2>4. LookupOnlyAfterSeeder /\ TryerInv
    BY DEF LookupOnlyAfterSeeder, TryerInv
  <2> QED
    BY <2>3, <2>4
<1>4. ~Succeeded /\ OneBootstrapSucceeds
  BY DEF Succeeded, OneBootstrapSucceeds
<1>5. CallersInv
  BY <1>4 DEF CallersInv, Holds
<1>6. type \in Types
  OBVIOUS
<1> QED
  BY <1>1, <1>2, <1>3, <1>4, <1>5, <1>6 DEF DiscoveryIInv, DiscoveryInv, DiscoveryTypeOK

LEMMA DiscoveryStep == DiscoveryIInv /\ [DiscoveryNext]_discoveryVars => DiscoveryIInv'
<1> SUFFICES ASSUME DiscoveryIInv, [DiscoveryNext]_discoveryVars PROVE DiscoveryIInv'
  OBVIOUS
<1>0. /\ type \in Types /\ SlowInv /\ LookupInv /\ BootInv
      /\ DialTypeOK /\ OkddTypeOK /\ CkddTypeOK /\ TryerInv
  BY DEF DiscoveryIInv, DiscoveryInv, DiscoveryTypeOK, SlowInv, LookupInv, BootInv
<1>1. ASSUME type' = type, SlowInv', LookupInv', BootInv' PROVE DiscoveryIInv'
  BY <1>0, <1>1 DEF DiscoveryIInv, DiscoveryInv, DiscoveryTypeOK, SlowInv, LookupInv, BootInv
<1>2. CASE UNCHANGED discoveryVars
  <2> USE <1>2 DEF discoveryVars, dialVars, okddVars, ckddVars
  <2>0. DialTypeOK'
    BY <1>0 DEF DialTypeOK
  <2>1. SlowInv'
    <3>1. OkddTypeOK'
      BY <1>0, OkddStays
    <3>2. SlowTimerMeansSeeder'
      BY <1>0 DEF SlowInv, SlowTimerMeansSeeder
    <3> QED
      BY <2>0, <3>1, <3>2 DEF SlowInv
  <2>2. LookupInv'
    <3>1. CkddTypeOK'
      BY <1>0 DEF CkddTypeOK
    <3>2. LookupOnlyAfterSeeder' /\ TryerInv'
      BY <1>0 DEF LookupInv, LookupOnlyAfterSeeder, TryerInv
    <3> QED
      BY <2>0, <3>1, <3>2 DEF LookupInv
  <2>3. BootInv'
    BY <1>0, NobodyAnswered DEF Holds
  <2> QED
    BY <1>1, <2>1, <2>2, <2>3
<1>3. CASE Environment
  <2>1. /\ UNCHANGED <<type, okddVars, ckddVars, createFails, caller>>
        /\ (ctxDone' = ctxDone \/ ctxDone' = TRUE)
    BY <1>3 DEF Environment, ConnectionLost, SeederConnects, CancelContext
  <2>2. drops' \in 0 .. MaxDrops
    <3>1. drops' = drops \/ (drops < MaxDrops /\ drops' = drops + 1)
      BY <1>3 DEF Environment, ConnectionLost, SeederConnects, CancelContext
    <3> QED
      BY <1>0, <3>1, BoundsAssumption DEF DialTypeOK
  <2>3. ctxDone' \in BOOLEAN /\ (ctxDone => ctxDone')
    <3>1. ctxDone \in BOOLEAN
      BY <1>0 DEF DialTypeOK
    <3>2. CASE ctxDone' = ctxDone
      BY <3>1, <3>2
    <3>3. CASE ctxDone' = TRUE
      BY <3>3
    <3> QED
      BY <2>1, <3>2, <3>3
  <2>4. DialOutcome(FALSE)
    <3>1. CASE connected' \subseteq connected /\ UNCHANGED <<everConnected, refusals>>
      BY <1>0, <3>1 DEF DialOutcome, DialTypeOK, TryerInv
    <3>2. ASSUME NEW s \in Seeders, Opened(s) PROVE DialOutcome(FALSE)
      BY <1>0, <3>2, DialStep DEF DialOutcome
    <3> QED
      BY <1>3, <3>1, <3>2 DEF Environment, ConnectionLost, SeederConnects, CancelContext
  <2>5. DialTypeOK'
    BY <1>0, <2>1, <2>2, <2>3, <2>4 DEF DialTypeOK, DialOutcome
  <2>6. SlowInv'
    <3>1. OkddTypeOK'
      BY <1>0, <2>1, OkddStays
    <3>2. SlowTimerMeansSeeder'
      BY <1>0, <2>1, <2>3 DEF SlowInv, okddVars, SlowTimerMeansSeeder
    <3> QED
      BY <2>5, <3>1, <3>2 DEF SlowInv
  <2>7. LookupInv'
    BY <1>0, <2>1, <2>4, <2>5
    DEF LookupInv, ckddVars, CkddTypeOK, LookupOnlyAfterSeeder, TryerInv, DialOutcome
  <2>8. BootInv'
    BY <1>0, <2>1, NobodyAnswered DEF Holds, okddVars, ckddVars
  <2> QED
    BY <1>1, <2>1, <2>6, <2>7, <2>8
<1>4. CASE Optimized(OkddNext)
  <2>1. type = "optimized" /\ OkddNext /\ type' = type /\ UNCHANGED ckddVars
    BY <1>4 DEF Optimized
  <2>2. SlowInv' /\ (everConnected => everConnected') /\ (connected' # {} => everConnected')
    BY <1>0, <2>1, OptimizedTypes
  <2>3. LookupInv'
    BY <1>0, <2>1, <2>2 DEF LookupInv, SlowInv, ckddVars, CkddTypeOK, LookupOnlyAfterSeeder, TryerInv
  <2>4. BootInv'
    BY <1>0, <2>1, OptimizedAnswers DEF ckddVars
  <2> QED
    BY <1>1, <2>1, <2>2, <2>3, <2>4
<1>5. CASE Legacy(CkddNext)
  <2>1. type = "legacy" /\ CkddNext /\ type' = type /\ UNCHANGED okddVars
    BY <1>5 DEF Legacy
  <2>2. LookupInv'
    BY <1>0, <2>1, LegacyTypes
  <2>3. UNCHANGED ctxDone
    BY <2>1 DEF CkddNext, CkddBootstrap, CkddBootStep, ConnectToInitialAndBootstrap, BootAwait,
                BootLookup, BootReconnect, BootSleep, CkddReconnectToNetwork, ReconnectReturns,
                TryerStep, TryerPause, TryConnectToSeeder, dialVars
  <2>4. SlowInv'
    <3>1. OkddTypeOK'
      BY <1>0, <2>1, OkddStays
    <3>2. SlowTimerMeansSeeder'
      BY <1>0, <2>1, <2>3 DEF SlowInv, okddVars, SlowTimerMeansSeeder
    <3> QED
      BY <2>2, <3>1, <3>2 DEF SlowInv, LookupInv
  <2>5. BootInv'
    BY <1>0, <2>1, LegacyAnswers DEF okddVars
  <2> QED
    BY <1>1, <2>1, <2>2, <2>4, <2>5
<1> QED
  BY <1>2, <1>3, <1>4, <1>5 DEF DiscoveryNext

LEMMA DiscoveryInvariance == DiscoverySpec => []DiscoveryIInv
BY DiscoveryInitInv, DiscoveryStep, PTL DEF DiscoverySpec

(***************************************************************************)
(* In either discoverer the seeders come first: the long interval of the   *)
(* optimized one and the lookups of the legacy one presuppose a seeder     *)
(* that answered, and the index into the list of seeders stays inside it   *)
(* (createChTimeSeedersReconnect, tryToReconnectAtLeastToASeeder,          *)
(* connectToInitialAndBootstrap, tryConnectToSeeder).                      *)
(***************************************************************************)
THEOREM DiscoveryCorrect == DiscoverySpec => []DiscoveryInv
<1>1. DiscoveryIInv => DiscoveryInv
  BY DEF DiscoveryIInv
<1> QED
  BY DiscoveryInvariance, <1>1, PTL

(* However many call Bootstrap, one call succeeds at most, and "already    *)
(* started" is the answer only after one did (optimizedKadDhtDiscoverer.go *)
(* init and processInit, continuousKadDhtDiscoverer.go Bootstrap).         *)
THEOREM BootstrapOnce == DiscoverySpec => []OneBootstrapSucceeds
<1>1. DiscoveryIInv => OneBootstrapSucceeds
  BY DEF DiscoveryIInv
<1> QED
  BY DiscoveryInvariance, <1>1, PTL

-----------------------------------------------------------------------------
(* The preferred peers holder.                                             *)
(* A cut at a place of the list leaves a list.                             *)
LEMMA CutList ==
    ASSUME NEW S, NEW s \in Seq(S), NEW i \in Nat, i < Len(s)
    PROVE  Seqs!RemoveAt(s, i + 1) \in Seq(S) /\ Len(Seqs!RemoveAt(s, i + 1)) = Len(s) - 1
<1>1. /\ SubSeq(s, 1, i) \in Seq(S) /\ Len(SubSeq(s, 1, i)) = i
      /\ SubSeq(s, i + 2, Len(s)) \in Seq(S) /\ Len(SubSeq(s, i + 2, Len(s))) = Len(s) - i - 1
  OBVIOUS
<1>2. Seqs!RemoveAt(s, i + 1) = SubSeq(s, 1, i) \o SubSeq(s, i + 2, Len(s))
  <2>1. (i + 1) - 1 = i /\ (i + 1) + 1 = i + 2
    OBVIOUS
  <2> QED
    BY <2>1 DEF Seqs!RemoveAt
<1> DEFINE u == SubSeq(s, 1, i)
           v == SubSeq(s, i + 2, Len(s))
<1> HIDE DEF u, v
<1>3. u \in Seq(S) /\ v \in Seq(S) /\ Len(u) = i /\ Len(v) = Len(s) - i - 1
  BY <1>1 DEF u, v
<1>4. u \o v \in Seq(S) /\ Len(u \o v) = Len(u) + Len(v)
  BY ONLY <1>3, ConcatProperties
<1>5. Seqs!RemoveAt(s, i + 1) = u \o v
  BY <1>2 DEF u, v
<1>6. Len(s) \in Nat /\ i + (Len(s) - i - 1) = Len(s) - 1
  OBVIOUS
<1> QED
  BY ONLY <1>3, <1>4, <1>5, <1>6

(* How many peers are held in a shard.                                     *)
LEMMA HeldCount ==
    /\ \A s : IsFiniteSet(HeldIn(s)) /\ Cardinality(HeldIn(s)) \in Nat
    /\ \A s : HeldIn(s) = {} => Cardinality(HeldIn(s)) = 0
<1>1. \A s : HeldIn(s) \subseteq Peers
  BY DEF HeldIn
<1> QED
  BY <1>1, PeersAssumption, FS_Subset, FS_CardinalityType, FS_EmptySet
LEMMA CountStep ==
    ASSUME NEW s, NEW p \in Peers
    PROVE  /\ HeldIn(s)' \subseteq HeldIn(s) => Cardinality(HeldIn(s)') <= Cardinality(HeldIn(s))
           /\ HeldIn(s)' \subseteq HeldIn(s) \cup {p} =>
                Cardinality(HeldIn(s)') <= Cardinality(HeldIn(s)) + 1
           /\ p \in HeldIn(s) /\ HeldIn(s)' \subseteq HeldIn(s) \ {p} =>
                Cardinality(HeldIn(s)') <= Cardinality(HeldIn(s)) - 1
           /\ Cardinality(HeldIn(s)') \in Nat /\ Cardinality(HeldIn(s)) \in Nat
<1> DEFINE A == HeldIn(s)
           B == HeldIn(s)'
<1>1. A \subseteq Peers /\ B \subseteq Peers
  BY DEF HeldIn
<1> HIDE DEF A, B
<1>2. /\ IsFiniteSet(A) /\ Cardinality(A) \in Nat
      /\ IsFiniteSet(B) /\ Cardinality(B) \in Nat
  BY <1>1, PeersAssumption, FS_Subset, FS_CardinalityType
<1>3. B \subseteq A => Cardinality(B) <= Cardinality(A)
  BY <1>2, FS_Subset
<1>4. ASSUME B \subseteq A \cup {p} PROVE Cardinality(B) <= Cardinality(A) + 1
  <2>1. /\ IsFiniteSet(A \cup {p}) /\ Cardinality(A \cup {p}) \in Nat
        /\ Cardinality(A \cup {p}) <= Cardinality(A) + 1
    <3>1. /\ IsFiniteSet(A \cup {p})
          /\ Cardinality(A \cup {p}) = IF p \in A THEN Cardinality(A) ELSE Cardinality(A) + 1
      BY <1>2, FS_AddElement
    <3> QED
      BY <1>2, <3>1
  <2>2. Cardinality(B) <= Cardinality(A \cup {p})
    BY <1>4, <2>1, FS_Subset
  <2> QED
    BY <1>2, <2>1, <2>2
<1>5. ASSUME p \in A, B \subseteq A \ {p} PROVE Cardinality(B) <= Cardinality(A) - 1
  <2>1. IsFiniteSet(A \ {p}) /\ Cardinality(A \ {p}) = Cardinality(A) - 1
    BY <1>2, <1>5, FS_RemoveElement
  <2> QED
    BY <1>5, <2>1, FS_Subset
<1> QED
  BY <1>2, <1>3, <1>4, <1>5 DEF A, B

(* Without entries nothing can disagree.                                   *)
Emptied ==
    /\ peersInfo = [a \in Addresses |-> {}] /\ waiting = {}
    /\ perShard = [s \in Shards |-> <<>>] /\ held = [p \in Peers |-> {}]
    /\ panicked \in BOOLEAN /\ removed \in BOOLEAN
LEMMA EmptyHolder == Emptied => HolderInv
<1> SUFFICES ASSUME Emptied PROVE HolderInv
  OBVIOUS
<1>1. \A p \in Peers : held[p] = {}
  BY DEF Emptied
<1>2. <<>> \in Seq(Peers)
  OBVIOUS
<1>3. perShard \in [Shards -> Seq(Peers)]
  BY <1>2 DEF Emptied
<1>4. peersInfo \in [Addresses -> SUBSET Peers] /\ waiting \subseteq Peers \X Addresses
  BY DEF Emptied
<1>5. held \in [Peers -> SUBSET Data]
  BY DEF Emptied
<1>6. TypeOK
  BY <1>1, <1>3, <1>4, <1>5 DEF Emptied, TypeOK
<1>7. IndexIsPlaceBeforeRemoval /\ WaitingPeersAreKnown
  BY <1>1 DEF Emptied, IndexIsPlaceBeforeRemoval, WaitingPeersAreKnown
<1>8. EntryForEveryHeldPeer
  <2>1. \A s \in Shards : Cardinality(HeldIn(s)) = 0 /\ Len(perShard[s]) = 0
    BY <1>1, HeldCount DEF HeldIn, Emptied
  <2> QED
    BY <2>1 DEF EntryForEveryHeldPeer
<1> QED
  BY <1>6, <1>7, <1>8 DEF HolderInv

LEMMA HolderInit == Init => HolderInv
BY EmptyHolder DEF Init, Emptied

LEMMA AddressStep ==
    ASSUME HolderInv, NEW p \in Peers, NEW a \in Addresses, PutConnectionAddress(p, a)
    PROVE  HolderInv'
<1> USE DEF HolderInv, PutConnectionAddress
<1>1. TypeOK'
  <2>1. peersInfo' \in [Addresses -> SUBSET Peers] /\ waiting' \subseteq Peers \X Addresses
    BY DEF TypeOK
  <2> QED
    BY <2>1 DEF TypeOK
<1>2. IndexIsPlaceBeforeRemoval'
  BY DEF IndexIsPlaceBeforeRemoval
<1>3. WaitingPeersAreKnown'
  <2>1. \A w \in waiting' : (w \in waiting /\ w[1] # p) \/ w = <<p, a>>
    OBVIOUS
  <2>2. \A w \in waiting : w[1] \in peersInfo'[w[2]]
    BY DEF WaitingPeersAreKnown, TypeOK
  <2>3. p \in peersInfo'[a]
    BY DEF TypeOK
  <2> QED
    BY <2>1, <2>2, <2>3 DEF WaitingPeersAreKnown
<1>4. EntryForEveryHeldPeer'
  BY DEF EntryForEveryHeldPeer, HeldIn
<1> QED
  BY <1>1, <1>2, <1>3, <1>4

LEMMA ShardStep ==
    ASSUME HolderInv, NEW p \in Peers, NEW s \in Shards, PutShardID(p, s)
    PROVE  HolderInv'
<1> USE DEF HolderInv
<1>1. PICK a \in Addresses :
         /\ perShard' = [perShard EXCEPT ![s] = Append(@, p)]
         /\ held' = [held EXCEPT ![p] = {[address |-> a, shard |-> s, index |-> Len(perShard[s])]}]
         /\ waiting' = waiting \ {<<p, a>>}
         /\ UNCHANGED <<peersInfo, panicked, removed>>
  BY DEF PutShardID
<1>2. perShard[s] \in Seq(Peers) /\ Len(perShard[s]) \in Nat
  BY DEF TypeOK
<1>3. TypeOK'
  <2>1. perShard' \in [Shards -> Seq(Peers)]
    BY <1>1, <1>2 DEF TypeOK
  <2>2. [address |-> a, shard |-> s, index |-> Len(perShard[s])] \in Data
    BY <1>2 DEF Data
  <2>3. held' \in [Peers -> SUBSET Data]
    BY <1>1, <2>2 DEF TypeOK
  <2>4. \A q \in Peers : \A d, e \in held'[q] : d = e
    BY <1>1 DEF TypeOK
  <2> QED
    BY <1>1, <2>1, <2>3, <2>4 DEF TypeOK
<1>4. IndexIsPlaceBeforeRemoval'
  <2> SUFFICES ASSUME ~removed, NEW q \in Peers, NEW d \in held'[q]
               PROVE  d.index < Len(perShard'[d.shard]) /\ perShard'[d.shard][d.index + 1] = q
    BY <1>1 DEF IndexIsPlaceBeforeRemoval
  <2>1. CASE q = p
    <3>1. d.shard = s /\ d.index = Len(perShard[s])
      BY <1>1, <2>1 DEF TypeOK
    <3>2. perShard'[s] = Append(perShard[s], p)
      BY <1>1 DEF TypeOK
    <3> QED
      BY <1>2, <2>1, <3>1, <3>2
  <2>2. CASE q # p
    <3>1. d \in held[q] /\ d \in Data
      BY <1>1, <2>2 DEF TypeOK
    <3>2. d.shard \in Shards /\ d.index \in Nat
      BY <3>1 DEF Data
    <3>3. d.index < Len(perShard[d.shard]) /\ perShard[d.shard][d.index + 1] = q
      BY <3>1 DEF IndexIsPlaceBeforeRemoval
    <3>4. perShard'[d.shard] \in {perShard[d.shard], Append(perShard[d.shard], p)}
      BY <1>1, <3>2 DEF TypeOK
    <3>5. perShard[d.shard] \in Seq(Peers)
      BY <3>2 DEF TypeOK
    <3>6. d.index + 1 \in 1 .. Len(perShard[d.shard])
      BY <3>2, <3>3, <3>5
    <3>7. CASE perShard'[d.shard] = Append(perShard[d.shard], p)
      BY <3>2, <3>3, <3>5, <3>6, <3>7
    <3> QED
      BY <3>3, <3>4, <3>7
  <2> QED
    BY <2>1, <2>2
<1>5. WaitingPeersAreKnown'
  BY <1>1 DEF WaitingPeersAreKnown
<1>6. EntryForEveryHeldPeer'
  <2> SUFFICES ASSUME NEW x \in Shards
               PROVE  Cardinality(HeldIn(x)') <= Len(perShard'[x])
    BY DEF EntryForEveryHeldPeer
  <2>1. Cardinality(HeldIn(x)) <= Len(perShard[x]) /\ Len(perShard[x]) \in Nat
    BY DEF EntryForEveryHeldPeer, TypeOK
  <2>2. /\ \A q \in Peers : q # p => held'[q] = held[q]
        /\ \A d \in held'[p] : d.shard = s
    BY <1>1 DEF TypeOK
  <2>3. CASE x = s
    <3>1. HeldIn(x)' \subseteq HeldIn(x) \cup {p}
      BY <2>2 DEF HeldIn
    <3>2. Len(perShard'[x]) = Len(perShard[x]) + 1
      BY <1>1, <1>2, <2>3 DEF TypeOK
    <3>3. /\ Cardinality(HeldIn(x)') <= Cardinality(HeldIn(x)) + 1
          /\ Cardinality(HeldIn(x)') \in Nat /\ Cardinality(HeldIn(x)) \in Nat
      BY <3>1, CountStep
    <3> QED
      BY ONLY <2>1, <3>2, <3>3
  <2>4. CASE x # s
    <3>1. HeldIn(x)' \subseteq HeldIn(x)
      BY <2>2, <2>4 DEF HeldIn
    <3>2. perShard'[x] = perShard[x]
      BY <1>1, <2>4 DEF TypeOK
    <3>3. /\ Cardinality(HeldIn(x)') <= Cardinality(HeldIn(x))
          /\ Cardinality(HeldIn(x)') \in Nat /\ Cardinality(HeldIn(x)) \in Nat
      BY <3>1, CountStep
    <3> QED
      BY ONLY <2>1, <3>2, <3>3
  <2> QED
    BY <2>3, <2>4
<1> QED
  BY <1>3, <1>4, <1>5, <1>6

LEMMA RemoveStep ==
    ASSUME HolderInv, NEW p \in Peers, Remove(p)
    PROVE  HolderInv'
<1> USE DEF HolderInv
<1>1. PICK d \in held[p] :
         IF d.index < Len(perShard[d.shard])
         THEN /\ perShard' = [perShard EXCEPT ![d.shard] = Seqs!RemoveAt(@, d.index + 1)]
              /\ held' = [held EXCEPT ![p] = {}]
              /\ peersInfo' = [peersInfo EXCEPT ![d.address] = @ \ {p}]
              /\ waiting' = {w \in waiting : w[1] # p}
              /\ removed' = TRUE
              /\ UNCHANGED panicked
         ELSE /\ panicked' = TRUE
              /\ UNCHANGED <<peersInfo, waiting, perShard, held, removed>>
  BY DEF Remove
<1>2. d \in Data
  BY DEF TypeOK
<1>3. d.shard \in Shards /\ d.address \in Addresses /\ d.index \in Nat
  BY <1>2 DEF Data
<1>4. CASE d.index < Len(perShard[d.shard])
  <2>1. perShard' = [perShard EXCEPT ![d.shard] = Seqs!RemoveAt(perShard[d.shard], d.index + 1)]
        /\ held' = [held EXCEPT ![p] = {}]
        /\ peersInfo' = [peersInfo EXCEPT ![d.address] = @ \ {p}]
        /\ waiting' = {w \in waiting : w[1] # p}
        /\ removed' = TRUE /\ panicked' = panicked
    BY <1>1, <1>4
  <2>2. /\ Seqs!RemoveAt(perShard[d.shard], d.index + 1) \in Seq(Peers)
        /\ Len(Seqs!RemoveAt(perShard[d.shard], d.index + 1)) = Len(perShard[d.shard]) - 1
    BY <1>3, <1>4, CutList DEF TypeOK
  <2>3. TypeOK'
    BY <1>3, <2>1, <2>2 DEF TypeOK
  <2>4. IndexIsPlaceBeforeRemoval'
    BY <2>1 DEF IndexIsPlaceBeforeRemoval
  <2>5. WaitingPeersAreKnown'
    <3>1. \A w \in waiting' : /\ w \in waiting /\ w[1] # p
                              /\ w[1] \in Peers /\ w[2] \in Addresses
      BY <2>1 DEF TypeOK
    <3>2. \A x \in Addresses, q \in Peers : q \in peersInfo[x] /\ q # p => q \in peersInfo'[x]
      BY <2>1 DEF TypeOK
    <3> QED
      BY <3>1, <3>2 DEF WaitingPeersAreKnown
  <2>6. EntryForEveryHeldPeer'
    <3> SUFFICES ASSUME NEW x \in Shards
                 PROVE  Cardinality(HeldIn(x)') <= Len(perShard'[x])
      BY DEF EntryForEveryHeldPeer
    <3>1. Cardinality(HeldIn(x)) <= Len(perShard[x]) /\ Len(perShard[x]) \in Nat
      BY DEF EntryForEveryHeldPeer, TypeOK
    <3>2. held'[p] = {} /\ \A q \in Peers : q # p => held'[q] = held[q]
      BY <2>1 DEF TypeOK
    <3>3. HeldIn(x)' \subseteq HeldIn(x) \ {p}
      BY <3>2 DEF HeldIn
    <3>4. CASE x = d.shard
      <4>1. p \in HeldIn(x)
        BY <3>4 DEF HeldIn
      <4>2. Len(perShard'[x]) = Len(perShard[x]) - 1
        BY <2>1, <2>2, <3>4 DEF TypeOK
      <4> QED
        BY <3>1, <3>3, <4>1, <4>2, CountStep
    <3>5. CASE x # d.shard
      <4>1. perShard'[x] = perShard[x] /\ HeldIn(x)' \subseteq HeldIn(x)
        BY <2>1, <3>3, <3>5 DEF TypeOK
      <4>2. /\ Cardinality(HeldIn(x)') <= Cardinality(HeldIn(x))
            /\ Cardinality(HeldIn(x)') \in Nat /\ Cardinality(HeldIn(x)) \in Nat
        BY <4>1, CountStep
      <4> QED
        BY ONLY <3>1, <4>1, <4>2
    <3> QED
      BY <3>4, <3>5
  <2> QED
    BY <2>3, <2>4, <2>5, <2>6
<1>5. CASE ~(d.index < Len(perShard[d.shard]))
  <2>1. panicked' = TRUE /\ UNCHANGED <<peersInfo, waiting, perShard, held, removed>>
    BY <1>1, <1>5
  <2> QED
    BY <2>1 DEF TypeOK, IndexIsPlaceBeforeRemoval, WaitingPeersAreKnown, EntryForEveryHeldPeer,
                HeldIn
<1> QED
  BY <1>4, <1>5

LEMMA HolderStep == HolderInv /\ [Next]_vars => HolderInv'
<1> SUFFICES ASSUME HolderInv, [Next]_vars PROVE HolderInv'
  OBVIOUS
<1>1. CASE Clear
  <2>1. Emptied'
    BY <1>1 DEF Clear, Emptied, HolderInv, TypeOK
  <2> QED
    BY <2>1, EmptyHolder, PTL
<1>2. CASE UNCHANGED vars
  BY <1>2 DEF vars, HolderInv, TypeOK, IndexIsPlaceBeforeRemoval, WaitingPeersAreKnown,
              EntryForEveryHeldPeer, HeldIn
<1> QED
  BY <1>1, <1>2, AddressStep, ShardStep, RemoveStep DEF Next

(***************************************************************************)
(* For any finite set of peers, any addresses and shards, and removals at  *)
(* any moment: a peer that waits for its shard waits at one address, where *)
(* it is known (it may be known at others too), and the list of a shard    *)
(* has an entry for each peer held in the shard; up to the first removal   *)
(* the index kept for a peer is its place in the list                      *)
(* (peersHolder.go PutConnectionAddress, PutShardID, Remove, Clear).       *)
(***************************************************************************)
THEOREM HolderCorrect == Spec => []HolderInv
BY HolderInit, HolderStep, PTL DEF Spec
=============================================================================
