------------------------------ MODULE Messenger ------------------------------
(***************************************************************************)
(* The life of the network messenger, p2p/libp2p/netMessenger.go: the port *)
(* is chosen and bound, with retries (ports.go); the components are built  *)
(* in order, each from the configuration, several of them starting a       *)
(* goroutine; Close stops them in order and goes on after errors.  Other   *)
(* processes of the machine take and release ports meanwhile.  The cache   *)
(* of peers on topics (PeersOnChannel) runs inside the messenger.          *)
(***************************************************************************)
EXTENDS PeersOnChannel, Sequences, FiniteSets

CONSTANTS Configs,                  \* configurations the node may be started with
          MinRangePortValue,
          MaxRetriesIfBindError,
          WithCallers,              \* bound: those whose node is asked for the peers on topics
          MayFail                   \* MayFail[c]: external calls that may fail: the key's
                                    \* conversion, libp2p.New and steps of Close

ASSUME RetriesAssumption == MaxRetriesIfBindError \in Nat \ {0}

(* The types of the fields of the configuration; a port that is neither a  *)
(* number nor two of them is a sequence of another length.                 *)
ASSUME ConfigsAssumption ==
    \A c \in Configs :
        /\ c.port \in Seq(Int)
        /\ c.nilArgument \in BOOLEAN /\ c.selfSeeder \in BOOLEAN
        /\ {c.sharding.target, c.sharding.intraV, c.sharding.crossV, c.sharding.intraO,
            c.sharding.crossO, c.sharding.seeders, c.kad.protocols} \subseteq Nat
        /\ c.kad.enabled \in BOOLEAN

VARIABLES config,       \* the ArgsNetworkMessenger the node was started with
          phase,        \* where newNetworkMessenger, or Close, is
          tries,        \* calls of constructNode so far
          probed,       \* ports of the range that choosePort found taken in this call
          port,         \* the port chosen by getPort
          taken,        \* ports of the range that other processes listen on
          everTaken,    \* history: ports some other process had since the start
          hostOpen,     \* the libp2p host listens on port
          step,         \* index in Components while building, in CloseSteps while closing
          routines,     \* goroutines of the components that are running
          watchers,     \* the calls of constructNode whose connections watcher sweeps
          cancelled,    \* contexts that are cancelled
          err,          \* the error newNetworkMessenger or Close returns, or "nil"
          failures      \* history: what could not be closed

lifeVars == <<config, phase, tries, probed, port, taken, everTaken, hostOpen, step,
              routines, watchers, cancelled, err, failures>>
messengerVars == <<lifeVars, pocVars>>

-----------------------------------------------------------------------------
(* What the constructors make of the configuration: "nil" or an error.     *)

(* getPort's parsing: <<v>> is a number, <<a, b>> is "a-b", anything else  *)
(* is malformed.                                                           *)
PortError(p) ==
    CASE Len(p) = 1 -> IF p[1] < 0 THEN "portValue" ELSE "nil"
      [] Len(p) = 2 -> IF p[1] < MinRangePortValue THEN "startPort"
                       ELSE IF p[2] < p[1] THEN "endPort" ELSE "nil"
      [] OTHER -> "portFormat"

(* parseTransportOptions: TCP, QUIC, web socket and web transport, in this *)
(* order; an address has one %d, or not, or is empty.                      *)
TransportError(addresses) ==
    LET bad == {i \in DOMAIN addresses : addresses[i] = "bad"}
    IN  CASE bad # {} -> "transportAddress"
          [] \A i \in DOMAIN addresses : addresses[i] = "empty" -> "noTransports"
          [] OTHER -> "nil"

NewConnectionsWatcherError(type) ==
    IF type \in {"print", "disabled", ""} THEN "nil" ELSE "watcherType"

CreateResourceLimiterError(type) ==
    IF type \in {"default autoscale", "infinite", "default with manual scale"} THEN "nil"
    ELSE "limiterType"

NewListsSharderError(s) ==
    CASE s.target < 5 -> "targetPeerCount"
      [] s.intraV < 1 \/ s.crossV < 1 -> "validators"
      [] s.intraO < 1 \/ s.crossO < 1 -> "observers"
      [] s.intraV + s.crossV + s.intraO + s.crossO + s.seeders + 1 > s.target -> "sum"
      [] OTHER -> "nil"

NewSharderError(s) ==
    CASE s.type = "ListsSharder" -> NewListsSharderError(s)
      [] s.type = "OneListSharder" -> IF s.target < 3 THEN "targetPeerCount" ELSE "nil"
      [] s.type = "NilListSharder" -> "nil"
      [] OTHER -> "sharderType"

(* prepareArguments and the factory around it.                             *)
NewPeerDiscoverersError(c) ==
    CASE ~c.kad.enabled -> "nil"
      [] c.kad.protocols = 0 -> "noProtocol"
      [] c.sharding.type \notin {"ListsSharder", "OneListSharder", "NilListSharder"} -> "sharderType"
      [] c.kad.type \notin {"legacy", "optimized"} -> "kadType"
      [] c.kad.refreshInterval < 1 -> "refreshInterval"
      [] c.kad.tableRefresh < 1 -> "tableRefresh"
      [] OTHER -> "nil"

-----------------------------------------------------------------------------
Components == <<"pubSub", "peersOnChannel", "sharder", "discoverers", "connMonitor",
                "directSender", "outgoingCLB", "messagesHandler", "connectionsHandler",
                "externalLoggers">>

ComponentError(component) ==
    CASE component = "sharder" -> NewSharderError(config.sharding)
      [] component = "discoverers" -> NewPeerDiscoverersError(config)
      [] OTHER -> "nil"

(* The goroutines a component's constructor starts.  The legacy discoverer *)
(* starts its own when it is bootstrapped.                                 *)
Started(component) ==
    CASE component \in {"sharder", "directSender"} -> {}
      [] component = "discoverers" ->
            IF config.kad.enabled /\ config.kad.type = "optimized" THEN {"discoverers"} ELSE {}
      [] OTHER -> {component}

Routines == {"pubSub", "peersOnChannel", "discoverers", "connMonitor", "outgoingCLB",
             "messagesHandler", "connectionsHandler", "externalLoggers"}

(* Mutant: the loggers' check runs on a context of its own.                *)
ContextOfOwn(routine) ==
    IF routine \in {"pubSub", "discoverers"} THEN "messenger" ELSE routine

(* The context a goroutine waits on.                                       *)
ContextOf(routine) ==
    IF routine \in {"pubSub", "discoverers", "externalLoggers"} THEN "messenger" ELSE routine

(* Close: the messages handler (its context, the load balancer, the        *)
(* debugger), the connections handler (its context, the peers on channel,  *)
(* the connection monitor), the host, the watcher, the messenger's         *)
(* context, the peer store.                                                *)
MessagesHandlerCloses == <<"messagesHandler", "outgoingCLB", "debugger">>
ConnectionsHandlerCloses == <<"connectionsHandler", "peersOnChannel", "connMonitor">>
CloseSteps == MessagesHandlerCloses \o ConnectionsHandlerCloses
                \o <<"host", "watcher", "messenger", "peerstore">>

Contexts == {"messagesHandler", "outgoingCLB", "connectionsHandler", "peersOnChannel",
             "connMonitor", "messenger", "watcher"}
ClosingFaults == MayFail[config] \cap {"debugger", "host", "peerstore"}

RangeOf(c) == IF Len(c.port) = 2 THEN c.port[1] .. c.port[2] ELSE {c.port[1]}
Ports == UNION {RangeOf(c) : c \in {d \in Configs : PortError(d.port) = "nil"}}
Errors == {"nil", "nilArgument", "portValue", "startPort", "endPort", "portFormat", "noFreePort",
           "watcherType", "transportAddress", "noTransports", "limiterType", "bind", "newHost",
           "privateKey", "selfSeeder", "targetPeerCount", "validators", "observers", "sum", "sharderType",
           "noProtocol", "kadType", "refreshInterval", "tableRefresh"}
          \cup {"debugger", "host", "peerstore"}

MessengerTypeOK ==
    /\ PocTypeOK
    /\ config \in Configs
    /\ phase \in {"check", "port", "options", "bind", "seeders", "components", "running",
                  "closing", "closed", "failed"}
    /\ tries \in 0 .. MaxRetriesIfBindError
    /\ probed \subseteq Ports /\ taken \subseteq Ports /\ everTaken \subseteq Ports
    /\ port \in Ports \cup {None}
    /\ hostOpen \in BOOLEAN
    /\ step \in 1 .. Len(CloseSteps)
    /\ routines \subseteq Routines
    /\ watchers \subseteq 1 .. MaxRetriesIfBindError
    /\ cancelled \subseteq Contexts
    /\ err \in Errors
    /\ failures \subseteq ClosingFaults

MessengerInit ==
    /\ NewPeersOnChannel
    /\ config \in Configs
    /\ phase = "check" /\ tries = 0 /\ probed = {} /\ port = None
    /\ taken \in SUBSET ((Ports \cap RangeOf(config)) \ {0}) /\ everTaken = taken
    /\ hostOpen = FALSE /\ step = 1
    /\ routines = {} /\ watchers = {} /\ cancelled = {}
    /\ err = "nil" /\ failures = {}

-----------------------------------------------------------------------------
Fail(e) == phase' = "failed" /\ err' = e

(* newNetworkMessenger: none of the arguments is nil; the first call of    *)
(* constructNode.                                                          *)
CheckArguments ==
    /\ phase = "check"
    /\ IF config.nilArgument
       THEN Fail("nilArgument") /\ UNCHANGED tries
       ELSE phase' = "port" /\ tries' = 1 /\ UNCHANGED err
    /\ UNCHANGED <<config, probed, port, taken, everTaken, hostOpen, step, routines,
                   watchers, cancelled, failures, pocVars>>

(* getPort with a number: the port is not probed.                          *)
GetFixedPort ==
    /\ phase = "port"
    /\ Len(config.port) # 2 \/ PortError(config.port) # "nil"
    /\ IF PortError(config.port) # "nil"
       THEN Fail(PortError(config.port)) /\ UNCHANGED port
       ELSE phase' = "options" /\ port' = config.port[1] /\ UNCHANGED err
    /\ UNCHANGED <<config, tries, probed, taken, everTaken, hostOpen, step, routines,
                   watchers, cancelled, failures, pocVars>>

(* choosePort with a range: checkFreePort listens on a port and closes the *)
(* listener at once; the ports come in a random order.                     *)
ProbePort(p) ==
    /\ phase = "port"
    /\ Len(config.port) = 2 /\ PortError(config.port) = "nil"
    /\ p \in RangeOf(config) \ probed
    /\ IF p \notin taken
       THEN phase' = "options" /\ port' = p /\ UNCHANGED <<probed, err>>
       ELSE /\ probed' = probed \cup {p}
            /\ IF probed' = RangeOf(config) THEN Fail("noFreePort") ELSE UNCHANGED <<phase, err>>
            /\ UNCHANGED port
    /\ UNCHANGED <<config, tries, taken, everTaken, hostOpen, step, routines, watchers,
                   cancelled, failures, pocVars>>

(* The connections watcher, whose goroutine starts here, then the private  *)
(* key, which may not convert, and the options.                            *)
BuildOptions ==
    /\ phase = "options"
    /\ LET errWatcher == NewConnectionsWatcherError(config.watcher)
           errOptions == IF TransportError(config.transports) # "nil"
                         THEN TransportError(config.transports)
                         ELSE CreateResourceLimiterError(config.limiter)
       IN  /\ watchers' = IF config.watcher = "print" THEN watchers \cup {tries} ELSE watchers
           /\ CASE errWatcher # "nil" -> Fail(errWatcher)
                [] errWatcher = "nil" /\ errOptions # "nil" ->
                     Fail(errOptions) \/ ("privateKey" \in MayFail[config] /\ Fail("privateKey"))
                [] OTHER -> \/ phase' = "bind" /\ UNCHANGED err
                            \/ "privateKey" \in MayFail[config] /\ Fail("privateKey")
    /\ UNCHANGED <<config, tries, probed, port, taken, everTaken, hostOpen, step, routines,
                   cancelled, failures, pocVars>>

(* libp2p.New binds the port, or finds that somebody took it: then         *)
(* constructNodeWithPortRetry calls constructNode again, with a new probe  *)
(* and a new watcher.  Any other error ends the construction.              *)
NewHost ==
    /\ phase = "bind"
    /\ IF port \in taken
       THEN /\ IF tries < MaxRetriesIfBindError
               THEN phase' = "port" /\ tries' = tries + 1 /\ probed' = {} /\ UNCHANGED err
               ELSE Fail("bind") /\ UNCHANGED <<tries, probed>>
            /\ UNCHANGED hostOpen
       ELSE \/ phase' = "seeders" /\ hostOpen' = TRUE /\ UNCHANGED <<err, tries, probed>>
            \/ "newHost" \in MayFail[config] /\ Fail("newHost") /\ UNCHANGED <<hostOpen, tries, probed>>
    /\ UNCHANGED <<config, port, taken, everTaken, step, routines, watchers, cancelled,
                   failures, pocVars>>

(* validateSeeders: an error leaves the host as it is.                     *)
ValidateSeeders ==
    /\ phase = "seeders"
    /\ IF config.selfSeeder THEN Fail("selfSeeder") ELSE phase' = "components" /\ UNCHANGED err
    /\ UNCHANGED <<config, tries, probed, port, taken, everTaken, hostOpen, step, routines,
                   watchers, cancelled, failures, pocVars>>

(* p2pHost.Close: an error may leave the host listening.                   *)
CloseHost(ok) ==
    \/ ok /\ hostOpen' = FALSE /\ UNCHANGED failures
    \/ /\ ~ok /\ "host" \in ClosingFaults
       /\ hostOpen' \in BOOLEAN /\ failures' = failures \cup {"host"}

(* Mutant: an error returns without closing the host.                      *)
AddComponentLeavesHost ==
    /\ phase = "components"
    /\ LET component == Components[step]
       IN  IF ComponentError(component) # "nil"
           THEN Fail(ComponentError(component)) /\ UNCHANGED <<hostOpen, failures, step, routines>>
           ELSE /\ routines' = routines \cup Started(component)
                /\ IF step = Len(Components) THEN phase' = "running" /\ step' = 1
                   ELSE phase' = phase /\ step' = step + 1
                /\ UNCHANGED <<err, hostOpen, failures>>
    /\ UNCHANGED <<config, tries, probed, port, taken, everTaken, watchers, cancelled, pocVars>>

(* addComponentsToNode, one component; after an error the host is closed,  *)
(* and nothing else.                                                       *)
AddComponent ==
    /\ phase = "components"
    /\ LET component == Components[step]
       IN  IF ComponentError(component) # "nil"
           THEN /\ Fail(ComponentError(component)) /\ \E ok \in BOOLEAN : CloseHost(ok)
                /\ UNCHANGED <<step, routines>>
           ELSE /\ routines' = routines \cup Started(component)
                /\ IF step = Len(Components) THEN phase' = "running" /\ step' = 1
                   ELSE phase' = phase /\ step' = step + 1
                /\ UNCHANGED <<err, hostOpen, failures>>
    /\ UNCHANGED <<config, tries, probed, port, taken, everTaken, watchers, cancelled, pocVars>>

Close ==
    /\ phase = "running"
    /\ phase' = "closing"
    /\ UNCHANGED <<config, tries, probed, port, taken, everTaken, hostOpen, step, routines,
                   watchers, cancelled, err, failures, pocVars>>

(* One part is closed, or reports an error.                                *)
ClosePart(part) ==
    \/ part # "host" /\ UNCHANGED <<hostOpen, err, failures>>
    \/ /\ part # "host" /\ part \in ClosingFaults
       /\ err' = part /\ failures' = failures \cup {part} /\ UNCHANGED hostOpen
    \/ part = "host" /\ \E ok \in BOOLEAN : CloseHost(ok) /\ err' = IF ok THEN err ELSE part

(* Mutant: Close returns at the first error.                               *)
CloseStepStops ==
    /\ phase = "closing"
    /\ LET part == CloseSteps[step]
       IN  /\ cancelled' = IF part \in Contexts THEN cancelled \cup {part} ELSE cancelled
           /\ ClosePart(part)
    /\ IF step = Len(CloseSteps) \/ err' # "nil" THEN phase' = "closed" /\ UNCHANGED step
       ELSE step' = step + 1 /\ UNCHANGED phase
    /\ UNCHANGED <<config, tries, probed, port, taken, everTaken, routines, watchers,
                   pocVars>>

(* One step of Close: the part is told to stop even when an earlier one    *)
(* failed; the last error is the one returned.                             *)
CloseStep ==
    /\ phase = "closing"
    /\ LET part == CloseSteps[step]
       IN  /\ cancelled' = IF part \in Contexts THEN cancelled \cup {part} ELSE cancelled
           /\ ClosePart(part)
    /\ IF step = Len(CloseSteps) THEN phase' = "closed" /\ UNCHANGED step
       ELSE step' = step + 1 /\ UNCHANGED phase
    /\ UNCHANGED <<config, tries, probed, port, taken, everTaken, routines, watchers,
                   pocVars>>

(* The goroutines whose context is done end (connectionsHandler.go:461,    *)
(* messagesHandler.go:141, libp2pConnectionMonitorSimple.go:190,           *)
(* netMessenger.go:519, optimizedKadDhtDiscoverer.go:112).  They share no  *)
(* modelled state and end together, but for two: the refresh goroutine     *)
(* looks at its context only between two rounds, and a forwarder of the    *)
(* load balancer looks at it only before it sends.                         *)
RoutinesEnd ==
    LET done == {r \in routines \ {"peersOnChannel", "outgoingCLB"} : ContextOf(r) \in cancelled}
    IN  /\ done # {}
        /\ routines' = routines \ done
        /\ UNCHANGED <<config, phase, tries, probed, port, taken, everTaken, hostOpen, step,
                       watchers, cancelled, err, failures, pocVars>>
(* The forwarders end, unless one of them is blocked in its send           *)
(* (outgoingChannelLoadBalancer.go:70): whether one is depends on the      *)
(* messages that were under way (BroadcastPipeline), so that this step may *)
(* never come.                                                             *)
LoadBalancerEnds ==
    /\ "outgoingCLB" \in routines \cap cancelled
    /\ routines' = routines \ {"outgoingCLB"}
    /\ UNCHANGED <<config, phase, tries, probed, port, taken, everTaken, hostOpen, step,
                   watchers, cancelled, err, failures, pocVars>>

(* refreshPeersOnAllKnownTopics ends between two rounds.                   *)
RefreshEnds ==
    /\ "peersOnChannel" \in routines \cap cancelled
    /\ fetching[Loop] = Idle /\ toRefresh = {}
    /\ routines' = routines \ {"peersOnChannel"}
    /\ UNCHANGED <<config, phase, tries, probed, port, taken, everTaken, hostOpen, step,
                   watchers, cancelled, err, failures, pocVars>>

(* Only the watcher of the last call of constructNode can be closed.       *)
WatcherEnds ==
    /\ tries \in watchers /\ "watcher" \in cancelled
    /\ watchers' = watchers \ {tries}
    /\ UNCHANGED <<config, phase, tries, probed, port, taken, everTaken, hostOpen, step,
                   routines, cancelled, err, failures, pocVars>>

(* Another process of the machine takes a port of the range (each at most  *)
(* once, a bound) or releases one.                                         *)
PortChurn(p) ==
    /\ phase \in {"port", "options", "bind"} /\ p \in RangeOf(config) \ {0}
    /\ \/ p \in taken /\ taken' = taken \ {p}
       \/ p \notin everTaken /\ taken' = taken \cup {p}
    /\ everTaken' = everTaken \cup taken'
    /\ UNCHANGED <<config, phase, tries, probed, port, hostOpen, step, routines, watchers,
                   cancelled, err, failures, pocVars>>

(* The cache of peers on topics.  Calls begin, and the peers and the time  *)
(* are followed, while the messenger is running (a bound); a fetch may end *)
(* during and after Close.                                                 *)
Constructed == phase \in {"running", "closing", "closed"}
TopicsUsed == phase = "running" /\ config \in WithCallers
CallerFetch(c) == Constructed /\ (FetchPeers(c) \/ UpdateConnectedPeersOnTopic(c)) /\ UNCHANGED lifeVars
TimePasses == TopicsUsed /\ PocTick /\ UNCHANGED lifeVars
PeersOnChannelStep ==
    \/ \E c \in Callers : CallerFetch(c)
    \/ TimePasses
    \/ /\ TopicsUsed
       /\ \E t \in Topics : PeersChange(t) \/ \E c \in Callers : ConnectedPeersOnChannel(c, t)
       /\ UNCHANGED lifeVars
RefreshStep ==
    /\ Constructed /\ "peersOnChannel" \in routines
    /\ \/ BuildTopicList \/ FetchPeers(Loop) \/ UpdateConnectedPeersOnTopic(Loop)
       \/ \E t \in Topics : RefreshNext(t)
    /\ UNCHANGED lifeVars

ConstructionStep ==
    \/ CheckArguments \/ GetFixedPort \/ (\E p \in Ports : ProbePort(p)) \/ BuildOptions
    \/ NewHost \/ ValidateSeeders \/ AddComponent

MessengerNext ==
    \/ ConstructionStep
    \/ Close \/ CloseStep \/ WatcherEnds \/ RoutinesEnd \/ LoadBalancerEnds \/ RefreshEnds
    \/ \E p \in Ports : PortChurn(p)
    \/ PeersOnChannelStep \/ RefreshStep

(* The goroutines are scheduled; whether Close is called, and what the     *)
(* other processes and the peers do, is open.  In the refresh goroutine's  *)
(* select a done context is ready before the next timer: it is taken in    *)
(* the end although rounds of refreshing may come between.  Nothing makes  *)
(* the load balancer's forwarders end.                                     *)
Fairness ==
    /\ WF_messengerVars(ConstructionStep)
    /\ WF_messengerVars(CloseStep) /\ WF_messengerVars(WatcherEnds)
    /\ WF_messengerVars(RoutinesEnd) /\ SF_messengerVars(RefreshEnds)
    /\ WF_messengerVars(RefreshStep) /\ WF_messengerVars(TimePasses)
    /\ \A c \in Callers : WF_messengerVars(CallerFetch(c))
MessengerSpec == MessengerInit /\ [][MessengerNext]_messengerVars /\ Fairness

-----------------------------------------------------------------------------
(* A messenger that is running owns a port of its configuration that no    *)
(* other process had when it was bound, and was given a configuration for  *)
(* which the limits the lists sharder is built on hold (what the theorem   *)
(* on the eviction list assumes): newNetworkMessenger with ports.go and    *)
(* the factories.                                                          *)
RunningNodeIsSound ==
    phase = "running" =>
        /\ hostOpen /\ port \in RangeOf(config) \ taken
        /\ ~config.selfSeeder
        /\ config.sharding.type = "ListsSharder" =>
             config.sharding.target > config.sharding.intraV + config.sharding.crossV
                                      + config.sharding.intraO + config.sharding.crossO
                                      + config.sharding.seeders
        /\ config.kad.enabled => config.kad.protocols > 0

(* Port trouble stops the construction only when it had to: a bind error   *)
(* is returned after all the tries, "no free port" only if every port of   *)
(* the range was somebody else's at some moment                            *)
(* (constructNodeWithPortRetry, choosePort).                               *)
PortFailuresAreReal ==
    phase = "failed" =>
        /\ err = "bind" => tries = MaxRetriesIfBindError /\ port \in everTaken
        /\ err = "noFreePort" => RangeOf(config) \subseteq everTaken

(* What a failed construction leaves behind: a listening host only when    *)
(* the node is in its own list of seeders or the host could not be closed, *)
(* goroutines of components only when a component was refused, and at most *)
(* one watcher's sweep for each try (newNetworkMessenger).                 *)
FailedConstructionLeftovers ==
    phase = "failed" =>
        /\ hostOpen => err = "selfSeeder" \/ "host" \in failures
        /\ routines # {} => err \in {"targetPeerCount", "validators", "observers", "sum",
                                     "sharderType", "noProtocol", "kadType", "refreshInterval",
                                     "tableRefresh"}
        /\ Cardinality(watchers) <= tries

(* The messenger at any moment: well typed, a construction that succeeds   *)
(* or fails as the three parts above say.                                  *)
ConstructionInv ==
    MessengerTypeOK /\ RunningNodeIsSound /\ PortFailuresAreReal /\ FailedConstructionLeftovers

(* Close tells every component to stop even after some of them failed, and *)
(* reports success only when all of them closed; the host listens on only  *)
(* when closing it failed.                                                 *)
CloseReachesEveryone ==
    phase = "closed" => /\ cancelled = Contexts /\ (hostOpen => "host" \in failures)
                        /\ err = "nil" <=> failures = {}

(* A newNetworkMessenger that looks for a port returns, whatever happens   *)
(* to the ports, and after Close every goroutine of the messenger ends,    *)
(* but for the watchers of the tries that ended in a bind error and        *)
(* forwarders of the load balancer that are blocked in their send          *)
(* (outgoingChannelLoadBalancer.go:70).                                    *)
CloseEndsGoroutines ==
    /\ phase = "port" ~> phase \in {"running", "closing", "closed", "failed"}
    /\ phase = "closed" ~> /\ routines \subseteq {"outgoingCLB"}
                           /\ watchers \subseteq 1 .. tries - 1

(* When the peers of a topic stop changing, the cached list catches up,    *)
(* even if a slow fetch put an outdated one in the cache; unless the       *)
(* messenger is closed first.                                              *)
CacheCatchesUp ==
    \A t \in Topics : <>[](peers[t] \in {None, truth[t]} \/ phase \in {"closing", "closed"})
=============================================================================
