# A TLA+ model of drt-go-chain-communication

The repository holds two communication systems of a blockchain node written in
Go: a **websocket host** (`websocket/`), a client and a server that exchange
payloads with optional acknowledges, and a **p2p messenger** (`p2p/`) on top of
libp2p, which broadcasts and receives messages and decides with which peers the
node stays connected. This directory models their concurrent core in TLA+,
checks it with TLC on small instances and proves its central properties with
TLAPS.

Every definition of a module is translated from the source lines that
`PROJECT.json` gives under `map`. Data is abstracted (a payload is the call that
sent it, a peer or a topic is a model value); the control flow, its guards,
early returns and the order of the state changes are kept.

## 1. Inventory of the system

### Websocket

| Component | State | Operations | Hard part | What makes it correct |
|---|---|---|---|---|
| `transceiver/transceiver.go` | `counter`, `mapAck`, `payloadHandler`, `safeCloser` | `Send`, `waitForAck`, `Listen`, `handleAckMessage`, `sendAckIfNeeded`, `SetPayloadHandler`, `Close` | callers wait while the listening goroutine closes their channels; late acknowledges; retries of an acknowledge on a connection that changes underneath | a call told "acknowledged" was handled by the other side; a channel is closed once; callers return |
| `connection/wsConnClient.go` | pointer to the connection, URL | `OpenConnection`, `ReadMessage`, `WriteMessage`, `Close` | a failed close leaves the pointer set; readers use a pointer read before | no use of a nil connection |
| `client/client.go` | wrapper, transceiver, `safeCloser` | two goroutines of `start`, `Send`, `Close` | opener, listener and Close act on one wrapper | a lost connection is replaced |
| `server/server.go`, `transceiversAndConnHolder.go` | map of transceivers and connections | `connectionHandler` per connection, `Send` over a snapshot, `Close` over another | the snapshots go stale | dead connections leave the map, `Send` returns |

### P2P

| Component | State | Operations | Hard part | What makes it correct |
|---|---|---|---|---|
| Broadcast: `messagesHandler.go`, `outgoingChannelLoadBalancer.go` | throttler, `chans`, `namesChans`, `mainChan`, `topics` | `Broadcast`, `AddChannel`, `RemoveChannel`, `CollectOneElementFromChannels`, publishing loop, `CreateTopic`, `UnJoinAllTopics`, `Close` | a goroutine per broadcast and per channel, all blocking on unbuffered channels | nothing lost, doubled or reordered; everything admitted finishes |
| Processors: `messagesHandler.go`, `topicProcessors.go` | `processors`, the maps per topic, pubsub's validators | `RegisterMessageProcessor`, `UnregisterMessageProcessor`, `UnregisterAllMessageProcessors`, `pubsubCallback`, `ProcessReceivedMessage` | dispatching outside the mutex; pubsub refuses after the map was changed | map and validator agree; a message reaches the processors of its topic |
| Reception: `messagesHandler.go`, `directSender.go`, `message.go` | caches of seen messages, clock, denials, the registered handlers | `transformAndCheckMessage`, `validateMessageByTimestamp`, `blacklistPid`, `processReceivedDirectMessage`, `checkAndSetSeenMessage` | two clocks of different precision guard one message; a message is remembered before it is verified | not processed over and over; only an originator can spoil its message; only offenders are denied |
| Sharding: `networksharding/listsSharder.go` | limits, seeders | `ComputeEvictionList` | unused places are handed on | the maximum peer count |
| Connections: `connectionMonitor/libp2pConnectionMonitorSimple.go` | the network's peers, two timers, a request channel | `Connected`, `Disconnected`, main loop, sweep | runs of `Connected` work on snapshots, concurrently | settles within the maximum, denied peers go |
| Preferred peers: `peersHolder/peersHolder.go` | three maps and a list per shard | `PutConnectionAddress`, `PutShardID`, `Remove`, `Clear` | remembered list indexes | removing takes out the right peer |
| Direct sender: `directSender.go`, `mutexHolder.go` | a bounded cache of mutexes, streams, a counter | `Send`, `getOrCreateStream`, `NextSequenceNumber`, `directStreamHandler` | a mutex dropped from the cache while in use; early returns; restarts | one writer per stream; numbers never come back |
| Rating: `rating/` | two tiers in bounded caches | `IncreaseRating`, `DecreaseRating`, `GetTopRatedPeersFromList`, the monitor's report | eviction from the caches, monitor without the lock | a peer is in one tier, a selection is large enough |
| Discovery: `discovery/` | dht instance, seeders, status, timers | `Bootstrap`, process loop, dials, `ReconnectToNetwork`, `Connect` with dial check | callers wait on a loop that is busy or has ended; dialling goroutines outlive who started them | one bootstrap, a seeder is reached, the goroutines end |
| Peers on channel: `peersOnChannel.go` | cache per topic with expiry | `ConnectedPeersOnChannel`, refresh loop | a slow fetch overwrites a newer one | catches up |
| Messenger: `netMessenger.go`, `ports.go`, the factories, `connectionsHandler.go` | the host, the components and their contexts | construction with port retries, `Close`, `ConnectedPeers` | a port taken between probe and bind; a failure half way; parts that fail to close | what is left behind is known, Close reaches everything |
| Crypto, message check, configuration, websocket factory | none | signing, marshalling, checks | - | - |

Interaction: the client and the server each drive transceivers; the two sides
meet only over the network connection. In `p2p`, broadcasting and receiving share
`topics` and `processors` under one mutex; pubsub calls back into the handler;
libp2p notifies the connection monitor in goroutines of its own, and the monitor
asks the sharder, the preferred peers holder and the denial evaluator. The
discoverers dial the seeders, and the monitor evicts what the sharder does not
want; the messenger builds all of them, hands its context to some and closes
the others one by one.

## 2. Modules

| Module | Models | State and actions |
|---|---|---|
| `AckedDelivery` | (abstract) what `Send` promises | for every call: not handled / handled / confirmed |
| `WsTransceiver` | transceiver and connection wrapper, both sides, in an arbitrary environment | transceiver 0 is the client's; transceiver k > 0 is the server's for connection k. `conn` is the wrapper's pointer, `link` the network, `wire` what is in flight per direction and connection; `pc`, `cnt`, `mapAck`, `chClosed` are the calls of Send; `listen`, `rd`, `msg` the goroutine in Listen |
| `WsHost` | client and server around the transceivers; extends `WsTransceiver` | opener and listener goroutine, `connectionHandler` goroutines, holder, snapshots of `Send` and `Close` |
| `BroadcastPipeline` | broadcast path | one action per blocking point of each goroutine; a hand-over on an unbuffered channel is one step of both ends |
| `TopicRegistry` | registration and dispatching | a registration is one step (the mutex), a dispatching is three: object found, list read, processors run |
| `MessageFreshness` | seen caches and timestamp window | a clock with whole seconds and fractions; receive, forget |
| `Reception` | what happens to received messages before the dispatching; extends `MessageFreshness` and instantiates it a second time for direct messages | a broadcast may be unreadable, a copy of a direct message may have wrong fields, signature or content; bans, registration of the handlers |
| `DirectSender` | `Send` from `SendToConnectedPeer` to the receiver's stream reader | `cache`, `holder`: the mutexes; one action per step of `Send`; a message larger than the writer's buffer reaches the stream in two pieces; connections, restarts |
| `ListsSharder` | eviction lists of both sharders, as operators | `NumKept`, `EvictionLists`, `OneListEvictionLists` (sets: equal distances may be ordered either way) |
| `ConnectionMonitor` | connection monitor; extends `ListsSharder` | `Connected` of each peer in three kinds of step (snapshot, list, closes), `Disconnected`, main loop |
| `PeersHolder` | preferred peers | one action per method (they hold the mutex) |
| `PeersRating` | rating handler, rating monitor, `ConnectedPeers` | the caches as sequences in the order of use; the move between tiers is two steps, visible to the monitor; a selection is a step per peer of the list under the mutex; the report is a step per connection, per cache read and per peer |
| `SeederDial` | what the discoverers share: dials, the host wrapper, evictions of seeders (`ListsSharder` instantiated), callers of `Bootstrap`, the context | the look at the eviction list (`canConnectToPeer`) and the dial are two steps, so that the dial may act on an outdated list |
| `OptimizedKadDht`, `ContinuousKadDht` | the two discoverers; extend `SeederDial` | the process loop with its channels and timers; the bootstrap goroutine and the dialling goroutines it or the monitor starts |
| `Discovery` | the discoverer the configuration names; extends both | fairness and properties of discovery |
| `PeersOnChannel` | cache of the peers on topics | fetch and update are two steps, of callers and of the refresh goroutine; a list is its version |
| `Messenger` | the life of the messenger; extends `PeersOnChannel` | construction step by step from a configuration, ports taken by other processes, goroutines by the context they wait on, the load balancer's apart since they may stay blocked, `Close` part by part |
| `MCWsHost`, `MCConnectionMonitor` | instances for TLC | symmetry, named peers with distances and kinds |
| `MCMessages` | `Reception`, `TopicRegistry` and `PeersRating` for TLC | the three share no variable and each property speaks of one of them, so their steps need not be interleaved: the initial value of `explored` chooses the part whose steps are taken |
| `MCNode` | `Messenger`, `Discovery` and `PeersHolder` for TLC, in the same way | configurations, seeders with distances |
| `WsHost_proofs`, `BroadcastPipeline_proofs`, `TopicRegistry_proofs`, `Reception_proofs`, `ConnectionMonitor_proofs`, `DirectSender_proofs`, `PeersRating_proofs`, `Messenger_proofs` | theorems | each extends the module it is named after, and so the modules that one extends; `Messenger_proofs` also has the theorems of `Discovery` and `PeersHolder` |

Operators commented "Mutant" are faulty variants of the definition that follows
them. They are in no specification; putting one in place of the original makes
TLC report the property listed with it in `PROJECT.json`, which shows that the
property can fail. A definition named `...Inv` conjoins a module's type invariant
with the state invariants it is checked together with.

Choices that matter:

- *Network.* A connection delivers in order what was written on it; when it
  breaks, what is in flight may still be read or is lost. A write on a broken
  connection may succeed locally or fail.
- *Handler outcomes.* The application's handler may fail, and the error is or is
  not acknowledged according to `BlockingAckOnError`; the nil handler always
  succeeds (`nilPayloadHandler.go`).
- *Go selects* with several ready branches choose any; sends and receives on
  unbuffered channels are joint steps; a send on a closed channel panics
  (`SendPanics`) and ends the program.
- *Time* is a number in `MessageFreshness` and `Reception`, and an age in
  `PeersOnChannel`. Everywhere else a timer may fire at any moment.
- *One clock.* In `MessageFreshness` marking a message as seen and looking at its
  timestamp are one step by one clock. In the code the goroutine that marks the
  message looks at the timestamp next, with nothing in between that waits, and
  the two clocks are the machine's and the synchronised one, whose offset is taken
  not to change between the deliveries of a message.
- *Restarts.* The first number of a direct sender comes from `UnixNano`. A restart
  of the node in `DirectSender` finds the clock past the last number used; a clock
  that is set back further than the number of messages sent is ruled out.
- *Bounded caches* drop the entry used least recently (`MutexHolder`, the tiers).
- *Histories* (`handled`, `accepted`, `finished`, `constant`, `first`, `removed`,
  `refused`, `overrun`, `window`, `everTaken`, `failures`, `excused`, `unserved`
  and the like) record what happened, are never read by a guard and exist for the properties.

## 3. Runs

Eight runs explore the full state space of their instance and hold; four show that
the code does not do what a comment of its own says.

| Run | Instance and why it is large enough | Properties |
|---|---|---|
| `host_safety` | Two callers of the client's `Send`, a server, two successive connections that break at any time, acknowledges on, faults in construction and closing. Two callers are needed for confusing counters, two connections for an acknowledge that comes late | `ClientAckMeansHandled`, `NoDoubleClose`; the calls implement `AckedDelivery` (`ClientSendsAreAckedDeliveries`) |
| `host_close` | One caller of the client, one connection, acknowledges by the server; both sides close at any time, closing a connection or creating a transceiver may fail, messages are dropped when there is no connection; fair goroutines. The server can be caught retrying an acknowledge | `HostCloseEndsGoroutines`, `DeadConnectionsRemoved` |
| `host_live` | The server sends over two successive connections with acknowledges by the client; closing the wrapper may fail any number of times; fair goroutines | `ServerAckMeansHandled`, `ServerSendReturnsEventually`, `ReconnectsUnlessHeld` |
| `broadcast` | Two broadcasts, one name, the default channel and one of the name's own, a throttler of one, removal and closing at any time, fair goroutines. Order and conservation need two messages and a channel that appears or disappears between them | `PipelineInv` (types, order), `MessagesConserved`, `EveryBroadcastFinishes`, `CloseFinishesGoroutines` |
| `messages` | Reception: a broadcast and a direct message, two peers, window of two seconds back and one ahead, broadcasts remembered for two and direct messages for one, bans of three, half seconds, five seconds: the direct message can outlive several lives of its cache, the broadcast one. Registry: two topics (one a request topic), two identifiers, three objects, one message received through pubsub or directly, pubsub cancelled at any time. Rating: three peers, caches of two entries (so that rating one pushes out another), ratings -1 to 1, a connection change during the report, selections from lists of up to two peers, so that one looked at later pushes out an earlier one | `PastMessagesProcessedOnce`, `ProcessedAtMostTwice`, `DirectReplaysAreBounded`, `OnlyOriginatorsSpoil`, `DenialIsEarned`; `RegistryInv`, `OneObjectPerTopic`, `UnregisterAllIsComplete`; `RatingInv`, `SelectionIsEnough`, `ReportedRatingWasHeld` |
| `monitor` | Both sharders; five connected peers, one of each kind but seeders (limit 0) and an unknown one, two unknown comers of equal distance, one leaving, one learnt, one denied; limits of one per kind and five in total, so that every arrival evicts | `MonitorInv` (settles within the maximum), `DeniedPeersDropped`, `ReconnectAllowedAgain` |
| `direct_send` | Two callers, two peers and one cached mutex, so that a mutex in use is dropped; three sends, a restart, two changes of connections | `StreamInv`, `NewMessagesAreNotRefused`, `EverySendReturns` |
| `node` | Messenger: configurations at the edges of each constructor's checks, ranges of two ports, two tries to bind, ports taken and released between probe and bind; a topic asked for by two callers; failing parts in `Close`. Discovery: both types; three seeders, one down, the others competing for one place, one failed dial, one lost connection, one failure of `dht.New`, two callers of `Bootstrap`, cancellation at any time. Preferred peers: two peers, two addresses, two shards, lists of up to two entries (one peer can be listed twice), removals | `ConstructionInv`, `CloseReachesEveryone`, `CloseEndsGoroutines`, `CacheCatchesUp`; `DiscoveryInv`, `OneBootstrapSucceeds`, `BootstrapReturns`, `SeederIsReached`, `GoroutinesEnd`; `HolderInv` |

| Run that ends in a violation | Instance | Property, from the comment it quotes |
|---|---|---|
| `balancer_close` | one broadcast, `Close` at any time, fair goroutines | `CloseFinishesAllGoroutines` |
| `unregister_all` | two topics, one identifier | `AllAreUnregistered` |
| `timestamp_interval` | one message, the clock alone | `ProcessedInStatedInterval` |
| `holder_remove` | three peers at one address, one shard | `RemoveRemovesPeer` |

Section 5 says what each of them shows.

Runs end where bounds are used up (connections, channels, sends), and systems that
are closed stop, which is why deadlock is not checked.

### Fairness

- `WsHost`: each goroutine that can take a step does (weak fairness per
  goroutine): the Go scheduler is fair to runnable goroutines. The branches of a
  select that are ready again and again are taken (strong fairness): the choice
  is random. A dial that is tried again and again while the server accepts
  succeeds in the end (strong fairness of `OpenerOpens`); without it nothing can
  be said about reconnection. That the closing of the wrapper does not fail for ever
  is not assumed: it is the hypothesis of `ReconnectsUnlessHeld`, as the code would
  then not reconnect. Breaking connections, calling `Send`, setting a
  handler and closing are never required.
- `BroadcastPipeline`: weak fairness of the callers and the collector; strong
  fairness of hand-overs, since Go serves the goroutines blocked on a channel in
  the order they came; strong fairness of the branches of the selects.
- `ConnectionMonitor`: weak fairness of the main loop and strong fairness of the
  two timers of its select. Nothing makes a call of `ReconnectToNetwork` return: the
  loop calls it synchronously, and with the legacy discoverer it lasts until a
  seeder answers or the context ends (`continuousKadDhtDiscoverer.go:295-301`).
  `DeniedPeersDropped` and `ReconnectAllowedAgain` have this as their hypothesis
  (`ReconnectCallsReturn`). Notifications are not assumed to be handled.
- `WsHost` closing: the steps of a `Close` that has begun are taken.
- `Discovery`: the goroutines run. In the process loop's select a waiting caller, a
  fired timer and the finished context are ready together and chosen at random, so
  none is passed over for ever (strong fairness). Dials of seeders that are up fail
  at most `MaxRefusals` times.
- `DirectSender`: weak fairness of each goroutine in `Send`; strong fairness of
  `Lock`, since `sync.Mutex` hands over to a caller that has waited for long.
- `Messenger`: weak fairness of the construction, of a `Close` that was called, of
  the refresh goroutine and of time; strong fairness of the end of the refresh
  goroutine, whose finished context is ready in every select. No fairness of the
  load balancer's goroutines, one of which may be blocked in its send for ever.

## 4. Proofs

All theorems are checked by TLAPS without assumptions other than the named
`ASSUME`s on the constants, which TLC evaluates in the runs. They hold for every
value of the constants: any number of callers, peers, messages, topics or
connections, and every capacity and duration the constructors accept. Every state
invariant and the refinement that passing runs check are stated by a theorem.

In each module the invariant to be shown is strengthened to one that is
inductive; there is one lemma per action, or per action and part of the
invariant, and the last step of a theorem uses the propositional temporal backend.

**`WsHost_proofs`** - `TypeCorrect`, `ClientAckIsSound`, `ChannelsCloseOnce` and
`ImplementsAckedDelivery` are about `WsTransceiver`, whose environment opens,
breaks and closes connections at will. `ClientAckMeansHandled` is not inductive:
that an acknowledge in the map belongs to a handled payload depends on everything
in flight. `IInv` adds that two calls of a transceiver never share a counter
(`CounterInv`); a map entry names a started call with its counter and an open
channel (`MapInv`); a payload in flight or being processed is that of a call with
its counter (`PayloadInv`); an acknowledge in flight or being written is earned
(`AckInv`).
The host's actions are written on top of the transceivers' ones, so that it inherits
these results (`HostClientAckIsSound`); the lemma `HostImplements`, which carries
them over, says nothing about the code by itself.
`ServerAckIsSound` needs the host: it holds because nobody takes the connection
from a listening client before `Close` (`ConnHeld`). `ServerInv` says that a
transceiver of the server keeps its one connection (`OwnConn`), that a payload to
the client is there once, unhandled, on the connection of its call
(`ToClientInv`), and that until `Close` each acknowledge travels on the connection
that earned it (`ToServerInv`).

**`BroadcastPipeline_proofs`** - `PipelineCorrect` and `NoneLostNoneDoubled`. A
message that was handed over is with its forwarding goroutine, with the collector
or finished, and in one of them only (`PlacesInv`); of the messages a channel has
accepted at most the last two are on their way (`OrderInv`), which is what keeps
order through two unbuffered channels; the throttler's counter is the number of
broadcasts between start and end (`ThrottleInv`).

**`TopicRegistry_proofs`** - `RegistryCorrect`, `HandlerAndPubsubAgree`,
`UnregisterAll`. An object belongs to one topic for ever, also when only a
dispatching message still refers to it (`Ownership`); a message's list contains
whoever was registered all the time since it came (`ListsInv`); `UnregisteredInv`
keeps the reason for which unregistering all stopped.

**`Reception_proofs`** - for all durations. `PastMessagesOnce` and `AtMostTwice`
for the cache alone, `ReceivedPastMessagesOnce` and `ReceivedAtMostTwice` with
everything that happens to a message before the cache: `CacheInv` relates the time
a message entered the cache to the clock, `TimesInv` the number of times it was
processed to how long ago the first time was. `DirectReplays`: each further time
takes a life of the cache (`ReplaysInv`), so that the accepted range of timestamps
bounds them. `SpoiltByOriginators` (`SpoiltInv`) and `Denials` (`BanInv`: a
denial follows an offence and ends a ban after the last one).

**`ConnectionMonitor_proofs`** - `KeptWithinLimits`: for all limits the constructor
accepts, the places handed on from kind to kind never add up to more than the
maximum peer count. `MonitorCorrect` needs more, as runs of `Connected` overlap and
close from outdated lists. `Covered`: the peers whose run has begun are all in the
snapshot of a run that has not yet computed its list, or what some run still has
to close brings them within the maximum, or they are within it. When no run is
left only the last alternative remains.

**`DirectSender_proofs`** - `WholeMessagesInOrder` and `NewMessagesAccepted`.
A caller past the lock holds its mutex (`LockInv`), which is the one cached for
its peer unless that was dropped in use (`MutexInv`): so there is one writer. A
stream holds whole messages, and half a one exactly when its writer has the rest
still to write (`WriterInv`, `RowsInv`). A number is on one stream, once, never
when a peer has already seen it, and nowhere before it is written (`NumbersInv`).

**`PeersRating_proofs`** - `RatingsCorrect`, `SelectionsAreEnough`, `ReportIsSound`.
`TiersInv`: both caches have distinct peers with ratings of their tier, and the
peer between two tiers is in neither. `SplitInv`: a selection in progress has
exactly the peers looked at, by the tier they are in *now*, although rating an
unknown peer may push others out. `ReportInv`: the rating of the peer being
looked up is one it had since the look-up began; past the top tier it is still in
the bad one or was once without a rating. The last part rests on `NoJump`: no
single step moves a peer from the bad tier to the top one.

**`Messenger_proofs`** - `MessengerCorrect` and `CloseIsComplete` for all
configurations: which checks each phase of the construction has passed and what
it has built (`PortsInv`, `BuildInv`), what `Close` has stopped so far
(`CloseInv`), why a construction failed (`FailureInv`). The same module has the
components the messenger owns. `DiscoveryCorrect` and `BootstrapOnce`: a dialling
goroutine that is done has reached a seeder or has none (`TryerInv`), and the dht
exists exactly when a call of `Bootstrap` has succeeded, or the loop still holds
the answer for it (`CallersInv`). `HolderCorrect`: for any sequence of calls, removals
that cut the wrong entry or panic included, a peer that waits for its shard waits
at one address and is known there (`WaitingPeersAreKnown`) and a shard's list has
at least as many entries as the shard has held peers (`EntryForEveryHeldPeer`); until
the first removal the remembered index is the place (`IndexIsPlaceBeforeRemoval`).
What happens after it is the run `holder_remove`.

Besides limits that the constructors check and types, the assumptions say that
sets of callers and peers are finite where something is counted, and that the
special values (`Nothing`, `NoPeer`, `NoCaller`, `NoTopic`) are no messages, peers,
callers or topics.

**Only model-checked**: liveness, since the prover handles neither fairness nor
ENABLED: `HostCloseEndsGoroutines`, `ServerSendReturnsEventually`,
`DeadConnectionsRemoved`, `ReconnectsUnlessHeld`, `EveryBroadcastFinishes`,
`CloseFinishesGoroutines`, `DeniedPeersDropped`, `ReconnectAllowedAgain`,
`BootstrapReturns`, `SeederIsReached`, `GoroutinesEnd`, `EverySendReturns`,
`CloseEndsGoroutines`, `CacheCatchesUp`.

## 5. Findings and observations

### Findings

Where a comment of the code says more than the code does. Each has a run that
expects TLC to report the violation; what the code does keep is stated by a
property of a passing run.

- *Closing the load balancer.* `outgoingChannelLoadBalancer.go:157`: "Close finishes
  all started go routines in this instance". A forwarding goroutine sends on
  `mainChan` without a select (line 70) and stays blocked once the collector has ended
  (`balancer_close`). What is left: the goroutines without a message end
  (`CloseFinishesGoroutines`). `Messenger` takes the possibility into account: the
  goroutines of the load balancer are the one exception of `CloseEndsGoroutines`,
  next to the watchers.
- *Unregistering all processors.* `messagesHandler.go:479`:
  "UnregisterAllMessageProcessors will unregister all message processors for topics".
  `UnregisterMessageProcessor` leaves the key of a topic whose last processor is gone
  (line 471); the call fails at it and leaves the topics it has not visited
  (`unregister_all`). What is left: nothing else makes it incomplete
  (`UnregisterAllIsComplete`).
- *The interval of timestamps.* `messagesHandler.go:424-425`: "the message time stamp
  should be in the interval
  (now-pubsubTimeCacheDuration+acceptMessagesInAdvanceDuration, now+acceptMessagesInAdvanceDuration)".
  The lower bound in the code (line 434) is now-pubsubTimeCacheDuration
  (`timestamp_interval`). What is left: a message written in the past is processed
  once, one from the future at most twice (`PastMessagesProcessedOnce`,
  `ProcessedAtMostTwice`).
- *Removing a preferred peer.* `peersHolder.go:157`: "Remove will remove the provided
  peer ID from the inner members". It cuts the list at the index remembered when the
  peer was added and does not adjust those behind it (line 225), so that a later
  removal cuts out another peer, or panics (`holder_remove`). What is left:
  `HolderInv`, section 4.

### Observations

Met while modelling, without a document that says otherwise; the models contain
the behaviour, and the properties are stated so that they say exactly what is left:

- While the client closes, an acknowledge for a payload of the old connection can
  be written on the connection opened meanwhile, where the same counter belongs to
  another payload. `ServerAckMeansHandled` therefore ends with `client.Close`.
- The opener can open a connection between the closing of the wrapper and the
  closing of the client's safe closer, and the server can add one to its holder
  after `Close` took the snapshot. Nobody closes either.
- When creating the transceiver of a new connection fails (`server.go:96-99`) the
  server returns and keeps no reference: the connection stays open and in nobody's
  hands (`NewTransceiverFails`).
- `CanProcess` and `StartProcessing` are two calls, so concurrent broadcasts can
  pass the throttler's limit together.
- `sendAckIfNeeded` retries an acknowledge for ever on a broken connection, and `Listen`
  does not return meanwhile. On the client's side it does not reconnect
  (`ReconnectsUnlessHeld` excludes this), on the server's the dead connection stays
  in the holder (`DeadConnectionsRemoved` excludes this).
- A closing of the client's wrapper that fails leaves its pointer set, so that
  `OpenConnection` is refused until a closing succeeds; one that fails each time keeps
  the client disconnected.
- While no seeder answers, the monitor's loop stays in `ReconnectToNetwork` with the
  legacy discoverer, and denied peers are not dropped.
- The direct sender remembers a message for 120 seconds and accepts timestamps up to
  600 seconds old and 20 ahead, so that a direct message sent again and again by its
  originator is processed up to six times (`DirectReplaysAreBounded`).
- A direct message that arrives before its topic has a processor is remembered and
  its repetition refused for 120 seconds. `blacklistPid` does not prolong a running
  denial.
- When the cache of mutexes (10000 entries) drops one that is in use, two callers may
  write into one stream to the same peer (`StreamInv` excludes peers it happened to).
- `Bootstrap` of the optimized discoverer blocks for ever when the context is done.
- A node that is in its own list of seeders fails to start and leaves its host
  listening; a refused component leaves the goroutines of the earlier ones; the
  connection watchers of tries that ended in a bind error are never closed
  (`FailedConstructionLeftovers`, `CloseEndsGoroutines`).
- A caller's slow fetch of the peers on a topic can overwrite a newer list; the next
  refresh repairs it (`CacheCatchesUp`).
- A request to reconnect that meets a busy loop or comes too early is dropped;
  only another disconnection makes a new one.
- Places that intra shard validators do not use go to cross shard validators, so
  these are bounded by the sum of the two limits.

## 6. Not modelled

- Marshalling, generated protobuf code, signatures, hashing, configuration types, the
  message verifier and the websocket factory: without state of their own. Where their
  failure matters it is an outcome of the step that calls them.
- The accessors of the connections handler and of the messenger (addresses, peer
  info, number of peers), `WaitForConnections`, printing and metrics: they read.
- `SetThresholdMinConnectedPeers`; several libp2p connections to one peer in
  `ConnectionMonitor` (`PeersRating` and `DirectSender` do count connections).
- Aliasing of the slices returned by `peersHolder.Get`; the starting of the HTTP
  server; `stopDHT`, which only tests call; what the dht finds.
- `Disconnected` passes the id of a connection to `Remove` of the preferred peers
  holder; the models do not relate the two components, `PeersHolder` takes removals
  of held peers as a parameter.
- The listing of the ratings at trace level, which reads, and so reorders, the caches;
  lists with a peer twice in `GetTopRatedPeersFromList`.

## 7. Plan

Done, in this order: transceiver and its promise, host, broadcast pipeline,
registry, freshness, sharder and monitor, preferred peers, direct sender and
reception, rating, discovery, peers on channel and messenger; proofs of every
state invariant and of the refinement the runs check; runs for the comments the code
disagrees with.

Next, most important first:

1. What a step may never do, as action properties from the invariants above: a
   message that is finished stays so, the counter of the direct sender never goes
   back, a call told "acknowledged" stays acknowledged.
2. An abstract specification of the broadcast path (a set of messages, each
   delivered at most once, in order per channel) implemented by `BroadcastPipeline`.
3. `WaitForConnections` and the threshold of connected peers in `ConnectionMonitor`.
