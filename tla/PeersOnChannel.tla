---------------------------- MODULE PeersOnChannel ----------------------------
(***************************************************************************)
(* The cache of connected peers on topics, p2p/libp2p/peersOnChannel.go.   *)
(* A list of peers is represented by its version: truth[t] counts the      *)
(* changes of what the pub/sub's ListPeers returns for topic t.  A fetch   *)
(* and the update of the cache are two steps, in the callers of            *)
(* ConnectedPeersOnChannel and in the refresh goroutine.                   *)
(***************************************************************************)
EXTENDS Integers

CONSTANTS Topics, Callers,
          TtlInterval,      \* in ticks; lists older than this are refreshed
          MaxChanges        \* bound: changes of the peers of one topic

ASSUME TtlAssumption == TtlInterval \in Nat \ {0} /\ MaxChanges \in Nat

None == -1                  \* no list: the nil value of the map
Loop == "loop"              \* the goroutine refreshPeersOnAllKnownTopics
NoTopic == "none"
Idle == [topic |-> NoTopic, list |-> None]

ASSUME NamesAssumption == NoTopic \notin Topics /\ Loop \notin Callers

VARIABLES truth,        \* external: version of the peers subscribed to the topic
          peers,        \* peers[topic]: the cached version, or None
          age,          \* time since lastUpdated[topic], stopping at the first tick after the ttl
          fetching,     \* the refreshPeersOnTopic in progress of every goroutine
          toRefresh     \* listTopicsToBeRefreshed

pocVars == <<truth, peers, age, fetching, toRefresh>>

Versions == 0 .. MaxChanges

PocTypeOK ==
    /\ truth \in [Topics -> Versions]
    /\ peers \in [Topics -> Versions \cup {None}]
    /\ age \in [Topics -> 0 .. TtlInterval + 1]
    /\ fetching \in [Callers \cup {Loop} ->
                      [topic : Topics \cup {NoTopic}, list : Versions \cup {None}]]
    /\ toRefresh \in SUBSET Topics

NewPeersOnChannel ==
    /\ truth = [t \in Topics |-> 0]
    /\ peers = [t \in Topics |-> None]
    /\ age = [t \in Topics |-> 0]
    /\ fetching = [g \in Callers \cup {Loop} |-> Idle]
    /\ toRefresh = {}

(* A caller finds no list for the topic and starts a fetch; with a list,   *)
(* ConnectedPeersOnChannel returns it and changes nothing.                 *)
ConnectedPeersOnChannel(c, t) ==
    /\ fetching[c] = Idle
    /\ peers[t] = None
    /\ fetching' = [fetching EXCEPT ![c] = [topic |-> t, list |-> None]]
    /\ UNCHANGED <<truth, peers, age, toRefresh>>

(* refreshPeersOnTopic, first half: fetchPeersHandler(topic).              *)
FetchPeers(g) ==
    /\ fetching[g].topic # NoTopic /\ fetching[g].list = None
    /\ fetching' = [fetching EXCEPT ![g].list = truth[fetching[g].topic]]
    /\ UNCHANGED <<truth, peers, age, toRefresh>>

(* refreshPeersOnTopic, second half: updateConnectedPeersOnTopic.          *)
UpdateConnectedPeersOnTopic(g) ==
    /\ fetching[g].list # None
    /\ peers' = [peers EXCEPT ![fetching[g].topic] = fetching[g].list]
    /\ age' = [age EXCEPT ![fetching[g].topic] = 0]
    /\ fetching' = [fetching EXCEPT ![g] = Idle]
    /\ UNCHANGED <<truth, toRefresh>>

(* Mutant: topics whose list is empty (version 0) are left out.            *)
BuildTopicListNonEmpty ==
    /\ fetching[Loop] = Idle /\ toRefresh = {}
    /\ toRefresh' = {t \in Topics : peers[t] > 0 /\ age[t] > TtlInterval}
    /\ UNCHANGED <<truth, peers, age, fetching>>

(* The refresh goroutine wakes up and builds its list of topics.           *)
BuildTopicList ==
    /\ fetching[Loop] = Idle /\ toRefresh = {}
    /\ toRefresh' = {t \in Topics : peers[t] # None /\ age[t] > TtlInterval}
    /\ UNCHANGED <<truth, peers, age, fetching>>

(* ... and refreshes them one after the other.                             *)
RefreshNext(t) ==
    /\ fetching[Loop] = Idle /\ t \in toRefresh
    /\ fetching' = [fetching EXCEPT ![Loop] = [topic |-> t, list |-> None]]
    /\ toRefresh' = toRefresh \ {t}
    /\ UNCHANGED <<truth, peers, age>>

(* Time passes for the cached lists.                                       *)
PocTick ==
    /\ \E t \in Topics : peers[t] # None /\ age[t] <= TtlInterval
    /\ age' = [t \in Topics |->
                 IF peers[t] # None /\ age[t] <= TtlInterval THEN age[t] + 1 ELSE age[t]]
    /\ UNCHANGED <<truth, peers, fetching, toRefresh>>

(* A peer joins or leaves the topic.                                       *)
PeersChange(t) ==
    /\ truth[t] < MaxChanges
    /\ truth' = [truth EXCEPT ![t] = @ + 1]
    /\ UNCHANGED <<peers, age, fetching, toRefresh>>
=============================================================================
