-------------------------- MODULE ConnectionMonitor --------------------------
(***************************************************************************)
(* The connection monitor (libp2pConnectionMonitorSimple.go): it closes    *)
(* the connections the sharder does not want and those of denied peers,    *)
(* and asks for a reconnection when there are too few.                     *)
(*                                                                         *)
(* libp2p delivers notifications in goroutines of their own: Connected     *)
(* runs concurrently for different peers, each run with its own snapshot   *)
(* of the peers, while the main loop sweeps and reconnects.                *)
(***************************************************************************)
EXTENDS ListsSharder

CONSTANTS InitiallyConnected,   \* peers connected before, all their notifications handled
          Comers, Leavers,      \* peers that may connect, and disconnect, by themselves
          InitialKinds,         \* how the peers may be classified at first
          Learnable,            \* peers whose kind the resolver may change
          Deniable,             \* peers the denial evaluator may deny
          SharderTypes,         \* the sharders looked at
          Threshold,            \* thresholdMinConnectedPeers
          MaxGone               \* bound: notifications Disconnected waiting when a peer connects

ASSUME ComersAssumption == /\ InitiallyConnected \subseteq Peers
                           /\ Comers \subseteq Peers /\ Leavers \subseteq Peers
                           /\ Learnable \subseteq Peers /\ Deniable \subseteq Peers
                           /\ InitialKinds \subseteq [Peers -> Kinds \cup {Unlisted}]
                           /\ SharderTypes \subseteq {"ListsSharder", "OneListSharder"}
                           /\ Threshold \in Nat /\ MaxGone \in Nat \ {0}

VARIABLES
    sharder,      \* the type of the sharder the monitor was given
    connected,    \* network.Peers()
    kind,         \* kind[p]: how splitPeerIds classifies p
    denied,       \* peers for which IsDenied answers true
    notified,     \* notified[p]: where Connected for p's connection is
    allPeers,     \* allPeers[p]: the snapshot that run of Connected has taken
    evicted,      \* evicted[p]: the part of its eviction list not closed yet
    gone,         \* notifications Disconnected still to be delivered
    loop,         \* processLoop: "select", "reconnect", "sweep"
    toSweep,      \* the part of the sweep's snapshot not visited yet
    canReconnect,
    attemptTimer  \* timerBetweenReconnectAttempts is running

handlerVars == <<notified, allPeers, evicted>>
loopVars == <<loop, toSweep, canReconnect, attemptTimer>>
vars == <<sharder, connected, kind, denied, handlerVars, gone, loopVars>>

(* What the sharder may answer.                                            *)
ListsOf(pids) == IF sharder = "OneListSharder" THEN OneListEvictionLists(pids)
                 ELSE EvictionLists(pids, kind)

Init ==
    /\ connected = InitiallyConnected
    /\ kind \in InitialKinds
    /\ denied = {}
    /\ sharder \in SharderTypes
    /\ {} \in ListsOf(connected)
    /\ notified = [p \in Peers |-> "no"]
    /\ allPeers = [p \in Peers |-> {}]
    /\ evicted = [p \in Peers |-> {}]
    /\ gone = 0
    /\ loop = "select" /\ toSweep = {} /\ canReconnect = TRUE /\ attemptTimer = TRUE

(* The network closes the connection of p, if there is one, and will       *)
(* notify of it.                                                           *)
ClosePeer(p) == /\ connected' = connected \ {p}
                /\ gone' = IF p \in connected THEN gone + 1 ELSE gone

(***************************************************************************)
(* The network, the resolver and the denial evaluator.                     *)
(***************************************************************************)
Connect(p) ==
    /\ p \in Comers \ connected /\ gone < MaxGone
    /\ notified[p] = "no"
    /\ connected' = connected \cup {p}
    /\ notified' = [notified EXCEPT ![p] = "new"]
    /\ UNCHANGED <<sharder, kind, denied, allPeers, evicted, gone, loopVars>>
Disconnect(p) ==
    /\ p \in connected \cap Leavers
    /\ ClosePeer(p)
    /\ UNCHANGED <<sharder, kind, denied, handlerVars, loopVars>>
(* Followed only for the sharder that asks the resolver.                   *)
Learn(p, k) ==
    /\ sharder = "ListsSharder"
    /\ p \in Learnable /\ kind[p] = "unknown" /\ k # "unknown"
    /\ kind' = [kind EXCEPT ![p] = k]
    /\ UNCHANGED <<sharder, connected, denied, handlerVars, gone, loopVars>>
Deny(p) ==
    /\ p \in Deniable
    /\ denied' = IF p \in denied THEN denied \ {p} ELSE denied \cup {p}
    /\ UNCHANGED <<sharder, connected, kind, handlerVars, gone, loopVars>>
-----------------------------------------------------------------------------
(***************************************************************************)
(* Connected                                                               *)
(***************************************************************************)
DropDenied(p) ==
    /\ notified[p] = "new" /\ p \in denied
    /\ notified' = [notified EXCEPT ![p] = "no"]
    /\ ClosePeer(p)
    /\ UNCHANGED <<sharder, kind, denied, allPeers, evicted, loopVars>>
GetPeers(p) ==
    /\ notified[p] = "new" /\ p \notin denied
    /\ notified' = [notified EXCEPT ![p] = "compute"]
    /\ allPeers' = [allPeers EXCEPT ![p] = connected]
    /\ UNCHANGED <<sharder, connected, kind, denied, evicted, gone, loopVars>>
ComputeEvictionList(p) ==
    /\ notified[p] = "compute"
    /\ notified' = [notified EXCEPT ![p] = "close"]
    /\ \E list \in ListsOf(allPeers[p]) : evicted' = [evicted EXCEPT ![p] = list]
    /\ allPeers' = [allPeers EXCEPT ![p] = {}]
    /\ UNCHANGED <<sharder, connected, kind, denied, gone, loopVars>>
CloseEvicted(p, e) ==
    /\ notified[p] = "close" /\ e \in evicted[p]
    /\ ClosePeer(e)
    /\ evicted' = [evicted EXCEPT ![p] = @ \ {e}]
    /\ UNCHANGED <<sharder, kind, denied, notified, allPeers, loopVars>>
ConnectedReturns(p) ==
    /\ notified[p] = "close" /\ evicted[p] = {}
    /\ notified' = [notified EXCEPT ![p] = "no"]
    /\ UNCHANGED <<sharder, connected, kind, denied, allPeers, evicted, gone, loopVars>>
-----------------------------------------------------------------------------
(* Disconnected: with too few peers a reconnection is requested.  The      *)
(* request is dropped unless the main loop is at its select, and refused   *)
(* by the loop while the last attempt is recent.                           *)
Disconnected ==
    /\ gone > 0
    /\ gone' = gone - 1
    /\ loop' = IF Cardinality(connected) < Threshold /\ loop = "select" /\ canReconnect
               THEN "reconnect" ELSE loop
    /\ UNCHANGED <<sharder, connected, kind, denied, handlerVars, toSweep, canReconnect,
                   attemptTimer>>

(* Mutant: the timer is not started again.                                 *)
ReconnectWithoutTimer ==
    /\ loop = "reconnect" /\ loop' = "select"
    /\ canReconnect' = FALSE
    /\ UNCHANGED <<sharder, connected, kind, denied, handlerVars, gone, toSweep, attemptTimer>>

(* The loop calls the reconnecters itself and waits for them: the legacy   *)
(* discoverer returns when a seeder has answered, whenever that is.        *)
ReconnectToNetwork ==
    /\ loop = "reconnect" /\ loop' = "select"
    /\ canReconnect' = FALSE /\ attemptTimer' = TRUE
    /\ UNCHANGED <<sharder, connected, kind, denied, handlerVars, gone, toSweep>>
AttemptTimer ==
    /\ loop = "select" /\ attemptTimer
    /\ canReconnect' = TRUE /\ attemptTimer' = FALSE
    /\ UNCHANGED <<sharder, connected, kind, denied, handlerVars, gone, loop, toSweep>>

(* checkConnectionsBlocking.  Of its snapshot only the peers that can be   *)
(* denied matter.                                                          *)
StartSweep ==
    /\ loop = "select" /\ loop' = "sweep"
    /\ toSweep' = connected \cap Deniable
    /\ UNCHANGED <<sharder, connected, kind, denied, handlerVars, gone, canReconnect, attemptTimer>>
(* Mutant: only peers with a run of Connected still going are looked at.   *)
SweepNewOnly(p) ==
    /\ loop = "sweep" /\ p \in toSweep
    /\ IF p \in denied /\ notified[p] # "no" THEN ClosePeer(p) ELSE UNCHANGED <<connected, gone>>
    /\ toSweep' = toSweep \ {p}
    /\ UNCHANGED <<sharder, kind, denied, handlerVars, loop, canReconnect, attemptTimer>>
SweepPeer(p) ==
    /\ loop = "sweep" /\ p \in toSweep
    /\ IF p \in denied THEN ClosePeer(p) ELSE UNCHANGED <<connected, gone>>
    /\ toSweep' = toSweep \ {p}
    /\ UNCHANGED <<sharder, kind, denied, handlerVars, loop, canReconnect, attemptTimer>>
SweepEnds ==
    /\ loop = "sweep" /\ toSweep = {} /\ loop' = "select"
    /\ UNCHANGED <<sharder, connected, kind, denied, handlerVars, gone, toSweep, canReconnect,
                   attemptTimer>>

Notification(p) == \/ DropDenied(p) \/ GetPeers(p) \/ ComputeEvictionList(p)
                   \/ ConnectedReturns(p) \/ \E e \in Peers : CloseEvicted(p, e)
Loop == AttemptTimer \/ StartSweep \/ SweepEnds \/ \E p \in Peers : SweepPeer(p)

Next ==
    \/ \E p \in Peers : \/ Connect(p) \/ Disconnect(p) \/ Deny(p) \/ Notification(p)
                        \/ \E k \in Kinds \cup {Unlisted} : Learn(p, k)
    \/ Disconnected
    \/ ReconnectToNetwork
    \/ Loop

(* The main loop keeps running, but for the reconnecters it waits for; the *)
(* timers of its select fire again and again, so neither is left out for   *)
(* ever.                                                                   *)
Fairness == WF_vars(Loop) /\ SF_vars(StartSweep) /\ SF_vars(AttemptTimer)

Spec == Init /\ [][Next]_vars
FairSpec == Spec /\ Fairness
-----------------------------------------------------------------------------
TypeOK ==
    /\ sharder \in {"ListsSharder", "OneListSharder"}
    /\ connected \subseteq Peers
    /\ kind \in [Peers -> Kinds \cup {Unlisted}]
    /\ denied \subseteq Deniable
    /\ notified \in [Peers -> {"no", "new", "compute", "close"}]
    /\ allPeers \in [Peers -> SUBSET Peers]
    /\ evicted \in [Peers -> SUBSET Peers]
    /\ gone \in Nat
    /\ loop \in {"select", "reconnect", "sweep"}
    /\ toSweep \subseteq Peers
    /\ canReconnect \in BOOLEAN /\ attemptTimer \in BOOLEAN

Quiet == \A p \in Peers : notified[p] = "no"

(* Once no run of Connected is left, the peers that count are within the   *)
(* maximum: runs with outdated snapshots, running side by side with        *)
(* connections that come and go and with a resolver that changes its mind, *)
(* together evict enough, with either sharder (Connected).                 *)
SettledWithinMaximum ==
    Quiet => Cardinality({p \in connected : sharder = "OneListSharder" \/ kind[p] # Unlisted})
               <= MaxPeerCount

(* The state is well typed and the settled node within the maximum.        *)
MonitorInv == TypeOK /\ SettledWithinMaximum

(* No call of ReconnectToNetwork lasts for ever.  The legacy discoverer's  *)
(* lasts while no seeder answers (connectToOnePeerFromInitialPeersList).   *)
ReconnectCallsReturn == []<>(loop # "reconnect")

(* A peer that is denied while it is connected loses its connection, or    *)
(* the denial is withdrawn (checkConnectionsBlocking) - by a main loop     *)
(* that does not wait for a seeder for ever; one that does sweeps no more. *)
DeniedPeersDropped ==
    ReconnectCallsReturn =>
      \A p \in Peers : (p \in connected \cap denied) ~> (p \notin connected \cap denied)

(* An attempt to reconnect only postpones the next one: the loop comes     *)
(* back to its select and allows another attempt after the pause, however  *)
(* the timer, the sweeps and further requests interleave, if the attempts  *)
(* themselves end (processLoop).                                           *)
ReconnectAllowedAgain ==
    ReconnectCallsReturn => ((loop = "reconnect") ~> (loop = "select" /\ canReconnect))
=============================================================================
