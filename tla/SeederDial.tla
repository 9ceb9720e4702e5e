------------------------------ MODULE SeederDial ------------------------------
(***************************************************************************)
(* What the two kad dht discoverers share: the seeders of the initial peer *)
(* list, the connections to them, the context they run in and the callers  *)
(* of Bootstrap (p2p/libp2p/discovery, hostWithConnectionManagement.go).   *)
(* The connection monitor closes what the lists sharder evicts when a      *)
(* connection opens; the sharder knows the seeders as seeders.             *)
(***************************************************************************)
EXTENDS Integers, Sequences, FiniteSets

CONSTANTS InitialPeersList,     \* the seeders' addresses, in order
          SeederDistance,       \* SeederDistance[s]: distance of seeder s to the node
          MaxSeeders,           \* the sharder's limit of seeders
          Unreachable,          \* seeders that can never be dialled: down, or no valid address
          MaxRefusals,          \* bound: dials of the other seeders that fail
          MaxDrops,             \* bound: connections that seeders open, or that are lost
          MaxCreateFails,       \* bound: dht.New fails
          BootstrapCallers

Seeders == {InitialPeersList[i] : i \in DOMAIN InitialPeersList}

ASSUME SeedersAssumption == /\ IsFiniteSet(Seeders) /\ SeederDistance \in [Seeders -> Nat]
                            /\ MaxSeeders \in Nat
                            /\ InitialPeersList \in Seq(Seeders)
ASSUME BoundsAssumption == MaxRefusals \in Nat /\ MaxDrops \in Nat /\ MaxCreateFails \in Nat

LS == INSTANCE ListsSharder WITH
        Peers <- Seeders, Distance <- SeederDistance, MaxSeeders <- MaxSeeders,
        MaxIntraShardValidators <- 1, MaxCrossShardValidators <- 1,
        MaxIntraShardObservers <- 1, MaxCrossShardObservers <- 1, MaxPeerCount <- MaxSeeders + 5

VARIABLES connected,        \* seeders the host is connected to
          everConnected,    \* history: the node was connected to a seeder
          refusals, drops, createFails,
          ctxDone,          \* the context of the discoverer, the messenger's, is cancelled
          caller            \* what the callers of Bootstrap are doing, or got

dialVars == <<connected, everConnected, refusals, drops, createFails, ctxDone, caller>>

DialTypeOK ==
    /\ connected \in SUBSET Seeders /\ everConnected \in BOOLEAN
    /\ refusals \in 0 .. MaxRefusals /\ drops \in 0 .. MaxDrops /\ createFails \in 0 .. MaxCreateFails
    /\ ctxDone \in BOOLEAN
    /\ caller \in [BootstrapCallers -> {"idle", "sending", "waiting", "nil", "already",
                                        "createErr", "ctxErr"}]

DialInit ==
    /\ connected = {} /\ everConnected = FALSE
    /\ refusals = 0 /\ drops = 0 /\ createFails = 0
    /\ ctxDone = FALSE
    /\ caller = [c \in BootstrapCallers |-> "idle"]

(* ComputeEvictionList when all the peers it is asked about are seeders.   *)
EvictedSeeders(pids) ==
    {gone \in SUBSET pids :
       LS!Evict(pids, LS!ComputeUsedAndSpare(Cardinality(pids), MaxSeeders).used, gone)}

(* canConnectToPeer: the sharder would not evict the peer at once.  The    *)
(* dial is a later step: the peers may change in between.                  *)
CanConnectToPeer(s) == \E gone \in EvictedSeeders(connected \cup {s}) : s \notin gone

(* A connection opens; the connection monitor's Connected evicts.          *)
Opened(s) ==
    /\ \E gone \in EvictedSeeders(connected \cup {s}) :
          connected' = (connected \cup {s}) \ gone
    /\ everConnected' = TRUE
    /\ UNCHANGED refusals

(* The dial succeeds, ok = TRUE, or fails: a context that is done fails it *)
(* too.  An open connection is used again.                                 *)
Dial(s, ok) ==
    \/ ok /\ s \in connected /\ UNCHANGED <<connected, everConnected, refusals>>
    \/ ok /\ s \notin connected \cup Unreachable /\ ~ctxDone /\ Opened(s)
    \/ /\ ~ok /\ s \notin connected /\ (s \in Unreachable \/ ctxDone)
       /\ UNCHANGED <<connected, everConnected, refusals>>
    \/ /\ ~ok /\ s \notin connected \cup Unreachable /\ ~ctxDone /\ refusals < MaxRefusals
       /\ refusals' = refusals + 1 /\ UNCHANGED <<connected, everConnected>>

(* dht.New.                                                                *)
CreateKadDht(ok) ==
    \/ ok /\ UNCHANGED createFails
    \/ ~ok /\ createFails < MaxCreateFails /\ createFails' = createFails + 1

(* A connection to a seeder is lost, or a seeder opens one to the node.    *)
ConnectionLost(s) ==
    /\ s \in connected /\ drops < MaxDrops
    /\ connected' = connected \ {s} /\ drops' = drops + 1
    /\ UNCHANGED <<everConnected, refusals, createFails, ctxDone, caller>>
SeederConnects(s) ==
    /\ s \notin connected /\ drops < MaxDrops /\ Opened(s) /\ drops' = drops + 1
    /\ UNCHANGED <<createFails, ctxDone, caller>>

(* The messenger is closed.                                                *)
CancelContext ==
    /\ ~ctxDone /\ ctxDone' = TRUE
    /\ UNCHANGED <<connected, everConnected, refusals, drops, createFails, caller>>
=============================================================================
