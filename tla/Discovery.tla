------------------------------ MODULE Discovery ------------------------------
(***************************************************************************)
(* A node's peer discoverer, of the type the configuration names           *)
(* (p2p/libp2p/discovery/factory/peerDiscovererFactory.go), with the       *)
(* callers of Bootstrap and the connection monitor as its users.           *)
(***************************************************************************)
EXTENDS OptimizedKadDht, ContinuousKadDht

CONSTANT Types          \* the types of the configurations looked at

VARIABLE type           \* KadDhtPeerDiscovery.Type, "nil" when it is not enabled

discoveryVars == <<type, dialVars, okddVars, ckddVars>>

DiscoveryTypeOK ==
    type \in Types /\ DialTypeOK /\ OkddTypeOK /\ CkddTypeOK

(* NewPeerDiscoverers and createKadDhtDiscoverer; without kad dht          *)
(* discovery there is a nil discoverer, which does nothing.                *)
NewPeerDiscoverers ==
    /\ type \in Types \cap {"legacy", "optimized", "nil"}
    /\ DialInit /\ OkddInit /\ CkddInit

Environment ==
    /\ type # "nil"
    /\ (\E s \in Seeders : ConnectionLost(s) \/ SeederConnects(s)) \/ CancelContext
    /\ UNCHANGED <<type, okddVars, ckddVars>>
Optimized(A) == type = "optimized" /\ A /\ UNCHANGED <<type, ckddVars>>
Legacy(A) == type = "legacy" /\ A /\ UNCHANGED <<type, okddVars>>

DiscoveryNext == Environment \/ Optimized(OkddNext) \/ Legacy(CkddNext)

(* The goroutines run and the timers fire.  In the optimized loop's select *)
(* a sender that waits, a timer that fired and the context that is done    *)
(* are chosen at random, so none is passed over for ever.                  *)
DiscoveryFairness ==
    /\ WF_discoveryVars(Optimized(OkddLoopStep))
    /\ SF_discoveryVars(Optimized(SeedersReconnectTimer))
    /\ SF_discoveryVars(Optimized(OkddLoopEnds))
    /\ \A c \in BootstrapCallers : SF_discoveryVars(Optimized(InitRequested(c)))
    /\ WF_discoveryVars(Legacy(CkddBootStep)) /\ WF_discoveryVars(Legacy(ReconnectReturns))
    /\ \A r \in Requesters : WF_discoveryVars(Legacy(TryerStep(r)))
DiscoverySpec == NewPeerDiscoverers /\ [][DiscoveryNext]_discoveryVars /\ DiscoveryFairness

-----------------------------------------------------------------------------
(* Of all the calls of Bootstrap at most one succeeds, whatever their      *)
(* order and the failures of dht.New, and a caller is told that the        *)
(* discovery is already started only when another call started it.         *)
OneBootstrapSucceeds ==
    /\ \A c, d \in BootstrapCallers : caller[c] = "nil" /\ caller[d] = "nil" => c = d
    /\ (\E c \in BootstrapCallers : caller[c] = "already") =>
          \E d \in BootstrapCallers : caller[d] = "nil"

(* The optimized discoverer's long interval is used only at the start,     *)
(* after a round in which a seeder answered, or when there is nothing to   *)
(* wait for (createChTimeSeedersReconnect).                                *)
SlowTimerMeansSeeder ==
    timer = "slow" => lastRound # "missed" \/ ctxDone \/ InitialPeersList = <<>>

(* The legacy discoverer asks the dht for peers only after a seeder was    *)
(* reached (connectToInitialAndBootstrap).                                 *)
LookupOnlyAfterSeeder ==
    boot \in {"lookup", "reconnect", "sleep"} => everConnected \/ InitialPeersList = <<>>

(* Seeders come first in either discoverer, which is well typed: no index  *)
(* leaves the list of seeders.                                             *)
DiscoveryInv == DiscoveryTypeOK /\ SlowTimerMeansSeeder /\ LookupOnlyAfterSeeder

(* A call of Bootstrap returns, unless the context was cancelled: the      *)
(* optimized discoverer's process loop has then ended and leaves the       *)
(* caller waiting.                                                         *)
BootstrapReturns ==
    \A c \in BootstrapCallers :
        caller[c] \in {"sending", "waiting"} ~> caller[c] \notin {"sending", "waiting"} \/ ctxDone

(* A discovery that is started and has lost, or never had, its seeders     *)
(* gets to one of them in the end: the optimized one by its timer; the     *)
(* legacy one at its start, and again for the monitor, whose call returns. *)
(* A request to reconnect that the optimized one's busy process loop       *)
(* missed is followed by a round over the seeders all the same.            *)
SeederIsReached ==
    /\ status = "initialized" /\ connected = {} ~> connected # {} \/ ctxDone
    /\ boot = "await" ~> everConnected \/ ctxDone
    /\ monitor = "waiting" ~> monitor = "idle"
    /\ unserved ~> ~unserved \/ ctxDone

(* When the context is done all the goroutines of the discoverer end and   *)
(* the monitor's call returns.                                             *)
GoroutinesEnd ==
    ctxDone ~> /\ type = "optimized" => loop = "ended"
               /\ type = "legacy" => /\ boot \in {"none", "ended"} /\ monitor = "idle"
                                     /\ \A r \in Requesters : tryer[r] \in {"none", "done"}
=============================================================================
