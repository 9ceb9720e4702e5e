--------------------------- MODULE ContinuousKadDht ---------------------------
(***************************************************************************)
(* p2p/libp2p/discovery/continuousKadDhtDiscoverer.go, the legacy type.    *)
(* Bootstrap starts a goroutine that asks the dht for peers again and      *)
(* again; whoever needs the seeders (that goroutine, or the connection     *)
(* monitor through ReconnectToNetwork) starts another one that dials them  *)
(* in turn until one answers.                                              *)
(***************************************************************************)
EXTENDS SeederDial

CONSTANT MaxLookupFails     \* bound: rounds of the dht that end with ErrLookupFailure

ASSUME LookupAssumption == MaxLookupFails \in Nat

Requesters == {"bootstrap", "monitor"}

VARIABLES kadDHT,       \* "nil" or "running"
          boot,         \* the goroutine connectToInitialAndBootstrap and its follow-up
          monitor,      \* the connection monitor's call of ReconnectToNetwork
          tryer,        \* tryer[r]: the goroutine tryConnectToSeeder started for r
          startIndex,   \* startIndex[r]: the seeder it dials next, 1 when there is none
          lookupFails

ckddVars == <<kadDHT, boot, monitor, tryer, startIndex, lookupFails>>

CkddTypeOK ==
    /\ kadDHT \in {"nil", "running"}
    /\ boot \in {"none", "start", "await", "lookup", "reconnect", "sleep", "ended"}
    /\ monitor \in {"idle", "waiting"}
    /\ tryer \in [Requesters -> {"none", "dial", "pause", "done"}]
    /\ startIndex \in [Requesters -> {1} \cup 1 .. Len(InitialPeersList)]
    /\ lookupFails \in 0 .. MaxLookupFails

CkddInit ==
    /\ kadDHT = "nil" /\ boot = "none" /\ monitor = "idle"
    /\ tryer = [r \in Requesters |-> "none"] /\ startIndex = [r \in Requesters |-> 1]
    /\ lookupFails = 0

(* Bootstrap, under the mutex, with startDHT.                              *)
CkddBootstrap(c) ==
    /\ caller[c] = "idle"
    /\ IF kadDHT # "nil"
       THEN /\ caller' = [caller EXCEPT ![c] = "already"]
            /\ UNCHANGED <<createFails, kadDHT, boot>>
       ELSE \E ok \in BOOLEAN :
              /\ CreateKadDht(ok)
              /\ caller' = [caller EXCEPT ![c] = IF ok THEN "nil" ELSE "createErr"]
              /\ kadDHT' = IF ok THEN "running" ELSE "nil"
              /\ boot' = IF ok THEN "start" ELSE boot
    /\ UNCHANGED <<connected, everConnected, refusals, drops, ctxDone, monitor, tryer, startIndex,
                   lookupFails>>

(* connectToOnePeerFromInitialPeersList: without seeders the channel is    *)
(* ready at once.                                                          *)
ConnectToOnePeer(r) ==
    /\ tryer' = [tryer EXCEPT ![r] = IF InitialPeersList = <<>> THEN "done" ELSE "dial"]
    /\ startIndex' = [startIndex EXCEPT ![r] = 1]

ConnectToInitialAndBootstrap ==
    /\ boot = "start" /\ boot' = "await" /\ ConnectToOnePeer("bootstrap")
    /\ UNCHANGED <<dialVars, kadDHT, monitor, lookupFails>>

(* tryConnectToSeeder: a dial, past the host wrapper; after a failure the  *)
(* next seeder of the list ...                                             *)
TryConnectToSeeder(r, ok) ==
    /\ tryer[r] = "dial" /\ Dial(InitialPeersList[startIndex[r]], ok)
    /\ tryer' = [tryer EXCEPT ![r] = IF ok THEN "done" ELSE "pause"]
    /\ startIndex' = [startIndex EXCEPT ![r] = IF ok THEN 1 ELSE (@ % Len(InitialPeersList)) + 1]
    /\ UNCHANGED <<drops, createFails, ctxDone, caller, kadDHT, boot, monitor, lookupFails>>
(* Mutant: the pause ends in another dial, whatever the context says.      *)
TryerPauseBlind(r) ==
    /\ tryer[r] = "pause" /\ tryer' = [tryer EXCEPT ![r] = "dial"]
    /\ UNCHANGED <<dialVars, kadDHT, boot, monitor, startIndex, lookupFails>>

(* ... after a pause, unless the context is done.                          *)
TryerPause(r) ==
    /\ tryer[r] = "pause"
    /\ tryer' = [tryer EXCEPT ![r] = IF ctxDone THEN "none" ELSE "dial"]
    /\ startIndex' = [startIndex EXCEPT ![r] = IF ctxDone THEN 1 ELSE @]
    /\ UNCHANGED <<dialVars, kadDHT, boot, monitor, lookupFails>>

(* The goroutine waits for a seeder, or for the end.                       *)
BootAwait ==
    /\ boot = "await"
    /\ \/ tryer["bootstrap"] = "done" /\ boot' = "lookup" /\ tryer' = [tryer EXCEPT !["bootstrap"] = "none"]
       \/ ctxDone /\ boot' = "ended" /\ UNCHANGED tryer
    /\ UNCHANGED <<dialVars, kadDHT, monitor, startIndex, lookupFails>>

(* bootstrap: a round of the dht, which may find nobody to ask.            *)
BootLookup ==
    /\ boot = "lookup"
    /\ \/ boot' = "sleep" /\ UNCHANGED <<lookupFails, tryer, startIndex>>
       \/ /\ lookupFails < MaxLookupFails /\ lookupFails' = lookupFails + 1
          /\ boot' = "reconnect" /\ ConnectToOnePeer("bootstrap")
    /\ UNCHANGED <<dialVars, kadDHT, monitor>>
BootReconnect ==
    /\ boot = "reconnect" /\ (tryer["bootstrap"] = "done" \/ ctxDone)
    /\ boot' = "sleep"
    /\ tryer' = IF tryer["bootstrap"] = "done" THEN [tryer EXCEPT !["bootstrap"] = "none"] ELSE tryer
    /\ UNCHANGED <<dialVars, kadDHT, monitor, startIndex, lookupFails>>
BootSleep ==
    /\ boot = "sleep" /\ boot' = IF ctxDone THEN "ended" ELSE "lookup"
    /\ UNCHANGED <<dialVars, kadDHT, monitor, tryer, startIndex, lookupFails>>

(* ReconnectToNetwork, called by the connection monitor's loop, which      *)
(* waits for it; that loop is stopped with the messenger.                  *)
CkddReconnectToNetwork ==
    /\ monitor = "idle" /\ ~ctxDone /\ tryer["monitor"] = "none"
    /\ monitor' = "waiting" /\ ConnectToOnePeer("monitor")
    /\ UNCHANGED <<dialVars, kadDHT, boot, lookupFails>>
ReconnectReturns ==
    /\ monitor = "waiting" /\ (tryer["monitor"] = "done" \/ ctxDone)
    /\ monitor' = "idle"
    /\ tryer' = IF tryer["monitor"] = "done" THEN [tryer EXCEPT !["monitor"] = "none"] ELSE tryer
    /\ UNCHANGED <<dialVars, kadDHT, boot, startIndex, lookupFails>>

CkddBootStep == ConnectToInitialAndBootstrap \/ BootAwait \/ BootLookup \/ BootReconnect \/ BootSleep
TryerStep(r) == TryerPause(r) \/ \E ok \in BOOLEAN : TryConnectToSeeder(r, ok)
CkddNext ==
    \/ \E c \in BootstrapCallers : CkddBootstrap(c)
    \/ CkddBootStep
    \/ \E r \in Requesters : TryerStep(r)
    \/ CkddReconnectToNetwork \/ ReconnectReturns
=============================================================================
