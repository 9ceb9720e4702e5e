--------------------------- MODULE OptimizedKadDht ---------------------------
(***************************************************************************)
(* p2p/libp2p/discovery/optimizedKadDhtDiscoverer.go: one goroutine, the   *)
(* process loop, initialises the dht when Bootstrap asks for it, keeps the *)
(* connection to the seeders and looks for peers.  Its channels have no    *)
(* buffer: a send and its reception are one step.                          *)
(***************************************************************************)
EXTENDS SeederDial

VARIABLES status,       \* "not initialized" or "initialized"
          loop,         \* where processLoop is
          answer,       \* the result of init that waits in processInit
          seeder,       \* the index tryToReconnectAtLeastToASeeder has reached
          reached,      \* connectedToOneSeeder
          afterRound,   \* where the loop goes after the round over the seeders
          timer,        \* the interval chTimeSeedersReconnect was set to
          lastRound,    \* history: the last round found a seeder, or not
          unserved      \* history: ReconnectToNetwork was dropped and no round began since

okddVars == <<status, loop, answer, seeder, reached, afterRound, timer, lastRound, unserved>>

OkddTypeOK ==
    /\ status \in {"not initialized", "initialized"}
    /\ loop \in {"select", "init", "answer", "round", "dial", "find", "ended"}
    /\ answer \in {"nil", "already", "createErr"}
    /\ seeder \in {1} \cup 1 .. Len(InitialPeersList) /\ reached \in BOOLEAN
    /\ loop = "dial" => seeder \in 1 .. Len(InitialPeersList)
    /\ afterRound \in {"select", "find"}
    /\ timer \in {"slow", "fast"} /\ lastRound \in {"none", "found", "missed"}
    /\ unserved \in BOOLEAN

OkddInit ==
    /\ status = "not initialized" /\ loop = "select" /\ answer = "nil"
    /\ seeder = 1 /\ reached = FALSE /\ afterRound = "select"
    /\ timer = "slow" /\ lastRound = "none" /\ unserved = FALSE

CreateChTimeSeedersReconnect(isConnectedToSeeders) ==
    timer' = IF isConnectedToSeeders THEN "slow" ELSE "fast"

(* Bootstrap: the caller sends on chanInit ...                             *)
OkddBootstrap(c) ==
    /\ caller[c] = "idle" /\ caller' = [caller EXCEPT ![c] = "sending"]
    /\ UNCHANGED <<connected, everConnected, refusals, drops, createFails, ctxDone, okddVars>>
(* ... the loop receives, the caller waits for the error.                  *)
InitRequested(c) ==
    /\ loop = "select" /\ caller[c] = "sending"
    /\ loop' = "init" /\ caller' = [caller EXCEPT ![c] = "waiting"]
    /\ UNCHANGED <<connected, everConnected, refusals, drops, createFails, ctxDone, status, answer,
                   seeder, reached, afterRound, timer, lastRound, unserved>>

(* Mutant: a second initialisation replaces the first.                     *)
OkddInitializeAgain ==
    /\ loop = "init"
    /\ \E ok \in BOOLEAN :
         /\ CreateKadDht(ok) /\ answer' = IF ok THEN "nil" ELSE "createErr"
         /\ status' = IF ok THEN "initialized" ELSE status
    /\ loop' = "answer"
    /\ UNCHANGED <<connected, everConnected, refusals, drops, ctxDone, caller, seeder, reached,
                   afterRound, timer, lastRound, unserved>>

(* init.                                                                   *)
OkddInitialize ==
    /\ loop = "init"
    /\ IF status # "not initialized"
       THEN answer' = "already" /\ UNCHANGED <<status, createFails>>
       ELSE \E ok \in BOOLEAN :
              /\ CreateKadDht(ok) /\ answer' = IF ok THEN "nil" ELSE "createErr"
              /\ status' = IF ok THEN "initialized" ELSE status
    /\ loop' = "answer"
    /\ UNCHANGED <<connected, everConnected, refusals, drops, ctxDone, caller, seeder, reached,
                   afterRound, timer, lastRound, unserved>>

StartRound(then) ==
    /\ loop' = "round" /\ seeder' = 1 /\ reached' = FALSE /\ afterRound' = then
    /\ unserved' = FALSE

(* Mutant: after an error the loop keeps waiting for a caller.             *)
InitAnsweredStays(c) ==
    /\ loop = "answer" /\ caller[c] = "waiting"
    /\ caller' = [caller EXCEPT ![c] = answer]
    /\ IF answer = "nil" THEN StartRound("find") /\ UNCHANGED timer
       ELSE /\ CreateChTimeSeedersReconnect(FALSE)
            /\ UNCHANGED <<loop, seeder, reached, afterRound, unserved>>
    /\ UNCHANGED <<connected, everConnected, refusals, drops, createFails, ctxDone, status, answer,
                   lastRound>>

(* processInit sends the result; after a success it goes round the         *)
(* seeders, then looks for peers.                                          *)
InitAnswered(c) ==
    /\ loop = "answer" /\ caller[c] = "waiting"
    /\ caller' = [caller EXCEPT ![c] = answer]
    /\ IF answer = "nil" THEN StartRound("find") /\ UNCHANGED timer
       ELSE /\ loop' = "select" /\ CreateChTimeSeedersReconnect(FALSE)
            /\ UNCHANGED <<seeder, reached, afterRound, unserved>>
    /\ UNCHANGED <<connected, everConnected, refusals, drops, createFails, ctxDone, status, answer,
                   lastRound>>

(* chTimeSeedersReconnect fires.                                           *)
SeedersReconnectTimer ==
    /\ loop = "select" /\ StartRound("select")
    /\ UNCHANGED <<dialVars, status, answer, timer, lastRound>>

(* ReconnectToNetwork, called by the connection monitor: a loop that is    *)
(* busy, or ended, does not notice.                                        *)
OkddReconnectToNetwork ==
    /\ IF loop = "select" THEN StartRound("select")
       ELSE unserved' = TRUE /\ UNCHANGED <<loop, seeder, reached, afterRound>>
    /\ UNCHANGED <<dialVars, status, answer, timer, lastRound>>

EndRound(isConnectedToSeeders) ==
    /\ CreateChTimeSeedersReconnect(isConnectedToSeeders)
    /\ loop' = afterRound

(* tryToReconnectAtLeastToASeeder: nothing to do ...                       *)
RoundWithoutSeeders ==
    /\ loop = "round"
    /\ status # "initialized" \/ InitialPeersList = <<>>
    /\ EndRound(status = "initialized")
    /\ UNCHANGED <<dialVars, status, answer, seeder, reached, afterRound, lastRound, unserved>>

(* ... or one seeder after the other: a seeder that is connected counts,   *)
(* and the host wrapper (Connect of hostWithConnectionManagement) refuses  *)
(* to dial one that would be evicted at once.                              *)
InRound == loop = "round" /\ status = "initialized" /\ InitialPeersList # <<>>
MayDial(s) == s \notin connected /\ CanConnectToPeer(s)

(* Mutant: the round stops after the first seeder.                         *)
SeederDoneFirst(ok) ==
    /\ reached' = ok /\ EndRound(ok) /\ lastRound' = IF ok THEN "found" ELSE "missed"
    /\ UNCHANGED <<seeder, status, answer, afterRound, unserved>>

(* Mutant: the round reports success whatever the dials did.               *)
SeederDoneOptimist(ok) ==
    /\ reached' = (reached \/ ok)
    /\ IF ctxDone \/ seeder = Len(InitialPeersList)
       THEN /\ EndRound(TRUE)
            /\ lastRound' = IF reached' THEN "found" ELSE "missed"
            /\ UNCHANGED seeder
       ELSE loop' = "round" /\ seeder' = seeder + 1 /\ UNCHANGED <<timer, lastRound>>
    /\ UNCHANGED <<status, answer, afterRound, unserved>>

(* connectToSeeder returns; a context that is done ends the round as if it *)
(* had succeeded.                                                          *)
SeederDone(ok) ==
    /\ reached' = (reached \/ ok)
    /\ IF ctxDone \/ seeder = Len(InitialPeersList)
       THEN /\ EndRound(ctxDone \/ reached')
            /\ lastRound' = IF reached' THEN "found" ELSE "missed"
            /\ UNCHANGED seeder
       ELSE loop' = "round" /\ seeder' = seeder + 1 /\ UNCHANGED <<timer, lastRound>>
    /\ UNCHANGED <<status, answer, afterRound, unserved>>

(* connectToSeeder without a dial.                                         *)
RoundSkips ==
    /\ InRound /\ ~MayDial(InitialPeersList[seeder])
    /\ SeederDone(InitialPeersList[seeder] \in connected)
    /\ UNCHANGED dialVars

(* The wrapper looked at the peers and lets the dial pass ...              *)
RoundAllows ==
    /\ InRound /\ MayDial(InitialPeersList[seeder]) /\ loop' = "dial"
    /\ UNCHANGED <<dialVars, status, answer, seeder, reached, afterRound, timer, lastRound, unserved>>

(* ... which is made among the peers of a later moment.                    *)
RoundDials(ok) ==
    /\ loop = "dial" /\ Dial(InitialPeersList[seeder], ok) /\ SeederDone(ok)
    /\ UNCHANGED <<drops, createFails, ctxDone, caller>>

(* chTimeFindPeers fires, with a dht to ask; findPeers returns.            *)
FindPeersTimer ==
    /\ loop = "select" /\ status = "initialized" /\ loop' = "find"
    /\ UNCHANGED <<dialVars, status, answer, seeder, reached, afterRound, timer, lastRound, unserved>>
FindPeers ==
    /\ loop = "find" /\ loop' = "select"
    /\ UNCHANGED <<dialVars, status, answer, seeder, reached, afterRound, timer, lastRound, unserved>>

(* The context is done: finishMainLoopProcessing gives the error to a      *)
(* caller that waits for one, if there is any, and the goroutine ends.     *)
OkddLoopEnds ==
    /\ loop = "select" /\ ctxDone /\ loop' = "ended"
    /\ LET waiting == {c \in BootstrapCallers : caller[c] = "waiting"}
       IN  IF waiting = {} THEN UNCHANGED caller
           ELSE \E c \in waiting : caller' = [caller EXCEPT ![c] = "ctxErr"]
    /\ UNCHANGED <<connected, everConnected, refusals, drops, createFails, ctxDone, status, answer,
                   seeder, reached, afterRound, timer, lastRound, unserved>>

OkddLoopStep ==
    \/ OkddInitialize \/ RoundWithoutSeeders \/ RoundSkips \/ RoundAllows \/ FindPeers
    \/ \E c \in BootstrapCallers : InitAnswered(c)
    \/ \E ok \in BOOLEAN : RoundDials(ok)
OkddNext ==
    \/ \E c \in BootstrapCallers : OkddBootstrap(c) \/ InitRequested(c)
    \/ OkddLoopStep
    \/ SeedersReconnectTimer \/ OkddReconnectToNetwork \/ FindPeersTimer \/ OkddLoopEnds
=============================================================================
