------------------------------ MODULE MCMessages ------------------------------
(***************************************************************************)
(* The checks a received message passes, the processors it is dispatched   *)
(* to, and the ratings of the peers that send, for TLC.  The three share   *)
(* no state here, and each property speaks of one of them, so that their   *)
(* steps need not be interleaved: the initial state chooses the part whose *)
(* steps are taken.                                                        *)
(***************************************************************************)
EXTENDS Reception, TopicRegistry, PeersRating, TLC

(* A broadcast and a direct message, and two peers: the originator of both *)
(* and one that relays.                                                    *)
CONSTANTS m, d, author, relay
MCOriginator == (m :> author) @@ (d :> author)

MinusOne == -1
MessagesSymmetry == Permutations(RatedPeers)

-----------------------------------------------------------------------------
VARIABLE explored       \* the part whose steps are taken
messagesVars == <<explored, receptionVars, registryVars, ratingHandlerVars>>

MessagesInit ==
    /\ explored \in {"reception", "registry", "rating"}
    /\ ReceptionInit /\ RegistryInit /\ RatingInit
    /\ explored # "reception" =>
         /\ malformed = {}
         /\ \A x \in Messages : timestamp[x] = 0
         /\ \A x \in DirectMessages : dTimestamp[x] = 0
    /\ explored # "registry" =>
         \A x \in ReceivedMessages : topic[x] \in RequestTopics /\ direct[x]
MessagesNext ==
    \/ /\ explored = "reception"
       /\ ReceptionNext /\ UNCHANGED <<explored, registryVars, ratingHandlerVars>>
    \/ /\ explored = "registry"
       /\ RegistryNext /\ UNCHANGED <<explored, receptionVars, ratingHandlerVars>>
    \/ /\ explored = "rating"
       /\ RatingNext /\ UNCHANGED <<explored, receptionVars, registryVars>>
MessagesSpec == MessagesInit /\ [][MessagesNext]_messagesVars
=============================================================================
