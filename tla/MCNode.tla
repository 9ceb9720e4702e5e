-------------------------------- MODULE MCNode --------------------------------
(***************************************************************************)
(* The messenger, the peer discoverer it builds and the preferred peers    *)
(* holder it is given, for TLC.  The three share no state, and each        *)
(* property speaks of one of them, so that their steps need not be         *)
(* interleaved: the initial state chooses the part whose steps are taken.  *)
(***************************************************************************)
EXTENDS Messenger, Discovery, PeersHolder, TLC

CONSTANTS s1, s2, s3
ThreeSeeders == <<s1, s2, s3>>
Distances == s1 :> 3 @@ s2 :> 2 @@ s3 :> 1

GoodSharding == [type |-> "ListsSharder", target |-> 6, intraV |-> 1, crossV |-> 1,
                 intraO |-> 1, crossO |-> 1, seeders |-> 1]
GoodKad == [enabled |-> TRUE, type |-> "optimized", protocols |-> 1, refreshInterval |-> 1,
            tableRefresh |-> 1]
Good == [nilArgument |-> FALSE, port |-> <<3, 4>>, watcher |-> "print",
         transports |-> <<"good", "empty", "empty", "empty">>, limiter |-> "infinite",
         selfSeeder |-> FALSE, sharding |-> GoodSharding, kad |-> GoodKad]

(* A good configuration, good variants of it, and each single mistake.     *)
GoodConfigs ==
    {Good,
     [Good EXCEPT !.port = <<4>>, !.watcher = "", !.kad.type = "legacy"],
     [Good EXCEPT !.port = <<0>>, !.watcher = "disabled", !.sharding.type = "OneListSharder",
                  !.kad.enabled = FALSE]}
AskedConfigs == {c \in GoodConfigs : c.port = <<0>>}
Fixed == [Good EXCEPT !.port = <<4>>]
BadConfigs ==
    {[Good EXCEPT !.port = p] : p \in {<<-1>>, <<1, 4>>, <<4, 3>>, <<3, 4, 5>>}}
    \cup {[Fixed EXCEPT !.nilArgument = TRUE],
          [Fixed EXCEPT !.watcher = "other"], [Fixed EXCEPT !.limiter = "other"]}
    \cup {[Fixed EXCEPT !.transports = t] :
            t \in {<<"good", "bad", "empty", "empty">>, <<"empty", "empty", "empty", "empty">>}}
    \cup {[Good EXCEPT !.selfSeeder = TRUE]}
    \cup {[Fixed EXCEPT !.sharding.target = 4], [Fixed EXCEPT !.sharding.target = 5],
          [Fixed EXCEPT !.sharding.crossV = 0], [Fixed EXCEPT !.sharding.intraO = 0],
          [Fixed EXCEPT !.sharding.type = "other"]}
    \cup {[Fixed EXCEPT !.kad.protocols = 0], [Fixed EXCEPT !.kad.type = "other"],
          [Fixed EXCEPT !.kad.refreshInterval = 0], [Fixed EXCEPT !.kad.tableRefresh = 0]}
AllConfigs == GoodConfigs \cup BadConfigs
Faults == [c \in AllConfigs |->
             CASE c \in AskedConfigs -> {}
               [] c = Good -> {"newHost"}
               [] OTHER -> {"privateKey", "debugger", "host", "peerstore"}]

-----------------------------------------------------------------------------
VARIABLE explored       \* the part whose steps are taken
nodeVars == <<explored, messengerVars, discoveryVars, vars>>

(* The other parts rest: the messenger has refused a nil argument, the     *)
(* discoverer is the nil discoverer.                                       *)
NodeInit ==
    /\ explored \in {"messenger", "discovery", "holder"}
    /\ MessengerInit /\ NewPeerDiscoverers /\ Init
    /\ explored # "messenger" => config.nilArgument /\ taken = {}
    /\ explored = "discovery" <=> type # "nil"
NodeNext ==
    \/ MessengerNext /\ UNCHANGED <<explored, discoveryVars, vars>>
    \/ phase = "failed" /\ DiscoveryNext /\ UNCHANGED <<explored, messengerVars, vars>>
    \/ /\ explored = "holder" /\ phase = "failed"
       /\ Next /\ UNCHANGED <<explored, messengerVars, discoveryVars>>
NodeSpec == NodeInit /\ [][NodeNext]_nodeVars /\ Fairness /\ DiscoveryFairness
=============================================================================
