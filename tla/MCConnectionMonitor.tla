------------------------ MODULE MCConnectionMonitor ------------------------
(* ConnectionMonitor for TLC: named peers, two of them equally near.       *)
EXTENDS ConnectionMonitor, TLC
CONSTANTS p1, p2, p3, p4, p5, p6, p7
DistanceOf == (p1 :> 1) @@ (p2 :> 2) @@ (p3 :> 3) @@ (p4 :> 4) @@ (p5 :> 5) @@ (p6 :> 6)
              @@ (p7 :> 6)
SevenPeers == {p1, p2, p3, p4, p5, p6, p7}
Distances == [p \in Peers |-> DistanceOf[p]]

(* One peer of each kind, with three unknown ones.                         *)
EachKind == (p1 :> "intraShardValidators") @@ (p2 :> "crossShardValidators")
            @@ (p3 :> "intraShardObservers") @@ (p4 :> "crossShardObservers")
            @@ (p5 :> "unknown") @@ (p6 :> "unknown") @@ (p7 :> "unknown")
SevenKinds == {EachKind}
InitialFive == {p1, p2, p3, p4, p5}
TwoComers == {p6, p7}
=============================================================================
