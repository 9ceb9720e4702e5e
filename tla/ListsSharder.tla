----------------------------- MODULE ListsSharder -----------------------------
(***************************************************************************)
(* The eviction list of p2p/libp2p/networksharding/listsSharder.go: how    *)
(* many peers of each kind are kept, and which ones go.                    *)
(***************************************************************************)
EXTENDS Integers, FiniteSets

CONSTANTS Peers,
          Distance,                 \* Distance[p]: computeDistance(p, self)
          MaxPeerCount,
          MaxIntraShardValidators, MaxCrossShardValidators,
          MaxIntraShardObservers, MaxCrossShardObservers,
          MaxSeeders

Kinds == {"intraShardValidators", "crossShardValidators", "intraShardObservers",
          "crossShardObservers", "seeders", "unknown"}
Unlisted == "preferred"     \* a preferred peer is in none of the lists

ProvidedPeers == MaxIntraShardValidators + MaxCrossShardValidators
                 + MaxIntraShardObservers + MaxCrossShardObservers + MaxSeeders

(* What the constructor and processNumConnections require.                 *)
ASSUME PeersAssumption == IsFiniteSet(Peers) /\ Distance \in [Peers -> Nat]
ASSUME LimitsAssumption ==
    /\ MaxPeerCount \in Nat /\ MaxPeerCount >= 5 /\ MaxSeeders \in Nat
    /\ MaxIntraShardValidators \in Nat \ {0} /\ MaxCrossShardValidators \in Nat \ {0}
    /\ MaxIntraShardObservers \in Nat \ {0} /\ MaxCrossShardObservers \in Nat \ {0}
    /\ ProvidedPeers + 1 <= MaxPeerCount

MaxUnknown == MaxPeerCount - ProvidedPeers

ComputeUsedAndSpare(existing, maximum) ==
    IF existing < maximum THEN [used |-> existing, spare |-> maximum - existing]
    ELSE [used |-> maximum, spare |-> 0]

(* How many of each kind are kept when existing[k] of kind k are           *)
(* connected: what a kind does not use is passed on to the next one,       *)
(* except from and to the seeders.                                         *)
NumKept(existing) ==
    LET iv == ComputeUsedAndSpare(existing["intraShardValidators"], MaxIntraShardValidators)
        cv == ComputeUsedAndSpare(existing["crossShardValidators"],
                                  MaxCrossShardValidators + iv.spare)
        io == ComputeUsedAndSpare(existing["intraShardObservers"],
                                  MaxIntraShardObservers + cv.spare)
        co == ComputeUsedAndSpare(existing["crossShardObservers"],
                                  MaxCrossShardObservers + io.spare)
        se == ComputeUsedAndSpare(existing["seeders"], MaxSeeders)
        un == ComputeUsedAndSpare(existing["unknown"], MaxUnknown + co.spare)
    IN  [intraShardValidators |-> iv.used, crossShardValidators |-> cv.used,
         intraShardObservers |-> io.used, crossShardObservers |-> co.used,
         seeders |-> se.used, unknown |-> un.used]

SumOverKinds(num) ==
    num["intraShardValidators"] + num["crossShardValidators"] + num["intraShardObservers"]
    + num["crossShardObservers"] + num["seeders"] + num["unknown"]

SplitPeerIds(pids, kind) == [k \in Kinds |-> {p \in pids : kind[p] = k}]

(* Mutant: one more than numKeep stays.                                    *)
EvictOneLess(peers, numKeep, gone) ==
    Cardinality(peers \ gone) = IF Cardinality(peers) > numKeep THEN numKeep + 1 ELSE numKeep

(* evict may choose the peers gone: the nearest numKeep stay; sort.Sort    *)
(* leaves the order of peers at the same distance open.                    *)
Evict(peers, numKeep, gone) ==
    /\ Cardinality(peers \ gone) = numKeep
    /\ \A p \in peers \ gone, q \in gone : Distance[p] <= Distance[q]

(* The lists, as sets, that ComputeEvictionList may return for the peers   *)
(* pids, when kind[p] is what the seeders' list, the preferred peers and   *)
(* the peer shard resolver say of p.                                       *)
EvictionLists(pids, kind) ==
    LET split == SplitPeerIds(pids, kind)
        num == NumKept([k \in Kinds |-> Cardinality(split[k])])
    IN  {gone \in SUBSET {p \in pids : kind[p] # Unlisted} :
           \A k \in Kinds : Evict(split[k], num[k], gone \cap split[k])}

(* The lists the one list sharder may return: all the peers are alike.     *)
OneListEvictionLists(pids) ==
    LET num == ComputeUsedAndSpare(Cardinality(pids), MaxPeerCount).used
    IN  {gone \in SUBSET pids : Evict(pids, num, gone)}
=============================================================================
