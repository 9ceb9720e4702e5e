----------------------------- MODULE PeersHolder -----------------------------
(***************************************************************************)
(* The preferred peers (p2p/peersHolder): a peer that connects from a      *)
(* preferred address waits until its shard is known, and is held under     *)
(* that shard then.  All operations run under one mutex.                   *)
(***************************************************************************)
EXTENDS Naturals, Sequences, FiniteSets
Seqs == INSTANCE SequencesExt

CONSTANTS Peers,
          Addresses,        \* the preferred connection addresses
          Shards,
          MayRemove,        \* Remove is called with the id of a held peer
          MaxListed         \* bound: length of a shard's list when a peer is added

ASSUME MayRemoveAssumption == MayRemove \in BOOLEAN /\ MaxListed \in Nat
ASSUME PeersAssumption == IsFiniteSet(Peers)

VARIABLES
    peersInfo,    \* peersInfo[a]: the peers in connAddrToPeersInfo under the address
    waiting,      \* tempPeerIDsWaitingForShard: pairs of a peer and its address
    perShard,     \* perShard[s]: peerIDsPerShard, the list of the shard
    held,         \* held[p]: peerIDs, at most one record of address, shard and index
    panicked,     \* a slice expression was out of range
    removed       \* history: Remove has cut a list since the members were last cleared
vars == <<peersInfo, waiting, perShard, held, panicked, removed>>

Init ==
    /\ peersInfo = [a \in Addresses |-> {}]
    /\ waiting = {}
    /\ perShard = [s \in Shards |-> <<>>]
    /\ held = [p \in Peers |-> {}]
    /\ panicked = FALSE /\ removed = FALSE

(* Only for an address that contains a preferred one, and a peer that is   *)
(* not known there yet; a peer that waits elsewhere now waits here.        *)
PutConnectionAddress(p, a) ==
    /\ p \notin peersInfo[a]
    /\ peersInfo' = [peersInfo EXCEPT ![a] = @ \cup {p}]
    /\ waiting' = {w \in waiting : w[1] # p} \cup {<<p, a>>}
    /\ UNCHANGED <<perShard, held, panicked, removed>>

PutShardID(p, s) ==
    \E a \in Addresses :
      /\ <<p, a>> \in waiting
      /\ p \in peersInfo[a]
      /\ Len(perShard[s]) < MaxListed
      /\ perShard' = [perShard EXCEPT ![s] = Append(@, p)]
      /\ held' = [held EXCEPT ![p] = {[address |-> a, shard |-> s, index |-> Len(perShard[s])]}]
      /\ waiting' = waiting \ {<<p, a>>}
      /\ UNCHANGED <<peersInfo, panicked, removed>>

(* Mutant: the data of the removed peer is kept.                           *)
RemoveKeepsData(p) ==
    /\ MayRemove
    /\ \E d \in held[p] :
         /\ d.index < Len(perShard[d.shard])
         /\ perShard' = [perShard EXCEPT ![d.shard] = Seqs!RemoveAt(@, d.index + 1)]
         /\ peersInfo' = [peersInfo EXCEPT ![d.address] = @ \ {p}]
         /\ waiting' = {w \in waiting : w[1] # p}
         /\ removed' = TRUE
         /\ UNCHANGED <<held, panicked>>

(* The list is cut at the index remembered when the peer was added; the    *)
(* indexes of the peers behind it are not adjusted.                        *)
Remove(p) ==
    /\ MayRemove
    /\ \E d \in held[p] :
         IF d.index < Len(perShard[d.shard])
         THEN /\ perShard' = [perShard EXCEPT ![d.shard] = Seqs!RemoveAt(@, d.index + 1)]
              /\ held' = [held EXCEPT ![p] = {}]
              /\ peersInfo' = [peersInfo EXCEPT ![d.address] = @ \ {p}]
              /\ waiting' = {w \in waiting : w[1] # p}
              /\ removed' = TRUE
              /\ UNCHANGED panicked
         ELSE /\ panicked' = TRUE
              /\ UNCHANGED <<peersInfo, waiting, perShard, held, removed>>

Clear ==
    /\ peersInfo' = [a \in Addresses |-> {}]
    /\ waiting' = {}
    /\ perShard' = [s \in Shards |-> <<>>]
    /\ held' = [p \in Peers |-> {}]
    /\ removed' = FALSE
    /\ UNCHANGED panicked

Next ==
    /\ ~panicked
    /\ \/ \E p \in Peers : \/ \E a \in Addresses : PutConnectionAddress(p, a)
                           \/ \E s \in Shards : PutShardID(p, s)
                           \/ Remove(p)
       \/ Clear
Spec == Init /\ [][Next]_vars
-----------------------------------------------------------------------------
Data == [address : Addresses, shard : Shards, index : Nat]
TypeOK ==
    /\ peersInfo \in [Addresses -> SUBSET Peers]
    /\ waiting \subseteq Peers \X Addresses
    /\ perShard \in [Shards -> Seq(Peers)]
    /\ held \in [Peers -> SUBSET Data]
    /\ \A p \in Peers : \A d, e \in held[p] : d = e
    /\ panicked \in BOOLEAN /\ removed \in BOOLEAN

(* A peer that waits for its shard waits at one address and is known       *)
(* there, whatever is removed in between: PutShardID never ignores a peer  *)
(* that waits.                                                             *)
WaitingPeersAreKnown ==
    /\ \A w \in waiting : w[1] \in peersInfo[w[2]]
    /\ \A v, w \in waiting : v[1] = w[1] => v = w

(* The list of a shard has at least as many entries as peers are held in   *)
(* the shard, also after removals that cut the wrong entry: Get is wrong   *)
(* about who is preferred then, but never returns too few.                 *)
HeldIn(s) == {p \in Peers : \E d \in held[p] : d.shard = s}
EntryForEveryHeldPeer ==
    \A s \in Shards : Cardinality(HeldIn(s)) <= Len(perShard[s])

(* The index remembered for a held peer is the peer's place in the list of *)
(* its shard as long as no list was cut since the members were cleared, so *)
(* that the first Remove cuts the right entry.  No later one need do so:   *)
(* see RemoveRemovesPeer.                                                  *)
IndexIsPlaceBeforeRemoval ==
    ~removed => \A p \in Peers : \A d \in held[p] :
      d.index < Len(perShard[d.shard]) /\ perShard[d.shard][d.index + 1] = p

(* The state of the holder at any moment, removals included, and its       *)
(* indexes up to the first of them.                                        *)
HolderInv ==
    TypeOK /\ WaitingPeersAreKnown /\ EntryForEveryHeldPeer /\ IndexIsPlaceBeforeRemoval

(* "Remove will remove the provided peer ID from the inner members"        *)
(* (peersHolder.go:157): it returns, and the peer is in none of them.      *)
(* The code does not do this: the index of a peer behind a removed one is  *)
(* outdated (:225).                                                        *)
NotAMember(p) ==
    /\ held[p] = {}
    /\ \A s \in Shards : \A i \in DOMAIN perShard[s] : perShard[s][i] # p
    /\ \A a \in Addresses : p \notin peersInfo[a]
    /\ \A w \in waiting : w[1] # p
RemoveRemovesPeer ==
    [][\A p \in Peers : Remove(p) => ~panicked' /\ NotAMember(p)']_vars
=============================================================================
