----------------------- MODULE ConnectionMonitor_proofs -----------------------
(***************************************************************************)
(* The connection monitor, for all limits and any set of peers: the        *)
(* arithmetic of the eviction list, and that runs of Connected with        *)
(* outdated snapshots evict enough together.                               *)
(***************************************************************************)
EXTENDS ConnectionMonitor, FiniteSetTheorems, TLAPS

(* What is used is never more than what exists, and used and spare         *)
(* together are exactly the maximum.                                       *)
LEMMA UsedAndSpare ==
    ASSUME NEW existing \in Nat, NEW maximum \in Nat
    PROVE  LET r == ComputeUsedAndSpare(existing, maximum)
           IN  /\ r.used \in Nat /\ r.spare \in Nat
               /\ r.used <= existing
               /\ r.used + r.spare = maximum
               /\ r.used < existing => r.spare = 0
BY DEF ComputeUsedAndSpare

(* Whatever is connected, the peers that are kept are never more than the  *)
(* maximum peer count, never more than there are of their kind, and the    *)
(* seeders never more than theirs (listsSharder.go ComputeEvictionList:    *)
(* what a kind leaves unused is handed on, and only once).                 *)
THEOREM KeptWithinLimits ==
    ASSUME NEW existing \in [Kinds -> Nat]
    PROVE  /\ SumOverKinds(NumKept(existing)) <= MaxPeerCount
           /\ \A k \in Kinds : NumKept(existing)[k] \in 0..existing[k]
           /\ NumKept(existing)["seeders"] <= MaxSeeders
<1> DEFINE iv == ComputeUsedAndSpare(existing["intraShardValidators"], MaxIntraShardValidators)
           cv == ComputeUsedAndSpare(existing["crossShardValidators"],
                                     MaxCrossShardValidators + iv.spare)
           io == ComputeUsedAndSpare(existing["intraShardObservers"],
                                     MaxIntraShardObservers + cv.spare)
           co == ComputeUsedAndSpare(existing["crossShardObservers"],
                                     MaxCrossShardObservers + io.spare)
           se == ComputeUsedAndSpare(existing["seeders"], MaxSeeders)
           un == ComputeUsedAndSpare(existing["unknown"], MaxUnknown + co.spare)
           num == [intraShardValidators |-> iv.used, crossShardValidators |-> cv.used,
                   intraShardObservers |-> io.used, crossShardObservers |-> co.used,
                   seeders |-> se.used, unknown |-> un.used]
<1>1. NumKept(existing) = num
    BY DEF NumKept
<1>2. /\ existing["intraShardValidators"] \in Nat /\ existing["crossShardValidators"] \in Nat
      /\ existing["intraShardObservers"] \in Nat /\ existing["crossShardObservers"] \in Nat
      /\ existing["seeders"] \in Nat /\ existing["unknown"] \in Nat
    BY DEF Kinds
<1>3. /\ MaxIntraShardValidators \in Nat /\ MaxCrossShardValidators \in Nat
      /\ MaxIntraShardObservers \in Nat /\ MaxCrossShardObservers \in Nat
      /\ MaxSeeders \in Nat /\ MaxUnknown \in Nat
      /\ MaxUnknown + MaxIntraShardValidators + MaxCrossShardValidators
           + MaxIntraShardObservers + MaxCrossShardObservers + MaxSeeders = MaxPeerCount
    BY LimitsAssumption DEF MaxUnknown, ProvidedPeers
<1> HIDE DEF iv, cv, io, co, se, un
<1>4. /\ iv.used \in Nat /\ iv.spare \in Nat /\ iv.used <= existing["intraShardValidators"]
      /\ iv.used + iv.spare = MaxIntraShardValidators
    BY <1>2, <1>3, UsedAndSpare DEF iv
<1>5. /\ cv.used \in Nat /\ cv.spare \in Nat /\ cv.used <= existing["crossShardValidators"]
      /\ cv.used + cv.spare = MaxCrossShardValidators + iv.spare
  <2>1. MaxCrossShardValidators + iv.spare \in Nat
      BY <1>3, <1>4
  <2>2. QED
      BY <1>2, <2>1, UsedAndSpare DEF cv
<1>6. /\ io.used \in Nat /\ io.spare \in Nat /\ io.used <= existing["intraShardObservers"]
      /\ io.used + io.spare = MaxIntraShardObservers + cv.spare
  <2>1. MaxIntraShardObservers + cv.spare \in Nat
      BY <1>3, <1>5
  <2>2. QED
      BY <1>2, <2>1, UsedAndSpare DEF io
<1>7. /\ co.used \in Nat /\ co.spare \in Nat /\ co.used <= existing["crossShardObservers"]
      /\ co.used + co.spare = MaxCrossShardObservers + io.spare
  <2>1. MaxCrossShardObservers + io.spare \in Nat
      BY <1>3, <1>6
  <2>2. QED
      BY <1>2, <2>1, UsedAndSpare DEF co
<1>8. /\ se.used \in Nat /\ se.spare \in Nat /\ se.used <= existing["seeders"]
      /\ se.used + se.spare = MaxSeeders
    BY <1>2, <1>3, UsedAndSpare DEF se
<1>9. /\ un.used \in Nat /\ un.spare \in Nat /\ un.used <= existing["unknown"]
      /\ un.used + un.spare = MaxUnknown + co.spare
  <2>1. MaxUnknown + co.spare \in Nat
      BY <1>3, <1>7
  <2>2. QED
      BY <1>2, <2>1, UsedAndSpare DEF un
<1>10. SumOverKinds(num) = iv.used + cv.used + io.used + co.used + se.used + un.used
    BY DEF SumOverKinds
<1>11. SumOverKinds(num) <= MaxPeerCount
    BY <1>3, <1>4, <1>5, <1>6, <1>7, <1>8, <1>9, <1>10
<1>12. \A k \in Kinds : num[k] \in 0..existing[k]
    BY <1>2, <1>4, <1>5, <1>6, <1>7, <1>8, <1>9 DEF Kinds
<1>13. num["seeders"] <= MaxSeeders
    BY <1>3, <1>8
<1>14. QED
    BY <1>1, <1>11, <1>12, <1>13
-----------------------------------------------------------------------------
(* The peers of a set that count for the maximum.                          *)
Counted(S) == {p \in S : sharder = "OneListSharder" \/ kind[p] # Unlisted}
Within(S) == Cardinality(Counted(S)) <= MaxPeerCount

(* A set of peers is finite, and a part of it has no more members.         *)
LEMMA SetsOfPeers ==
    ASSUME NEW S, S \subseteq Peers
    PROVE  /\ IsFiniteSet(S) /\ Cardinality(S) \in Nat
           /\ \A T : T \subseteq S => IsFiniteSet(T) /\ Cardinality(T) <= Cardinality(S)
<1>1. IsFiniteSet(S)
  BY PeersAssumption, FS_Subset
<1> QED
  BY <1>1, FS_Subset, FS_CardinalityType

(* Six lists of peers together have at most as many members as each of     *)
(* them has, added up.                                                     *)
LEMMA SixLists ==
    ASSUME NEW A, NEW B, NEW C, NEW D, NEW E, NEW F,
           A \subseteq Peers, B \subseteq Peers, C \subseteq Peers,
           D \subseteq Peers, E \subseteq Peers, F \subseteq Peers
    PROVE  Cardinality(A \cup B \cup C \cup D \cup E \cup F)
             <= Cardinality(A) + Cardinality(B) + Cardinality(C) + Cardinality(D)
                + Cardinality(E) + Cardinality(F)
<1>1. ASSUME NEW S, NEW T, S \subseteq Peers, T \subseteq Peers
      PROVE  /\ Cardinality(S \cup T) <= Cardinality(S) + Cardinality(T)
             /\ Cardinality(S) \in Nat /\ Cardinality(T) \in Nat /\ Cardinality(S \cup T) \in Nat
  <2>1. IsFiniteSet(S) /\ IsFiniteSet(T)
    BY <1>1, SetsOfPeers
  <2>2. /\ Cardinality(S \cup T) = Cardinality(S) + Cardinality(T) - Cardinality(S \cap T)
        /\ IsFiniteSet(S \cup T) /\ IsFiniteSet(S \cap T)
    BY <2>1, FS_Union, FS_Intersection
  <2>3. /\ Cardinality(S) \in Nat /\ Cardinality(T) \in Nat
        /\ Cardinality(S \cup T) \in Nat /\ Cardinality(S \cap T) \in Nat
    BY <2>1, <2>2, FS_CardinalityType
  <2> QED
    BY <2>2, <2>3
<1> DEFINE AB == A \cup B
           ABC == AB \cup C
           ABCD == ABC \cup D
           ABCDE == ABCD \cup E
<1>2. AB \subseteq Peers /\ ABC \subseteq Peers /\ ABCD \subseteq Peers /\ ABCDE \subseteq Peers
  OBVIOUS
<1>3. Cardinality(AB) <= Cardinality(A) + Cardinality(B)
  BY <1>1
<1> HIDE DEF AB
<1>4. Cardinality(ABC) <= Cardinality(AB) + Cardinality(C)
  BY <1>1, <1>2
<1> HIDE DEF ABC
<1>5. Cardinality(ABCD) <= Cardinality(ABC) + Cardinality(D)
  BY <1>1, <1>2
<1> HIDE DEF ABCD
<1>6. Cardinality(ABCDE) <= Cardinality(ABCD) + Cardinality(E)
  BY <1>1, <1>2
<1> HIDE DEF ABCDE
<1>7. Cardinality(ABCDE \cup F) <= Cardinality(ABCDE) + Cardinality(F)
  BY <1>1, <1>2
<1>8. /\ Cardinality(A) \in Nat /\ Cardinality(B) \in Nat /\ Cardinality(C) \in Nat
      /\ Cardinality(D) \in Nat /\ Cardinality(E) \in Nat /\ Cardinality(F) \in Nat
      /\ Cardinality(AB) \in Nat /\ Cardinality(ABC) \in Nat /\ Cardinality(ABCD) \in Nat
      /\ Cardinality(ABCDE) \in Nat /\ Cardinality(ABCDE \cup F) \in Nat
  <2>1. ABCDE \cup F \subseteq Peers
    BY <1>2
  <2> QED
    BY <1>2, <2>1, SetsOfPeers
<1>9. A \cup B \cup C \cup D \cup E \cup F = ABCDE \cup F
  BY DEF AB, ABC, ABCD, ABCDE
<1>10. Cardinality(ABCDE \cup F)
         <= Cardinality(A) + Cardinality(B) + Cardinality(C) + Cardinality(D)
            + Cardinality(E) + Cardinality(F)
  BY ONLY <1>3, <1>4, <1>5, <1>6, <1>7, <1>8
<1> QED
  BY ONLY <1>9, <1>10

(* Whatever list the sharder answers, those that stay are within the       *)
(* maximum.                                                                *)
LEMMA ListSuffices ==
    ASSUME TypeOK, NEW S, S \subseteq Peers, NEW list \in ListsOf(S)
    PROVE  list \subseteq S /\ Within(S \ list)
<1>1. CASE sharder = "OneListSharder"
  <2> DEFINE n == ComputeUsedAndSpare(Cardinality(S), MaxPeerCount).used
  <2>1. list \subseteq S /\ Cardinality(S \ list) = n
    BY <1>1 DEF ListsOf, OneListEvictionLists, Evict
  <2>2. n <= MaxPeerCount
    BY LimitsAssumption, SetsOfPeers DEF ComputeUsedAndSpare
  <2>3. Counted(S \ list) = S \ list
    BY <1>1 DEF Counted
  <2> QED
    BY <2>1, <2>2, <2>3 DEF Within
<1>2. CASE sharder = "ListsSharder"
  <2> DEFINE split == SplitPeerIds(S, kind)
             existing == [k \in Kinds |-> Cardinality(split[k])]
             num == NumKept(existing)
             left(k) == split[k] \ list
  <2>1. list \subseteq S /\ \A k \in Kinds : Evict(split[k], num[k], list \cap split[k])
    BY <1>2 DEF ListsOf, EvictionLists
  <2>2. \A k \in Kinds : split[k] = {p \in S : kind[p] = k} /\ split[k] \subseteq Peers
    BY DEF SplitPeerIds
  <2>3. existing \in [Kinds -> Nat]
    BY <2>2, SetsOfPeers
  <2> HIDE DEF split
  <2>4. SumOverKinds(num) <= MaxPeerCount /\ \A k \in Kinds : num[k] \in Nat
    <3>1. \A k \in Kinds : num[k] \in 0..existing[k] /\ existing[k] \in Nat
      BY <2>3, KeptWithinLimits
    <3> QED
      BY <2>3, <3>1, KeptWithinLimits
  <2> HIDE DEF existing, num
  <2>5. \A k \in Kinds : Cardinality(left(k)) = num[k] /\ left(k) \subseteq Peers
    <3>1. \A k \in Kinds : split[k] \ (list \cap split[k]) = left(k)
      OBVIOUS
    <3> QED
      BY <2>1, <2>2, <3>1 DEF Evict
  <2>6. Counted(S \ list)
          = left("intraShardValidators") \cup left("crossShardValidators")
            \cup left("intraShardObservers") \cup left("crossShardObservers")
            \cup left("seeders") \cup left("unknown")
    <3>1. Counted(S \ list) = {p \in S \ list : kind[p] # Unlisted}
      BY <1>2 DEF Counted
    <3>2. \A p \in S : kind[p] # Unlisted <=> kind[p] \in Kinds
      BY DEF TypeOK, Unlisted, Kinds
    <3> QED
      BY <2>2, <3>1, <3>2 DEF Kinds
  <2>7. Cardinality(Counted(S \ list))
          <= num["intraShardValidators"] + num["crossShardValidators"]
             + num["intraShardObservers"] + num["crossShardObservers"]
             + num["seeders"] + num["unknown"]
    <3>1. /\ "intraShardValidators" \in Kinds /\ "crossShardValidators" \in Kinds
          /\ "intraShardObservers" \in Kinds /\ "crossShardObservers" \in Kinds
          /\ "seeders" \in Kinds /\ "unknown" \in Kinds
      BY DEF Kinds
    <3> HIDE DEF left
    <3> QED
      BY <2>5, <2>6, <3>1, SixLists
  <2>8. Counted(S \ list) \subseteq Peers
    BY DEF Counted
  <2> QED
    <3>1. /\ num["intraShardValidators"] \in Nat /\ num["crossShardValidators"] \in Nat
          /\ num["intraShardObservers"] \in Nat /\ num["crossShardObservers"] \in Nat
          /\ num["seeders"] \in Nat /\ num["unknown"] \in Nat
      BY <2>4 DEF Kinds
    <3>2. Cardinality(Counted(S \ list)) \in Nat /\ MaxPeerCount \in Nat
      BY <2>8, SetsOfPeers, LimitsAssumption
    <3>3. Cardinality(Counted(S \ list)) <= MaxPeerCount
      BY ONLY <2>4, <2>7, <3>1, <3>2 DEF SumOverKinds
    <3> QED
      BY <2>1, <3>3 DEF Within
<1> QED
  BY <1>1, <1>2 DEF TypeOK
-----------------------------------------------------------------------------
(***************************************************************************)
(* The inductive invariant.  Of the peers whose run of Connected has taken *)
(* its snapshot, or is over: they are in the snapshot of a run that has    *)
(* not computed its list, or what a run still has to close brings them     *)
(* within the maximum, or they are within it.                              *)
(***************************************************************************)
Fresh == {p \in Peers : notified[p] = "new"}
Seen == connected \ Fresh
Covered ==
    \/ \E p \in Peers : notified[p] = "compute" /\ Seen \subseteq allPeers[p]
    \/ \E p \in Peers : notified[p] = "close" /\ Within(Seen \ evicted[p])
    \/ Within(Seen)
IInv == TypeOK /\ Covered

(* Fewer peers, and fewer that count, stay within the maximum.             *)
LEMMA WithinPart ==
    ASSUME NEW S, NEW T, T \subseteq Peers, S \subseteq T, Within(T)
    PROVE  Within(S)
<1>1. Counted(S) \subseteq Counted(T) /\ Counted(T) \subseteq Peers
  BY DEF Counted
<1>2. /\ Cardinality(Counted(S)) <= Cardinality(Counted(T))
      /\ Cardinality(Counted(S)) \in Nat /\ Cardinality(Counted(T)) \in Nat
  BY <1>1, SetsOfPeers
<1> QED
  BY <1>2, LimitsAssumption DEF Within

(* A step after which no more peers have been seen, no run has gone on and *)
(* no peer counts that did not count before.                               *)
FewerSeen ==
    /\ Seen' \subseteq Seen
    /\ sharder' = sharder
    /\ \A p \in Peers : kind'[p] # Unlisted => kind[p] # Unlisted
RunsStay ==
    \A p \in Peers : /\ notified[p] \in {"compute", "close"} => notified'[p] = notified[p]
                     /\ allPeers'[p] = allPeers[p] /\ evicted'[p] = evicted[p]

(* ... keeps smaller sets within the maximum.                              *)
LEMMA WithinLater ==
    ASSUME NEW S, NEW T, T \subseteq Peers, S \subseteq T, Within(T), sharder' = sharder,
           \A p \in Peers : kind'[p] # Unlisted => kind[p] # Unlisted
    PROVE  Cardinality({p \in S : sharder' = "OneListSharder" \/ kind'[p] # Unlisted})
             <= MaxPeerCount
<1> DEFINE C == {p \in S : sharder' = "OneListSharder" \/ kind'[p] # Unlisted}
<1>1. C \subseteq Counted(T) /\ Counted(T) \subseteq Peers
  BY DEF Counted
<1>2. /\ Cardinality(C) <= Cardinality(Counted(T))
      /\ Cardinality(C) \in Nat /\ Cardinality(Counted(T)) \in Nat
  BY <1>1, SetsOfPeers
<1> QED
  BY <1>2, LimitsAssumption DEF Within

(* Such a step leaves the peers covered.                                   *)
LEMMA CoveredKept ==
    ASSUME IInv, FewerSeen, RunsStay
    PROVE  Covered'
<1> USE DEF IInv
<1>1. Seen \subseteq Peers
  BY DEF Seen, TypeOK
<1>2. CASE \E p \in Peers : notified[p] = "compute" /\ Seen \subseteq allPeers[p]
  <2>1. PICK p \in Peers : notified[p] = "compute" /\ Seen \subseteq allPeers[p]
    BY <1>2
  <2>2. notified'[p] = "compute" /\ Seen' \subseteq allPeers'[p]
    BY <2>1 DEF RunsStay, FewerSeen
  <2> QED
    BY <2>2 DEF Covered
<1>3. CASE \E p \in Peers : notified[p] = "close" /\ Within(Seen \ evicted[p])
  <2>1. PICK p \in Peers : notified[p] = "close" /\ Within(Seen \ evicted[p])
    BY <1>3
  <2>2. notified'[p] = "close" /\ Seen' \ evicted'[p] \subseteq Seen \ evicted[p]
    BY <2>1 DEF RunsStay, FewerSeen
  <2>3. /\ sharder' = sharder
        /\ \A q \in Peers : kind'[q] # Unlisted => kind[q] # Unlisted
    BY DEF FewerSeen
  <2>4. Seen \ evicted[p] \subseteq Peers
    BY <1>1
  <2>5. Within(Seen \ evicted[p])'
    BY ONLY <2>1, <2>2, <2>3, <2>4, WithinLater DEF Within, Counted
  <2> QED
    BY <2>2, <2>5 DEF Covered
<1>4. CASE Within(Seen)
  <2>1. Within(Seen)'
    BY <1>1, <1>4, WithinLater DEF FewerSeen, Within, Counted
  <2> QED
    BY <2>1 DEF Covered
<1> QED
  BY <1>2, <1>3, <1>4 DEF Covered

(* TypeOK is inductive.                                                    *)
LEMMA TypeStep == TypeOK /\ [Next]_vars => TypeOK'
<1> SUFFICES ASSUME TypeOK, [Next]_vars PROVE TypeOK'
  OBVIOUS
<1>0. \A p \in Peers : ClosePeer(p) => connected' \subseteq Peers /\ gone' \in Nat
  BY DEF ClosePeer, TypeOK
<1>1. CASE UNCHANGED vars
  BY <1>1 DEF TypeOK, vars, handlerVars, loopVars
<1>2. ASSUME NEW p \in Peers, Connect(p) PROVE TypeOK'
  BY <1>2 DEF TypeOK, Connect, loopVars
<1>3. ASSUME NEW p \in Peers, Disconnect(p) PROVE TypeOK'
  BY <1>0, <1>3 DEF TypeOK, Disconnect, handlerVars, loopVars
<1>4. ASSUME NEW p \in Peers, Deny(p) PROVE TypeOK'
  BY <1>4 DEF TypeOK, Deny, handlerVars, loopVars
<1>5. ASSUME NEW p \in Peers, NEW k \in Kinds \cup {Unlisted}, Learn(p, k) PROVE TypeOK'
  BY <1>5 DEF TypeOK, Learn, handlerVars, loopVars
<1>6. ASSUME NEW p \in Peers, DropDenied(p) PROVE TypeOK'
  BY <1>0, <1>6 DEF TypeOK, DropDenied, loopVars
<1>7. ASSUME NEW p \in Peers, GetPeers(p) PROVE TypeOK'
  BY <1>7 DEF TypeOK, GetPeers, loopVars
<1>8. ASSUME NEW p \in Peers, ComputeEvictionList(p) PROVE TypeOK'
  <2>1. PICK list \in ListsOf(allPeers[p]) : evicted' = [evicted EXCEPT ![p] = list]
    BY <1>8 DEF ComputeEvictionList
  <2>2. allPeers[p] \subseteq Peers
    BY DEF TypeOK
  <2>3. list \subseteq Peers
    BY <2>2, ListSuffices
  <2>4. evicted' \in [Peers -> SUBSET Peers]
    BY <2>1, <2>3 DEF TypeOK
  <2>5. allPeers' \in [Peers -> SUBSET Peers]
    BY <1>8 DEF ComputeEvictionList, TypeOK
  <2>6. notified' \in [Peers -> {"no", "new", "compute", "close"}]
    BY <1>8 DEF ComputeEvictionList, TypeOK
  <2> QED
    BY <1>8, <2>4, <2>5, <2>6 DEF TypeOK, ComputeEvictionList, loopVars
<1>9. ASSUME NEW p \in Peers, ConnectedReturns(p) PROVE TypeOK'
  BY <1>9 DEF TypeOK, ConnectedReturns, loopVars
<1>10. ASSUME NEW p \in Peers, NEW e \in Peers, CloseEvicted(p, e) PROVE TypeOK'
  BY <1>0, <1>10 DEF TypeOK, CloseEvicted, loopVars
<1>11. CASE Disconnected
  BY <1>11 DEF TypeOK, Disconnected, handlerVars
<1>12. CASE ReconnectToNetwork \/ AttemptTimer \/ StartSweep \/ SweepEnds
  BY <1>12 DEF TypeOK, ReconnectToNetwork, AttemptTimer, StartSweep, SweepEnds, handlerVars
<1>13. ASSUME NEW p \in Peers, SweepPeer(p) PROVE TypeOK'
  <2>1. connected' \subseteq Peers /\ gone' \in Nat
    BY <1>0, <1>13 DEF SweepPeer, TypeOK
  <2> QED
    BY <1>13, <2>1 DEF TypeOK, SweepPeer, handlerVars
<1> QED
  BY <1>1, <1>2, <1>3, <1>4, <1>5, <1>6, <1>7, <1>8, <1>9, <1>10, <1>11, <1>12, <1>13
  DEF Next, Notification, Loop

(* The peers stay covered: a run that has just taken its snapshot covers   *)
(* them all, its list brings them within the maximum, and what a run has   *)
(* closed need not be counted any more.                                    *)
LEMMA CoveredStep == IInv /\ [Next]_vars => Covered'
<1> SUFFICES ASSUME IInv, [Next]_vars PROVE Covered'
  OBVIOUS
<1> USE DEF IInv
<1>0. Seen \subseteq Peers
  BY DEF Seen, TypeOK
<1>1. ASSUME UNCHANGED <<sharder, kind>>, UNCHANGED handlerVars, connected' \subseteq connected
      PROVE  Covered'
  <2>1. FewerSeen /\ RunsStay
    BY <1>1 DEF FewerSeen, RunsStay, Seen, Fresh, handlerVars
  <2> QED
    BY <2>1, CoveredKept
<1>2. CASE UNCHANGED vars
  BY <1>1, <1>2 DEF vars
<1>3. ASSUME NEW p \in Peers, Connect(p) PROVE Covered'
  <2>1. Seen' \subseteq Seen
    BY <1>3 DEF Connect, Seen, Fresh, TypeOK
  <2>2. RunsStay
    BY <1>3 DEF Connect, RunsStay, TypeOK
  <2> QED
    BY <1>3, <2>1, <2>2, CoveredKept DEF FewerSeen, Connect
<1>4. ASSUME NEW p \in Peers, Disconnect(p) \/ Deny(p) PROVE Covered'
  <2>1. /\ UNCHANGED <<sharder, kind>> /\ UNCHANGED handlerVars
        /\ connected' \subseteq connected
    BY <1>4 DEF Disconnect, Deny, ClosePeer
  <2> QED
    BY <1>1, <2>1
<1>5. ASSUME NEW p \in Peers, NEW k \in Kinds \cup {Unlisted}, Learn(p, k) PROVE Covered'
  <2>1. \A q \in Peers : kind'[q] # Unlisted => kind[q] # Unlisted
    BY <1>5 DEF Learn, TypeOK, Unlisted
  <2>2. RunsStay /\ Seen' = Seen /\ sharder' = sharder
    BY <1>5 DEF Learn, RunsStay, Seen, Fresh, handlerVars
  <2> QED
    BY <2>1, <2>2, CoveredKept DEF FewerSeen
<1>6. ASSUME NEW p \in Peers, DropDenied(p) PROVE Covered'
  <2>1. Seen' \subseteq Seen
    BY <1>6 DEF DropDenied, ClosePeer, Seen, Fresh, TypeOK
  <2>2. RunsStay
    BY <1>6 DEF DropDenied, RunsStay, TypeOK
  <2> QED
    BY <1>6, <2>1, <2>2, CoveredKept DEF FewerSeen, DropDenied
<1>7. ASSUME NEW p \in Peers, GetPeers(p) PROVE Covered'
  <2>1. notified'[p] = "compute" /\ allPeers'[p] = connected /\ connected' = connected
    BY <1>7 DEF GetPeers, TypeOK
  <2>2. Seen' \subseteq allPeers'[p]
    BY <2>1 DEF Seen
  <2> QED
    BY <2>1, <2>2 DEF Covered
<1>8. ASSUME NEW p \in Peers, ComputeEvictionList(p) PROVE Covered'
  <2>1. PICK list \in ListsOf(allPeers[p]) : evicted' = [evicted EXCEPT ![p] = list]
    BY <1>8 DEF ComputeEvictionList
  <2>2. /\ notified[p] = "compute" /\ notified'[p] = "close" /\ evicted'[p] = list
        /\ sharder' = sharder /\ kind' = kind /\ Seen' = Seen
    BY <1>8, <2>1 DEF ComputeEvictionList, TypeOK, Seen, Fresh
  <2>3. \A q \in Peers : q # p => /\ notified'[q] = notified[q]
                                 /\ allPeers'[q] = allPeers[q] /\ evicted'[q] = evicted[q]
    BY <1>8, <2>1 DEF ComputeEvictionList, TypeOK
  <2>4. CASE Seen \subseteq allPeers[p]
    <3>1. allPeers[p] \subseteq Peers
      BY DEF TypeOK
    <3>2. Within(allPeers[p] \ list)
      BY <3>1, ListSuffices
    <3>3. Within(Seen \ list)
      BY <2>4, <3>1, <3>2, WithinPart
    <3>4. Within(Seen \ evicted[p])'
      BY <2>2, <3>3 DEF Within, Counted
    <3> QED
      BY <2>2, <3>4 DEF Covered
  <2>5. CASE \E q \in Peers : notified[q] = "compute" /\ q # p /\ Seen \subseteq allPeers[q]
    BY <2>2, <2>3, <2>5 DEF Covered
  <2>6. CASE \E q \in Peers : notified[q] = "close" /\ Within(Seen \ evicted[q])
    <3>1. PICK q \in Peers : notified[q] = "close" /\ Within(Seen \ evicted[q])
      BY <2>6
    <3>2. q # p
      BY <2>2, <3>1
    <3>3. notified'[q] = "close" /\ evicted'[q] = evicted[q]
      BY <2>3, <3>1, <3>2
    <3>4. Within(Seen \ evicted[q])'
      BY <2>2, <3>1, <3>3 DEF Within, Counted
    <3> QED
      BY <3>3, <3>4 DEF Covered
  <2>7. CASE Within(Seen)
    <3>1. Within(Seen)'
      BY <2>2, <2>7 DEF Within, Counted
    <3> QED
      BY <3>1 DEF Covered
  <2> QED
    BY <2>4, <2>5, <2>6, <2>7 DEF Covered
<1>9. ASSUME NEW p \in Peers, ConnectedReturns(p) PROVE Covered'
  <2>1. /\ notified[p] = "close" /\ evicted[p] = {} /\ notified'[p] = "no"
        /\ sharder' = sharder /\ kind' = kind /\ Seen' = Seen
    BY <1>9 DEF ConnectedReturns, TypeOK, Seen, Fresh
  <2>2. \A q \in Peers : q # p => /\ notified'[q] = notified[q]
                                 /\ allPeers'[q] = allPeers[q] /\ evicted'[q] = evicted[q]
    BY <1>9 DEF ConnectedReturns, TypeOK
  <2>3. CASE Within(Seen)
    <3>1. Within(Seen)'
      BY <2>1, <2>3 DEF Within, Counted
    <3> QED
      BY <3>1 DEF Covered
  <2>4. CASE \E q \in Peers : notified[q] = "compute" /\ Seen \subseteq allPeers[q]
    <3>1. PICK q \in Peers : notified[q] = "compute" /\ Seen \subseteq allPeers[q]
      BY <2>4
    <3>2. notified'[q] = "compute" /\ Seen' \subseteq allPeers'[q]
      BY <2>1, <2>2, <3>1
    <3> QED
      BY <3>2 DEF Covered
  <2>5. CASE \E q \in Peers : notified[q] = "close" /\ Within(Seen \ evicted[q])
    <3>1. PICK q \in Peers : notified[q] = "close" /\ Within(Seen \ evicted[q])
      BY <2>5
    <3>2. CASE q = p
      <4>1. Seen \ evicted[q] = Seen
        BY <2>1, <3>2
      <4> QED
        BY <2>3, <3>1, <4>1
    <3>3. CASE q # p
      <4>1. notified'[q] = "close" /\ evicted'[q] = evicted[q]
        BY <2>2, <3>1, <3>3
      <4>2. Within(Seen \ evicted[q])'
        BY <2>1, <3>1, <4>1 DEF Within, Counted
      <4> QED
        BY <4>1, <4>2 DEF Covered
    <3> QED
      BY <3>2, <3>3
  <2> QED
    BY <2>3, <2>4, <2>5 DEF Covered
<1>10. ASSUME NEW p \in Peers, NEW e \in Peers, CloseEvicted(p, e) PROVE Covered'
  <2>1. /\ notified' = notified /\ allPeers' = allPeers /\ sharder' = sharder /\ kind' = kind
        /\ connected' = connected \ {e} /\ evicted' = [evicted EXCEPT ![p] = @ \ {e}]
    BY <1>10 DEF CloseEvicted, ClosePeer
  <2>2. Seen' = Seen \ {e}
    BY <2>1 DEF Seen, Fresh
  <2>3. CASE Within(Seen)
    <3>1. Within(Seen \ {e})
      BY <1>0, <2>3, WithinPart
    <3>2. Within(Seen)'
      BY <2>1, <2>2, <3>1 DEF Within, Counted
    <3> QED
      BY <3>2 DEF Covered
  <2>4. CASE \E q \in Peers : notified[q] = "compute" /\ Seen \subseteq allPeers[q]
    <3>1. PICK q \in Peers : notified[q] = "compute" /\ Seen \subseteq allPeers[q]
      BY <2>4
    <3>2. notified'[q] = "compute" /\ Seen' \subseteq allPeers'[q]
      BY <2>1, <2>2, <3>1
    <3> QED
      BY <3>2 DEF Covered
  <2>5. CASE \E q \in Peers : notified[q] = "close" /\ Within(Seen \ evicted[q])
    <3>1. PICK q \in Peers : notified[q] = "close" /\ Within(Seen \ evicted[q])
      BY <2>5
    <3>2. evicted'[q] = evicted[q] \/ evicted'[q] = evicted[q] \ {e}
      BY <2>1, <3>1 DEF TypeOK
    <3>3. Seen' \ evicted'[q] \subseteq Seen \ evicted[q]
      BY <2>2, <3>2
    <3>4. Within(Seen \ evicted[q])'
      BY <1>0, <2>1, <3>1, <3>3, WithinLater DEF Within, Counted
    <3>5. notified'[q] = "close"
      BY <2>1, <3>1
    <3> QED
      BY <3>4, <3>5 DEF Covered
  <2> QED
    BY <2>3, <2>4, <2>5 DEF Covered
<1>11. CASE Disconnected \/ ReconnectToNetwork \/ AttemptTimer \/ StartSweep \/ SweepEnds
  <2>1. UNCHANGED <<sharder, kind>> /\ UNCHANGED handlerVars /\ connected' \subseteq connected
    BY <1>11 DEF Disconnected, ReconnectToNetwork, AttemptTimer, StartSweep, SweepEnds
  <2> QED
    BY <1>1, <2>1
<1>12. ASSUME NEW p \in Peers, SweepPeer(p) PROVE Covered'
  <2>1. UNCHANGED <<sharder, kind>> /\ UNCHANGED handlerVars /\ connected' \subseteq connected
    BY <1>12 DEF SweepPeer, ClosePeer
  <2> QED
    BY <1>1, <2>1
<1> QED
  BY <1>2, <1>3, <1>4, <1>5, <1>6, <1>7, <1>8, <1>9, <1>10, <1>11, <1>12
  DEF Next, Notification, Loop

(* The node starts with a sharder that has nothing to evict.               *)
LEMMA InitCovered == Init => IInv
<1> SUFFICES ASSUME Init PROVE IInv
  OBVIOUS
<1>1. TypeOK
  BY ComersAssumption DEF Init, TypeOK
<1>2. connected \subseteq Peers /\ {} \in ListsOf(connected)
  BY <1>1 DEF Init, TypeOK
<1>3. Within(connected \ {})
  BY <1>1, <1>2, ListSuffices
<1>4. Seen \subseteq connected \ {} /\ connected \ {} \subseteq Peers
  BY <1>2 DEF Seen
<1>5. Within(Seen)
  BY <1>3, <1>4, WithinPart
<1> QED
  BY <1>1, <1>5 DEF IInv, Covered

(***************************************************************************)
(* However many runs of Connected overlap, each with a snapshot of its own *)
(* that connections, disconnections, sweeps and the resolver outdate, the  *)
(* node is within the sharder's maximum whenever no run is left            *)
(* (Connected, ComputeEvictionList).                                       *)
(***************************************************************************)
THEOREM MonitorCorrect == Spec => []MonitorInv
<1>1. Init => IInv
  BY InitCovered
<1>2. IInv /\ [Next]_vars => IInv'
  BY TypeStep, CoveredStep DEF IInv
<1>3. IInv => MonitorInv
  <2> SUFFICES ASSUME IInv, Quiet PROVE Within(connected)
    BY DEF IInv, MonitorInv, SettledWithinMaximum, Within, Counted
  <2>1. \A p \in Peers : notified[p] = "no"
    BY DEF Quiet
  <2>2. connected \subseteq Peers
    BY DEF IInv, TypeOK
  <2>3. Seen = connected
    BY <2>1, <2>2 DEF Seen, Fresh
  <2>4. Within(Seen)
    BY <2>1 DEF IInv, Covered
  <2> QED
    BY <2>3, <2>4
<1> QED
  BY <1>1, <1>2, <1>3, PTL DEF Spec
=============================================================================
