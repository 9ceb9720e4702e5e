----------------------------- MODULE PeersRating -----------------------------
(***************************************************************************)
(* The ratings of peers, p2p/rating: two bounded caches, the top rated and *)
(* the bad rated tier, changed under the handler's mutex, and the monitor, *)
(* which reads the two caches without it for every peer that the           *)
(* connections handler lists (ConnectedPeers, connectionsHandler.go).      *)
(* A cache drops the entry that was put or read least recently.            *)
(***************************************************************************)
EXTENDS Integers, Sequences, FiniteSets, SequencesExt

CONSTANTS RatedPeers, Capacity,          \* Capacity: entries of each cache
          MinRating, MaxRating, IncreaseFactor, DecreaseFactor,
          MaxAsked,                 \* bound: peers in a list to select from
          MaxConns,                 \* bound: connections to one peer
          MaxConnChanges            \* bound: connections opened or closed

ASSUME RatingAssumption == /\ Capacity \in Nat \ {0}
                           /\ MinRating \in Int /\ MaxRating \in Int
                           /\ MinRating < 0 /\ MaxRating > 0
                           /\ IncreaseFactor \in Int /\ DecreaseFactor \in Int
                           /\ IncreaseFactor > 0 /\ DecreaseFactor < 0
ASSUME RatingBounds == MaxAsked \in Nat /\ MaxConns \in Nat \ {0} /\ MaxConnChanges \in Nat

DefaultRating == 0
Unknown == MinRating - 1            \* "unknown" in the report

VARIABLES top, bad,         \* the caches: sequences of [pid, rating], least recent first
          moving,           \* movePeerToNewTier between Remove and Put: the entry, or NoEntry
          asked,            \* the list GetTopRatedPeersFromList was called with, or <<>>
          next,             \* index of the peer splitPeersByTiers looks at next
          topRated,
          badRated,         \* what it has collected so far
          conns,            \* conns[p]: open connections to p
          changes,
          monitor,          \* where GetConnectedPeersRatings is
          snapshot,         \* connections ConnectedPeers has still to look at
          listed,           \* the peers found connected, not reported yet
          window,           \* history: ratings the peer had since its fetch began
          reported          \* the rating just put in the report

ratingVars == <<top, bad, moving>>
selectVars == <<asked, next, topRated, badRated>>
monitorVars == <<monitor, snapshot, listed, window, reported>>
ratingHandlerVars == <<ratingVars, selectVars, monitorVars, conns, changes>>

NoEntry == [pid |-> "none", rating |-> 0]
Entries == [pid : RatedPeers, rating : MinRating .. MaxRating]
Unlocked == moving = NoEntry /\ asked = <<>>       \* the handler's mutex

-----------------------------------------------------------------------------
(* The cache.                                                              *)
PidsOf(cache) == {cache[i].pid : i \in DOMAIN cache}
PlaceOf(cache, p) == CHOOSE i \in DOMAIN cache : cache[i].pid = p
RatingIn(cache, p) == cache[PlaceOf(cache, p)].rating
RemoveFrom(cache, p) == IF p \in PidsOf(cache) THEN RemoveAt(cache, PlaceOf(cache, p)) ELSE cache
PutIn(cache, p, rating) ==
    LET others == RemoveFrom(cache, p)
        room == IF Len(others) = Capacity THEN Tail(others) ELSE others
    IN  Append(room, [pid |-> p, rating |-> rating])
(* Get makes the entry the most recent one; Has does not.                  *)
Touched(cache, p) == IF p \in PidsOf(cache) THEN PutIn(cache, p, RatingIn(cache, p)) ELSE cache

(* The rating a reader of both tiers would find for p in one step.         *)
RatingOf(p) == CASE p \in PidsOf(top) -> RatingIn(top, p)
                 [] p \in PidsOf(bad) -> RatingIn(bad, p)
                 [] OTHER -> Unknown

-----------------------------------------------------------------------------
RatingTypeOK ==
    /\ top \in Seq(Entries) /\ bad \in Seq(Entries)
    /\ Len(top) <= Capacity /\ Len(bad) <= Capacity
    /\ moving = NoEntry \/ moving \in Entries
    /\ asked \in Seq(RatedPeers) /\ IsInjective(asked) /\ next \in 1 .. Len(asked) + 1
    /\ topRated \in Seq(RatedPeers) /\ badRated \in Seq(RatedPeers)
    /\ conns \in [RatedPeers -> 0 .. MaxConns] /\ changes \in 0 .. MaxConnChanges
    /\ monitor \in {"idle", "list", "top", "bad", "report"}
    /\ snapshot \in [RatedPeers -> 0 .. MaxConns]
    /\ listed \in Seq(RatedPeers) /\ IsInjective(listed)
    /\ monitor \in {"top", "bad", "report"} => listed # <<>>
    /\ window \subseteq MinRating - 1 .. MaxRating
    /\ reported \in MinRating - 1 .. MaxRating

RatingInit ==
    /\ top = <<>> /\ bad = <<>> /\ moving = NoEntry
    /\ asked = <<>> /\ next = 1 /\ topRated = <<>> /\ badRated = <<>>
    /\ conns = [p \in RatedPeers |-> 1] /\ changes = 0
    /\ monitor = "idle" /\ snapshot = [p \in RatedPeers |-> 0] /\ listed = <<>>
    /\ window = {Unknown} /\ reported = Unknown

(* History: the peer the monitor is fetching has a new rating.             *)
Watch == window' = IF monitor \in {"top", "bad"} THEN window \cup {RatingOf(Head(listed))'} ELSE window

LimitRating(rating) == IF rating > MaxRating THEN MaxRating
                       ELSE IF rating < MinRating THEN MinRating ELSE rating

(* getOldRating and the new rating of a peer that is in one of the caches. *)
NewRating(p, factor) ==
    LimitRating((IF p \in PidsOf(top) THEN RatingIn(top, p) ELSE RatingIn(bad, p)) + factor)

(* Mutant: the new entry is put before the old one is removed.             *)
UpdateRatingPutFirst(p, factor) ==
    /\ Unlocked
    /\ LET new == NewRating(p, factor)
       IN  \/ /\ p \notin PidsOf(top) \cup PidsOf(bad)
              /\ top' = PutIn(top, p, DefaultRating) /\ UNCHANGED <<bad, moving>>
           \/ /\ p \in PidsOf(top) /\ new >= DefaultRating
              /\ top' = PutIn(top, p, new) /\ UNCHANGED <<bad, moving>>
           \/ /\ p \in PidsOf(bad) /\ new < DefaultRating
              /\ bad' = PutIn(bad, p, new) /\ UNCHANGED <<top, moving>>
           \/ /\ p \in PidsOf(top) /\ new < DefaultRating
              /\ top' = RemoveFrom(top, p) /\ UNCHANGED bad
              /\ moving' = [pid |-> p, rating |-> new]
           \/ /\ p \in PidsOf(bad) /\ new >= DefaultRating
              /\ top' = PutIn(top, p, new) /\ UNCHANGED bad
              /\ moving' = [pid |-> p, rating |-> new]
    /\ UNCHANGED <<selectVars, monitor, snapshot, listed, reported, conns, changes>>
    /\ Watch

(* IncreaseRating and DecreaseRating, factor being theirs: updateRating    *)
(* under the mutex.  A peer that changes tiers is first removed from the   *)
(* old one.                                                                *)
UpdateRating(p, factor) ==
    /\ Unlocked
    /\ LET new == NewRating(p, factor)
       IN  \/ /\ p \notin PidsOf(top) \cup PidsOf(bad)
              /\ top' = PutIn(top, p, DefaultRating) /\ UNCHANGED <<bad, moving>>
           \/ /\ p \in PidsOf(top) /\ new >= DefaultRating
              /\ top' = PutIn(top, p, new) /\ UNCHANGED <<bad, moving>>
           \/ /\ p \in PidsOf(bad) /\ new < DefaultRating
              /\ bad' = PutIn(bad, p, new) /\ UNCHANGED <<top, moving>>
           \/ /\ p \in PidsOf(top) /\ new < DefaultRating
              /\ top' = RemoveFrom(top, p) /\ UNCHANGED bad
              /\ moving' = [pid |-> p, rating |-> new]
           \/ /\ p \in PidsOf(bad) /\ new >= DefaultRating
              /\ bad' = RemoveFrom(bad, p) /\ UNCHANGED top
              /\ moving' = [pid |-> p, rating |-> new]
    /\ UNCHANGED <<selectVars, monitor, snapshot, listed, reported, conns, changes>>
    /\ Watch

(* ... and then put in the new one; the mutex is held throughout.          *)
MovePeerToNewTier ==
    /\ moving # NoEntry /\ moving' = NoEntry
    /\ IF moving.rating >= DefaultRating
       THEN top' = PutIn(top, moving.pid, moving.rating) /\ UNCHANGED bad
       ELSE bad' = PutIn(bad, moving.pid, moving.rating) /\ UNCHANGED top
    /\ UNCHANGED <<selectVars, monitor, snapshot, listed, reported, conns, changes>>
    /\ Watch

(* GetTopRatedPeersFromList, for a list that is not empty and a number     *)
(* that is at least one; otherwise it returns an empty list at once.       *)
GetTopRatedPeersFromList(peers) ==
    /\ Unlocked
    /\ asked' = peers /\ next' = 1 /\ topRated' = <<>> /\ badRated' = <<>>
    /\ UNCHANGED <<ratingVars, monitorVars, conns, changes>>

(* splitPeersByTiers, one peer of the list: a peer without rating is put   *)
(* in the top tier, which may push out the entry of another one.           *)
SplitPeersByTiers ==
    /\ next <= Len(asked) /\ next' = next + 1
    /\ LET peer == asked[next]
           isNewPeer == peer \notin PidsOf(top) \cup PidsOf(bad)
       IN  /\ top' = IF isNewPeer THEN PutIn(top, peer, DefaultRating) ELSE top
           /\ topRated' = IF peer \in PidsOf(top) \/ isNewPeer THEN Append(topRated, peer)
                          ELSE topRated
           /\ badRated' = IF peer \in PidsOf(bad) THEN Append(badRated, peer) ELSE badRated
    /\ UNCHANGED <<bad, moving, asked, monitor, snapshot, listed, reported, conns, changes>>
    /\ Watch

(* Mutant: the bad rated peers are added only when nobody is top rated.    *)
TopRatedOrBad(min) == IF Len(topRated) = 0 THEN badRated ELSE topRated

(* What is returned when all peers have been looked at, min being the      *)
(* number that was asked for ...                                           *)
TopRatedPeers(min) == IF Len(topRated) < min THEN topRated \o badRated ELSE topRated
SelectionReady == asked # <<>> /\ next > Len(asked)
(* ... and the mutex is released.                                          *)
SelectionReturned ==
    /\ SelectionReady
    /\ asked' = <<>> /\ next' = 1 /\ topRated' = <<>> /\ badRated' = <<>>
    /\ UNCHANGED <<ratingVars, monitorVars, conns, changes>>

-----------------------------------------------------------------------------
(* The monitor asks the connections handler for the connected peers, which *)
(* copies the list of connections ...                                      *)
GetConnectedPeersRatings ==
    /\ monitor = "idle"
    /\ monitor' = "list" /\ snapshot' = conns /\ listed' = <<>>
    /\ UNCHANGED <<ratingVars, selectVars, window, reported, conns, changes>>

(* ... and keeps, once, each peer that is still connected.                 *)
ConnectedPeers(p) ==
    /\ monitor = "list" /\ snapshot[p] > 0
    /\ snapshot' = [snapshot EXCEPT ![p] = @ - 1]
    /\ listed' = IF conns[p] > 0 /\ p \notin ToSet(listed) THEN Append(listed, p) ELSE listed
    /\ UNCHANGED <<ratingVars, selectVars, monitor, window, reported, conns, changes>>

FetchNext(list) ==
    /\ listed' = list
    /\ monitor' = IF list = <<>> THEN "idle" ELSE "top"
    /\ window' = IF list = <<>> THEN {Unknown} ELSE {RatingOf(Head(list))}

ListComplete ==
    /\ monitor = "list" /\ \A p \in RatedPeers : snapshot[p] = 0
    /\ FetchNext(listed)
    /\ UNCHANGED <<ratingVars, selectVars, snapshot, reported, conns, changes>>

(* fetchRating: the top rated cache is read, then the other one.           *)
FetchTop ==
    /\ monitor = "top"
    /\ LET p == Head(listed)
       IN  /\ top' = Touched(top, p)
           /\ IF p \in PidsOf(top) THEN reported' = RatingIn(top, p) /\ monitor' = "report"
              ELSE monitor' = "bad" /\ UNCHANGED reported
    /\ UNCHANGED <<bad, moving, selectVars, snapshot, listed, window, conns, changes>>
(* Mutant: a peer found in no cache is reported with the default rating.   *)
FetchBadDefault ==
    /\ monitor = "bad"
    /\ LET p == Head(listed)
       IN  /\ bad' = Touched(bad, p)
           /\ reported' = IF p \in PidsOf(bad) THEN RatingIn(bad, p) ELSE DefaultRating
    /\ monitor' = "report"
    /\ UNCHANGED <<top, moving, selectVars, snapshot, listed, window, conns, changes>>

FetchBad ==
    /\ monitor = "bad"
    /\ LET p == Head(listed)
       IN  /\ bad' = Touched(bad, p)
           /\ reported' = IF p \in PidsOf(bad) THEN RatingIn(bad, p) ELSE Unknown
    /\ monitor' = "report"
    /\ UNCHANGED <<top, moving, selectVars, snapshot, listed, window, conns, changes>>
Report ==
    /\ monitor = "report"
    /\ FetchNext(Tail(listed))
    /\ UNCHANGED <<ratingVars, selectVars, snapshot, reported, conns, changes>>

ConnectionChange(p) ==
    /\ changes < MaxConnChanges /\ changes' = changes + 1
    /\ \/ conns[p] < MaxConns /\ conns' = [conns EXCEPT ![p] = @ + 1]
       \/ conns[p] > 0 /\ conns' = [conns EXCEPT ![p] = @ - 1]
    /\ UNCHANGED <<ratingVars, selectVars, monitorVars>>

Lists == {s \in SeqOf(RatedPeers, MaxAsked) : s # <<>> /\ IsInjective(s)}
RatingNext ==
    \/ \E p \in RatedPeers : UpdateRating(p, IncreaseFactor) \/ UpdateRating(p, DecreaseFactor)
    \/ MovePeerToNewTier
    \/ (\E peers \in Lists : GetTopRatedPeersFromList(peers))
    \/ SplitPeersByTiers \/ SelectionReturned
    \/ GetConnectedPeersRatings \/ (\E p \in RatedPeers : ConnectedPeers(p)) \/ ListComplete
    \/ FetchTop \/ FetchBad \/ Report
    \/ \E p \in RatedPeers : ConnectionChange(p)
RatingSpec == RatingInit /\ [][RatingNext]_ratingHandlerVars

-----------------------------------------------------------------------------
(* A peer is in one tier, once, and in the tier its rating belongs to; a   *)
(* peer between two tiers is in none (updateRatingCacher with the bounded  *)
(* caches of splitPeersByTiers).                                           *)
OneTierPerPeer ==
    /\ PidsOf(top) \cap PidsOf(bad) = {}
    /\ moving # NoEntry => moving.pid \notin PidsOf(top) \cup PidsOf(bad)
    /\ \A cache \in {top, bad} :
         \A i, j \in DOMAIN cache : cache[i].pid = cache[j].pid => i = j
    /\ \A i \in DOMAIN top : top[i].rating >= DefaultRating
    /\ \A i \in DOMAIN bad : bad[i].rating < DefaultRating

(* The two caches: ratings within their limits, sizes within the capacity, *)
(* every peer in one tier.                                                 *)
RatingInv == RatingTypeOK /\ OneTierPerPeer

(* GetTopRatedPeersFromList returns peers of the list without repetition,  *)
(* at least as many as asked for if the list has them, everybody who was   *)
(* not bad rated, and a bad rated one only when the others are too few -   *)
(* although rating new peers pushes others out of the cache meanwhile.     *)
SelectionIsEnough ==
    SelectionReady =>
        \A min \in 1 .. Len(asked) + 1 :
            LET result == TopRatedPeers(min)
                got == ToSet(result)
                good == ToSet(asked) \ PidsOf(bad)
            IN  /\ IsInjective(result)
                /\ good \subseteq got /\ got \subseteq ToSet(asked)
                /\ Len(result) >= min \/ got = ToSet(asked)
                /\ got # good => Cardinality(good) < min

(* The monitor, which does not take the mutex, reports a rating the peer   *)
(* had while it was fetched, and "unknown" only if there was a moment when *)
(* the peer had none - as between the two tiers.                           *)
ReportedRatingWasHeld == monitor = "report" => reported \in window
=============================================================================
