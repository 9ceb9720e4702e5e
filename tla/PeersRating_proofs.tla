-------------------------- MODULE PeersRating_proofs --------------------------
(***************************************************************************)
(* The ratings of peers, for any number of peers, caches of any size, all  *)
(* limits and factors and lists of any length.                             *)
(***************************************************************************)
EXTENDS PeersRating, FiniteSetTheorems, TLAPS

(***************************************************************************)
(* The inductive invariant.                                                *)
(***************************************************************************)
(* A cache holds a bounded number of entries, of different peers.          *)
Cache(c) ==
    /\ c \in Seq(Entries) /\ Len(c) <= Capacity
    /\ \A i, j \in 1 .. Len(c) : c[i].pid = c[j].pid => i = j

TopRatings == DefaultRating .. MaxRating
BadRatings == MinRating .. DefaultRating - 1
TiersInv ==
    /\ Cache(top) /\ \A q \in PidsOf(top) : RatingIn(top, q) \in TopRatings
    /\ Cache(bad) /\ \A q \in PidsOf(bad) : RatingIn(bad, q) \in BadRatings
    /\ \A q \in PidsOf(top) : q \notin PidsOf(bad)
    /\ moving = NoEntry \/ moving \in Entries
    /\ moving # NoEntry => moving.pid \notin PidsOf(top) /\ moving.pid \notin PidsOf(bad)

(* What splitPeersByTiers has collected is what it has looked at, by tier. *)
Looked == {asked[j] : j \in 1 .. next - 1}
SplitInv ==
    /\ asked \in Seq(RatedPeers) /\ IsInjective(asked) /\ next \in 1 .. Len(asked) + 1
    /\ topRated \in Seq(RatedPeers) /\ badRated \in Seq(RatedPeers)
    /\ asked # <<>> => moving = NoEntry
    /\ ToSet(topRated) = Looked \ PidsOf(bad) /\ IsInjective(topRated)
    /\ ToSet(badRated) = Looked \cap PidsOf(bad) /\ IsInjective(badRated)

(* The reader of the caches: the rating its peer has now is one it has had *)
(* since the fetch began; past the top tier it will find the peer in the   *)
(* bad one, or there was a moment when the peer had no rating.             *)
Reported == MinRating - 1 .. MaxRating
ConnsInv ==
    /\ conns \in [RatedPeers -> 0 .. MaxConns] /\ changes \in 0 .. MaxConnChanges
    /\ snapshot \in [RatedPeers -> 0 .. MaxConns]
ReportInv ==
    /\ monitor \in {"idle", "list", "top", "bad", "report"}
    /\ listed \in Seq(RatedPeers) /\ IsInjective(listed)
    /\ monitor \in {"top", "bad", "report"} => listed # <<>>
    /\ window \subseteq Reported /\ reported \in Reported
    /\ monitor \in {"top", "bad"} => RatingOf(Head(listed)) \in window
    /\ monitor = "bad" => Unknown \in window \/ Head(listed) \in PidsOf(bad)
    /\ monitor = "report" => reported \in window

IInv == TiersInv /\ SplitInv /\ ConnsInv /\ ReportInv
-----------------------------------------------------------------------------
(***************************************************************************)
(* The caches.                                                             *)
(***************************************************************************)
LEMMA Place ==
    ASSUME NEW c, Cache(c), NEW p \in PidsOf(c)
    PROVE  PlaceOf(c, p) \in 1 .. Len(c) /\ c[PlaceOf(c, p)].pid = p
<1>1. DOMAIN c = 1 .. Len(c)
  BY DEF Cache
<1>2. \E i \in DOMAIN c : c[i].pid = p
  BY DEF PidsOf
<1> QED
  BY <1>1, <1>2 DEF PlaceOf

LEMMA EntryRating ==
    ASSUME NEW c, Cache(c), NEW i \in 1 .. Len(c)
    PROVE  /\ c[i] \in Entries /\ c[i].pid \in PidsOf(c) /\ c[i].pid \in RatedPeers
           /\ RatingIn(c, c[i].pid) = c[i].rating /\ c[i].rating \in MinRating .. MaxRating
<1>1. DOMAIN c = 1 .. Len(c) /\ c[i] \in Entries
  BY DEF Cache
<1>2. c[i].pid \in PidsOf(c)
  BY <1>1 DEF PidsOf
<1>3. PlaceOf(c, c[i].pid) = i
  BY <1>2, Place DEF Cache
<1> QED
  BY <1>1, <1>2, <1>3 DEF RatingIn, Entries

(* The entries of a cache by their places.                                 *)
LEMMA PidsByPlace ==
    ASSUME NEW c, Cache(c), NEW p
    PROVE  p \in PidsOf(c) <=> \E i \in 1 .. Len(c) : c[i].pid = p
<1>1. DOMAIN c = 1 .. Len(c)
  BY DEF Cache
<1> QED
  BY <1>1 DEF PidsOf

(* One entry is taken out, wherever it is.                                 *)
Without(d, c, k) ==
    /\ d \in Seq(Entries) /\ Len(d) = Len(c) - 1
    /\ \A i \in 1 .. Len(d) : d[i] = IF i < k THEN c[i] ELSE c[i + 1]
LEMMA CutCache ==
    ASSUME NEW c, Cache(c), NEW k \in 1 .. Len(c), NEW d, Without(d, c, k)
    PROVE  /\ Cache(d)
           /\ \A q : q \in PidsOf(d) <=> q \in PidsOf(c) /\ q # c[k].pid
           /\ \A q \in PidsOf(d) : RatingIn(d, q) = RatingIn(c, q)
<1> DEFINE From(i) == IF i < k THEN i ELSE i + 1
<1>0. Len(c) \in Nat /\ Len(d) \in Nat /\ Len(d) = Len(c) - 1 /\ Capacity \in Nat
  BY RatingAssumption DEF Cache, Without
<1>1. \A i \in 1 .. Len(d) : From(i) \in 1 .. Len(c) /\ From(i) # k /\ d[i] = c[From(i)]
  BY <1>0 DEF Without
<1>2. \A i, j \in 1 .. Len(d) : From(i) = From(j) => i = j
  BY <1>0
<1>3. \A j \in 1 .. Len(c) : j # k => \E i \in 1 .. Len(d) : From(i) = j
  <2> SUFFICES ASSUME NEW j \in 1 .. Len(c), j # k PROVE \E i \in 1 .. Len(d) : From(i) = j
    OBVIOUS
  <2>1. CASE j < k
    BY <1>0, <2>1
  <2>2. CASE j > k
    <3>1. j - 1 \in 1 .. Len(d) /\ From(j - 1) = j
      BY <1>0, <2>2
    <3> QED
      BY <3>1
  <2> QED
    BY <2>1, <2>2
<1> HIDE DEF From
<1>4. \A i, j \in 1 .. Len(c) : c[i].pid = c[j].pid => i = j
  BY DEF Cache
<1>5. Cache(d)
  <2>1. \A i, j \in 1 .. Len(d) : d[i].pid = d[j].pid => i = j
    BY <1>1, <1>2, <1>4
  <2> QED
    BY <1>0, <2>1 DEF Cache, Without
<1>6. \A q : q \in PidsOf(d) => q \in PidsOf(c) /\ q # c[k].pid /\ RatingIn(d, q) = RatingIn(c, q)
  <2> SUFFICES ASSUME NEW q \in PidsOf(d)
               PROVE  q \in PidsOf(c) /\ q # c[k].pid /\ RatingIn(d, q) = RatingIn(c, q)
    OBVIOUS
  <2>1. PICK i \in 1 .. Len(d) : d[i].pid = q
    BY <1>5, PidsByPlace
  <2>2. RatingIn(d, q) = d[i].rating
    BY <1>5, <2>1, EntryRating
  <2>3. From(i) \in 1 .. Len(c) /\ From(i) # k /\ c[From(i)] = d[i]
    BY <1>1
  <2>4. q \in PidsOf(c) /\ RatingIn(c, q) = c[From(i)].rating
    BY <2>1, <2>3, EntryRating
  <2> QED
    BY <1>4, <2>1, <2>2, <2>3, <2>4
<1>7. \A q : q \in PidsOf(c) /\ q # c[k].pid => q \in PidsOf(d)
  <2> SUFFICES ASSUME NEW q \in PidsOf(c), q # c[k].pid PROVE q \in PidsOf(d)
    OBVIOUS
  <2>1. PICK j \in 1 .. Len(c) : c[j].pid = q
    BY PidsByPlace
  <2>2. PICK i \in 1 .. Len(d) : From(i) = j
    BY <1>3, <2>1
  <2> QED
    BY <1>1, <1>5, <2>1, <2>2, PidsByPlace
<1> QED
  BY <1>5, <1>6, <1>7

LEMMA ConcatFacts ==
    ASSUME NEW S, NEW a \in Seq(S), NEW b \in Seq(S)
    PROVE  /\ a \o b \in Seq(S) /\ Len(a \o b) = Len(a) + Len(b)
           /\ \A i \in 1 .. Len(a) : (a \o b)[i] = a[i]
           /\ \A i \in Len(a) + 1 .. Len(a) + Len(b) : (a \o b)[i] = b[i - Len(a)]
OBVIOUS

LEMMA RemoveCache ==
    ASSUME NEW c, Cache(c), NEW p
    PROVE  /\ Cache(RemoveFrom(c, p))
           /\ \A q : q \in PidsOf(RemoveFrom(c, p)) <=> q \in PidsOf(c) /\ q # p
           /\ \A q \in PidsOf(RemoveFrom(c, p)) : RatingIn(RemoveFrom(c, p), q) = RatingIn(c, q)
           /\ p \in PidsOf(c) => Len(RemoveFrom(c, p)) < Capacity
<1>1. CASE p \in PidsOf(c)
  <2> DEFINE k == PlaceOf(c, p)
             d == RemoveFrom(c, p)
  <2>1. k \in 1 .. Len(c) /\ c[k].pid = p
    BY <1>1, Place
  <2>2. d = RemoveAt(c, k)
    BY <1>1 DEF RemoveFrom
  <2>3. c \in Seq(Entries) /\ Len(c) <= Capacity
    BY DEF Cache
  <2>4. Without(d, c, k)
    <3> HIDE DEF k
    <3> DEFINE a == SubSeq(c, 1, k - 1)
               b == SubSeq(c, k + 1, Len(c))
    <3>1. d = a \o b
      BY <2>2 DEF RemoveAt
    <3>2. a \in Seq(Entries) /\ Len(a) = k - 1 /\ \A i \in 1 .. k - 1 : a[i] = c[i]
      BY <2>1, <2>3
    <3>3. b \in Seq(Entries) /\ Len(b) = Len(c) - k /\ \A i \in 1 .. Len(c) - k : b[i] = c[k + i]
      BY <2>1, <2>3
    <3> HIDE DEF a, b, d
    <3>4. d \in Seq(Entries) /\ Len(d) = Len(c) - 1
      <4>1. d \in Seq(Entries) /\ Len(d) = Len(a) + Len(b)
        BY <3>1, <3>2, <3>3, ConcatFacts
      <4>2. Len(c) \in Nat /\ k \in Int
        BY <2>1, <2>3
      <4> QED
        BY <3>2, <3>3, <4>1, <4>2
    <3>5. ASSUME NEW i \in 1 .. Len(d) PROVE d[i] = IF i < k THEN c[i] ELSE c[i + 1]
      <4>1. CASE i < k
        BY <2>1, <2>3, <3>1, <3>2, <3>3, <3>4, <4>1
      <4>2. CASE i >= k
        <5>1. i - (k - 1) \in 1 .. Len(c) - k /\ k + (i - (k - 1)) = i + 1
          BY <2>1, <2>3, <3>4, <4>2
        <5>2. d[i] = b[i - (k - 1)]
          BY <2>1, <2>3, <3>1, <3>2, <3>3, <3>4, <4>2
        <5>3. b[i - (k - 1)] = c[k + (i - (k - 1))]
          BY <3>3, <5>1
        <5> QED
          BY <2>1, <4>2, <5>1, <5>2, <5>3
      <4> QED
        BY <2>1, <4>1, <4>2
    <3> QED
      BY <3>4, <3>5 DEF Without
  <2>5. Len(d) < Capacity
    BY <2>3, <2>4, RatingAssumption DEF Without
  <2> HIDE DEF d, k
  <2>6. /\ Cache(d) /\ \A q \in PidsOf(d) : RatingIn(d, q) = RatingIn(c, q)
        /\ \A q : q \in PidsOf(d) <=> q \in PidsOf(c) /\ q # p
    BY <2>1, <2>4, CutCache
  <2> QED
    BY <2>5, <2>6 DEF d
<1>2. CASE p \notin PidsOf(c)
  BY <1>2 DEF RemoveFrom
<1> QED
  BY <1>1, <1>2

With(d, c, p, r) == d = Append(c, [pid |-> p, rating |-> r])
LEMMA AppendCache ==
    ASSUME NEW c, Cache(c), Len(c) < Capacity, NEW p \in RatedPeers, p \notin PidsOf(c),
           NEW r \in MinRating .. MaxRating, NEW d, With(d, c, p, r)
    PROVE  /\ Cache(d) /\ RatingIn(d, p) = r
           /\ \A q : q \in PidsOf(d) <=> q \in PidsOf(c) \/ q = p
           /\ \A q \in PidsOf(c) : RatingIn(d, q) = RatingIn(c, q)
<1> DEFINE e == [pid |-> p, rating |-> r]
<1>0. e \in Entries /\ e.pid = p /\ e.rating = r /\ c \in Seq(Entries) /\ Capacity \in Nat
  BY RatingAssumption DEF Entries, Cache
<1> HIDE DEF e
<1>1. /\ d \in Seq(Entries) /\ Len(d) = Len(c) + 1 /\ d[Len(c) + 1] = e /\ Len(c) \in Nat
      /\ \A i \in 1 .. Len(c) : d[i] = c[i]
  BY <1>0 DEF e, With
<1>2. \A i \in 1 .. Len(d) : i \in 1 .. Len(c) \/ i = Len(c) + 1
  BY <1>1
<1>3. \A i \in 1 .. Len(c) : c[i].pid # p
  BY PidsByPlace
<1>4. Cache(d)
  <2>1. \A i, j \in 1 .. Len(d) : d[i].pid = d[j].pid => i = j
    BY <1>0, <1>1, <1>2, <1>3 DEF Cache
  <2> QED
    BY <1>0, <1>1, <2>1 DEF Cache
<1>5. Len(c) + 1 \in 1 .. Len(d) /\ \A i \in 1 .. Len(c) : i \in 1 .. Len(d)
  BY <1>1
<1>6. PICK n \in 1 .. Len(d) : n = Len(c) + 1 /\ d[n].pid = p /\ d[n].rating = r
  BY <1>0, <1>1, <1>5
<1>7. p \in PidsOf(d) /\ RatingIn(d, p) = r
  BY <1>4, <1>6, EntryRating
<1>8. \A q \in PidsOf(d) : q \in PidsOf(c) \/ q = p
  <2> SUFFICES ASSUME NEW q \in PidsOf(d) PROVE q \in PidsOf(c) \/ q = p
    OBVIOUS
  <2>1. PICK i \in 1 .. Len(d) : d[i].pid = q
    BY <1>4, PidsByPlace
  <2> QED
    BY <1>1, <1>2, <1>6, <2>1, PidsByPlace
<1>9. ASSUME NEW q \in PidsOf(c) PROVE q \in PidsOf(d) /\ RatingIn(d, q) = RatingIn(c, q)
  <2>1. PICK i \in 1 .. Len(c) : c[i].pid = q
    BY PidsByPlace
  <2>2. RatingIn(c, q) = c[i].rating
    BY <2>1, EntryRating
  <2>3. q \in PidsOf(d) /\ RatingIn(d, q) = d[i].rating
    BY <1>1, <1>4, <1>5, <2>1, EntryRating
  <2> QED
    BY <1>1, <2>2, <2>3
<1> QED
  BY <1>4, <1>7, <1>8, <1>9

(* Put: the entry of p is the most recent one, another one may be gone.    *)
LEMMA PutCache ==
    ASSUME NEW c, Cache(c), NEW p \in RatedPeers, NEW r \in MinRating .. MaxRating
    PROVE  LET d == PutIn(c, p, r)
           IN  /\ Cache(d) /\ p \in PidsOf(d) /\ RatingIn(d, p) = r
               /\ \A q \in PidsOf(d) : q # p => q \in PidsOf(c) /\ RatingIn(d, q) = RatingIn(c, q)
               /\ p \in PidsOf(c) => \A q \in PidsOf(c) : q \in PidsOf(d)
<1> DEFINE others == RemoveFrom(c, p)
           room == IF Len(others) = Capacity THEN Tail(others) ELSE others
           d == PutIn(c, p, r)
<1>1. /\ Cache(others) /\ \A q : q \in PidsOf(others) <=> q \in PidsOf(c) /\ q # p
      /\ \A q \in PidsOf(others) : RatingIn(others, q) = RatingIn(c, q)
      /\ p \in PidsOf(c) => Len(others) < Capacity
  BY RemoveCache
<1>2. With(d, room, p, r)
  BY DEF PutIn, With
<1> HIDE DEF others, d
<1>3. /\ Cache(room) /\ Len(room) < Capacity
      /\ \A q \in PidsOf(room) : q \in PidsOf(others) /\ RatingIn(room, q) = RatingIn(others, q)
      /\ Len(others) < Capacity => room = others
  <2>0. others \in Seq(Entries) /\ Len(others) <= Capacity /\ Capacity \in Nat \ {0}
    BY <1>1, RatingAssumption DEF Cache
  <2>1. CASE Len(others) = Capacity
    <3>1. room = Tail(others) /\ 1 \in 1 .. Len(others)
      BY <2>0, <2>1
    <3> HIDE DEF room
    <3>2. Without(room, others, 1)
      BY <2>0, <2>1, <3>1 DEF Without
    <3>3. /\ Cache(room)
          /\ \A q : q \in PidsOf(room) <=> q \in PidsOf(others) /\ q # others[1].pid
          /\ \A q \in PidsOf(room) : RatingIn(room, q) = RatingIn(others, q)
      BY <1>1, <3>1, <3>2, CutCache
    <3>4. Len(room) < Capacity /\ ~(Len(others) < Capacity)
      BY <2>0, <2>1, <3>2 DEF Without
    <3> QED
      BY <3>3, <3>4
  <2>2. CASE Len(others) # Capacity
    <3>1. room = others /\ Len(others) < Capacity
      BY <2>0, <2>2
    <3> QED
      BY <1>1, <3>1
  <2> QED
    BY <2>1, <2>2
<1> HIDE DEF room
<1>4. p \notin PidsOf(room)
  BY <1>1, <1>3
<1>5. /\ Cache(d) /\ RatingIn(d, p) = r
      /\ \A q : q \in PidsOf(d) <=> q \in PidsOf(room) \/ q = p
      /\ \A q \in PidsOf(room) : RatingIn(d, q) = RatingIn(room, q)
  BY <1>2, <1>3, <1>4, AppendCache
<1>6. \A q \in PidsOf(d) : q # p => q \in PidsOf(c) /\ RatingIn(d, q) = RatingIn(c, q)
  BY <1>1, <1>3, <1>5
<1>7. p \in PidsOf(c) => \A q \in PidsOf(c) : q \in PidsOf(d)
  BY <1>1, <1>3, <1>5
<1> QED
  BY <1>5, <1>6, <1>7 DEF d

(* Get: the same entries in another order.                                 *)
LEMMA TouchCache ==
    ASSUME NEW c, Cache(c), NEW p
    PROVE  LET d == Touched(c, p)
           IN  /\ Cache(d) /\ \A q : q \in PidsOf(d) <=> q \in PidsOf(c)
               /\ \A q \in PidsOf(c) : RatingIn(d, q) = RatingIn(c, q)
<1>1. CASE p \in PidsOf(c)
  <2>1. PICK i \in 1 .. Len(c) : c[i].pid = p
    BY <1>1, PidsByPlace
  <2>2. p \in RatedPeers /\ RatingIn(c, p) \in MinRating .. MaxRating
    BY <2>1, EntryRating
  <2>3. Touched(c, p) = PutIn(c, p, RatingIn(c, p))
    BY <1>1 DEF Touched
  <2> QED
    BY <1>1, <2>2, <2>3, PutCache
<1>2. CASE p \notin PidsOf(c)
  BY <1>2 DEF Touched
<1> QED
  BY <1>1, <1>2
-----------------------------------------------------------------------------
(***************************************************************************)
(* The tiers.                                                              *)
(***************************************************************************)
LEMMA RatingFacts ==
    ASSUME TiersInv, NEW p
    PROVE  /\ p \in PidsOf(top) => RatingOf(p) = RatingIn(top, p)
           /\ p \in PidsOf(bad) => RatingOf(p) = RatingIn(bad, p)
           /\ p \notin PidsOf(top) /\ p \notin PidsOf(bad) => RatingOf(p) = Unknown
           /\ RatingOf(p) \in Reported /\ Unknown \in Reported
<1>1. CASE p \in PidsOf(top)
  <2>1. RatingOf(p) = RatingIn(top, p) /\ p \notin PidsOf(bad)
    BY <1>1 DEF RatingOf, TiersInv
  <2>2. RatingIn(top, p) \in TopRatings
    BY <1>1 DEF TiersInv
  <2> QED
    BY <1>1, <2>1, <2>2, RatingAssumption DEF TopRatings, Reported, Unknown, DefaultRating
<1>2. CASE p \in PidsOf(bad) /\ p \notin PidsOf(top)
  <2>1. RatingOf(p) = RatingIn(bad, p)
    BY <1>2 DEF RatingOf
  <2>2. RatingIn(bad, p) \in BadRatings
    BY <1>2 DEF TiersInv
  <2> QED
    BY <1>2, <2>1, <2>2, RatingAssumption DEF BadRatings, Reported, Unknown, DefaultRating
<1>3. CASE p \notin PidsOf(bad) /\ p \notin PidsOf(top)
  <2>1. RatingOf(p) = Unknown
    BY <1>3 DEF RatingOf
  <2> QED
    BY <1>3, <2>1, RatingAssumption DEF Reported, Unknown
<1> QED
  BY <1>1, <1>2, <1>3

(* Entries put in the tier their rating belongs to.                        *)
LEMMA PutTop ==
    ASSUME TiersInv, NEW p \in RatedPeers, p \notin PidsOf(bad), NEW r \in TopRatings
    PROVE  LET d == PutIn(top, p, r)
           IN  /\ Cache(d) /\ \A q \in PidsOf(d) : RatingIn(d, q) \in TopRatings
               /\ \A q \in PidsOf(d) : q \notin PidsOf(bad) /\ (q = p \/ q \in PidsOf(top))
<1> DEFINE d == PutIn(top, p, r)
<1>1. r \in MinRating .. MaxRating
  BY RatingAssumption DEF TopRatings, DefaultRating
<1>2. Cache(top) /\ \A q \in PidsOf(top) : RatingIn(top, q) \in TopRatings /\ q \notin PidsOf(bad)
  BY DEF TiersInv
<1>3. /\ Cache(d) /\ RatingIn(d, p) = r
      /\ \A q \in PidsOf(d) : q # p => q \in PidsOf(top) /\ RatingIn(d, q) = RatingIn(top, q)
  BY <1>1, <1>2, PutCache
<1> HIDE DEF d
<1> QED
  BY <1>2, <1>3 DEF d
LEMMA PutBad ==
    ASSUME TiersInv, NEW p \in RatedPeers, p \notin PidsOf(top), NEW r \in BadRatings
    PROVE  LET d == PutIn(bad, p, r)
           IN  /\ Cache(d) /\ \A q \in PidsOf(d) : RatingIn(d, q) \in BadRatings
               /\ \A q \in PidsOf(d) : q \notin PidsOf(top) /\ (q = p \/ q \in PidsOf(bad))
<1> DEFINE d == PutIn(bad, p, r)
<1>1. r \in MinRating .. MaxRating
  BY RatingAssumption DEF BadRatings, DefaultRating
<1>2. Cache(bad) /\ \A q \in PidsOf(bad) : RatingIn(bad, q) \in BadRatings /\ q \notin PidsOf(top)
  BY DEF TiersInv
<1>3. /\ Cache(d) /\ RatingIn(d, p) = r
      /\ \A q \in PidsOf(d) : q # p => q \in PidsOf(bad) /\ RatingIn(d, q) = RatingIn(bad, q)
  BY <1>1, <1>2, PutCache
<1> HIDE DEF d
<1> QED
  BY <1>2, <1>3 DEF d

(* A step of the handler: the tiers stay right, and a peer that leaves the *)
(* bad rated one does not appear in the other in the same step.            *)
NoJump == \A q \in PidsOf(bad) : q \in PidsOf(bad)' \/ q \notin PidsOf(top)'
LEMMA UpdateTiers ==
    ASSUME TiersInv, NEW p \in RatedPeers, NEW factor \in Int, UpdateRating(p, factor)
    PROVE  TiersInv' /\ NoJump
<1> DEFINE new == NewRating(p, factor)
<1>0. moving = NoEntry
  BY DEF UpdateRating, Unlocked
<1>1. CASE p \notin PidsOf(top) \cup PidsOf(bad)
  <2>1. top' = PutIn(top, p, DefaultRating) /\ UNCHANGED <<bad, moving>>
    BY <1>1, Zenon DEF UpdateRating
  <2>2. DefaultRating \in TopRatings
    BY RatingAssumption DEF TopRatings, DefaultRating
  <2> QED
    BY <1>0, <1>1, <2>1, <2>2, PutTop DEF TiersInv, NoJump
<1> SUFFICES ASSUME p \in PidsOf(top) \cup PidsOf(bad) PROVE TiersInv' /\ NoJump
  BY <1>1
<1>2. \/ p \in PidsOf(top) /\ p \notin PidsOf(bad)
      \/ p \in PidsOf(bad) /\ p \notin PidsOf(top)
  BY DEF TiersInv
<1>3. new \in MinRating .. MaxRating
  <2> DEFINE old == IF p \in PidsOf(top) THEN RatingIn(top, p) ELSE RatingIn(bad, p)
  <2>1. old \in Int /\ new = LimitRating(old + factor)
    BY <1>2, RatingAssumption DEF TiersInv, TopRatings, BadRatings, DefaultRating, NewRating
  <2> HIDE DEF old, new
  <2> QED
    BY <2>1, RatingAssumption DEF LimitRating
<1>4. \/ p \in PidsOf(top) /\ new >= DefaultRating
           /\ top' = PutIn(top, p, new) /\ UNCHANGED <<bad, moving>>
      \/ p \in PidsOf(bad) /\ new < DefaultRating
           /\ bad' = PutIn(bad, p, new) /\ UNCHANGED <<top, moving>>
      \/ p \in PidsOf(top) /\ new < DefaultRating
           /\ top' = RemoveFrom(top, p) /\ UNCHANGED bad /\ moving' = [pid |-> p, rating |-> new]
      \/ p \in PidsOf(bad) /\ new >= DefaultRating
           /\ bad' = RemoveFrom(bad, p) /\ UNCHANGED top /\ moving' = [pid |-> p, rating |-> new]
  BY Zenon DEF UpdateRating
<1> HIDE DEF new
<1>5. /\ new >= DefaultRating => new \in TopRatings
      /\ new < DefaultRating => new \in BadRatings
  BY <1>3, RatingAssumption DEF TopRatings, BadRatings, DefaultRating
<1>6. [pid |-> p, rating |-> new] \in Entries
  BY <1>3 DEF Entries
<1>7. CASE p \in PidsOf(top) /\ new >= DefaultRating
           /\ top' = PutIn(top, p, new) /\ UNCHANGED <<bad, moving>>
  BY <1>0, <1>2, <1>5, <1>7, PutTop DEF TiersInv, NoJump
<1>8. CASE p \in PidsOf(bad) /\ new < DefaultRating
           /\ bad' = PutIn(bad, p, new) /\ UNCHANGED <<top, moving>>
  BY <1>0, <1>2, <1>5, <1>8, PutBad DEF TiersInv, NoJump
<1>9. CASE p \in PidsOf(top) /\ top' = RemoveFrom(top, p) /\ UNCHANGED bad
           /\ moving' = [pid |-> p, rating |-> new]
  <2>1. /\ Cache(top') /\ \A q : q \in PidsOf(top') <=> q \in PidsOf(top) /\ q # p
        /\ \A q \in PidsOf(top') : RatingIn(top', q) = RatingIn(top, q)
    BY <1>9, RemoveCache DEF TiersInv
  <2>2. moving' \in Entries /\ moving'.pid = p
    BY <1>6, <1>9
  <2> QED
    BY <1>2, <1>9, <2>1, <2>2 DEF TiersInv, NoJump
<1>10. CASE p \in PidsOf(bad) /\ bad' = RemoveFrom(bad, p) /\ UNCHANGED top
            /\ moving' = [pid |-> p, rating |-> new]
  <2>1. /\ Cache(bad') /\ \A q : q \in PidsOf(bad') <=> q \in PidsOf(bad) /\ q # p
        /\ \A q \in PidsOf(bad') : RatingIn(bad', q) = RatingIn(bad, q)
    BY <1>10, RemoveCache DEF TiersInv
  <2>2. moving' \in Entries /\ moving'.pid = p
    BY <1>6, <1>10
  <2> QED
    BY <1>2, <1>10, <2>1, <2>2 DEF TiersInv, NoJump
<1> QED
  BY <1>4, <1>7, <1>8, <1>9, <1>10

LEMMA MoveTiers ==
    ASSUME TiersInv, MovePeerToNewTier
    PROVE  TiersInv' /\ NoJump
<1>1. /\ moving \in Entries /\ moving' = NoEntry
      /\ moving.pid \notin PidsOf(top) /\ moving.pid \notin PidsOf(bad)
  BY DEF TiersInv, MovePeerToNewTier
<1>2. moving.pid \in RatedPeers /\ moving.rating \in MinRating .. MaxRating
  BY <1>1 DEF Entries
<1>3. CASE moving.rating >= DefaultRating
  <2>1. top' = PutIn(top, moving.pid, moving.rating) /\ bad' = bad
    BY <1>3 DEF MovePeerToNewTier
  <2>2. moving.rating \in TopRatings
    BY <1>2, <1>3, RatingAssumption DEF TopRatings, DefaultRating
  <2> QED
    BY <1>1, <1>2, <2>1, <2>2, PutTop DEF TiersInv, NoJump
<1>4. CASE ~(moving.rating >= DefaultRating)
  <2>1. bad' = PutIn(bad, moving.pid, moving.rating) /\ top' = top
    BY <1>4 DEF MovePeerToNewTier
  <2>2. moving.rating \in BadRatings
    BY <1>2, <1>4, RatingAssumption DEF BadRatings, DefaultRating
  <2> QED
    BY <1>1, <1>2, <2>1, <2>2, PutBad DEF TiersInv, NoJump
<1> QED
  BY <1>3, <1>4

LEMMA SplitTiers ==
    ASSUME TiersInv, SplitInv, SplitPeersByTiers
    PROVE  TiersInv' /\ NoJump
<1> DEFINE peer == asked[next]
<1>1. peer \in RatedPeers /\ moving = NoEntry /\ moving' = moving /\ bad' = bad
  <2>1. next \in 1 .. Len(asked) /\ asked \in Seq(RatedPeers)
    BY DEF SplitInv, SplitPeersByTiers
  <2> QED
    BY <2>1 DEF SplitInv, SplitPeersByTiers
<1>2. CASE peer \in PidsOf(top) \cup PidsOf(bad)
  <2>1. top' = top
    BY <1>2 DEF SplitPeersByTiers
  <2> QED
    BY <1>1, <2>1 DEF TiersInv, NoJump
<1>3. CASE peer \notin PidsOf(top) \cup PidsOf(bad)
  <2>1. top' = PutIn(top, peer, DefaultRating)
    BY <1>3 DEF SplitPeersByTiers
  <2>2. DefaultRating \in TopRatings
    BY RatingAssumption DEF TopRatings, DefaultRating
  <2> QED
    BY <1>1, <1>3, <2>1, <2>2, PutTop DEF TiersInv, NoJump
<1> QED
  BY <1>2, <1>3

(* A reader changes the order of the entries and nothing else.             *)
SameRatings ==
    /\ \A q : q \in PidsOf(top)' <=> q \in PidsOf(top)
    /\ \A q : q \in PidsOf(bad)' <=> q \in PidsOf(bad)
    /\ \A q : RatingOf(q)' = RatingOf(q)
LEMMA ReadTiers ==
    ASSUME TiersInv, FetchTop \/ FetchBad
    PROVE  TiersInv' /\ SameRatings
<1> DEFINE Same(d, c) == /\ \A q : q \in PidsOf(d) <=> q \in PidsOf(c)
                         /\ \A q \in PidsOf(c) : RatingIn(d, q) = RatingIn(c, q)
<1>1. moving' = moving /\ Cache(top) /\ Cache(bad)
  BY DEF TiersInv, FetchTop, FetchBad
<1>2. Cache(top') /\ Same(top', top)
  <2>1. top' = top \/ top' = Touched(top, Head(listed))
    BY DEF FetchTop, FetchBad
  <2> QED
    BY <1>1, <2>1, TouchCache
<1>3. Cache(bad') /\ Same(bad', bad)
  <2>1. bad' = bad \/ bad' = Touched(bad, Head(listed))
    BY DEF FetchTop, FetchBad
  <2> QED
    BY <1>1, <2>1, TouchCache
<1>4. TiersInv'
  BY <1>1, <1>2, <1>3 DEF TiersInv
<1>5. ASSUME NEW q PROVE RatingOf(q)' = RatingOf(q)
  BY <1>2, <1>3 DEF RatingOf
<1> QED
  BY <1>2, <1>3, <1>4, <1>5 DEF SameRatings
-----------------------------------------------------------------------------
(***************************************************************************)
(* The selection.                                                          *)
(***************************************************************************)
LEMMA AppendList ==
    ASSUME NEW S, NEW s \in Seq(S), NEW e \in S, IsInjective(s), e \notin ToSet(s)
    PROVE  /\ Append(s, e) \in Seq(S) /\ IsInjective(Append(s, e))
           /\ \A x : x \in ToSet(Append(s, e)) <=> x \in ToSet(s) \/ x = e
<1> DEFINE t == Append(s, e)
<1>1. /\ t \in Seq(S) /\ Len(t) = Len(s) + 1 /\ t[Len(s) + 1] = e /\ Len(s) \in Nat
      /\ \A i \in 1 .. Len(s) : t[i] = s[i]
  OBVIOUS
<1> HIDE DEF t
<1>2. DOMAIN s = 1 .. Len(s) /\ DOMAIN t = 1 .. Len(t)
  BY <1>1
<1>3. \A i \in 1 .. Len(t) : i \in 1 .. Len(s) \/ i = Len(s) + 1
  BY <1>1
<1>4. \A i \in 1 .. Len(s) : s[i] # e
  BY <1>2 DEF ToSet
<1>5. IsInjective(t)
  BY <1>1, <1>2, <1>3, <1>4 DEF IsInjective
<1>6. Len(s) + 1 \in 1 .. Len(t) /\ \A i \in 1 .. Len(s) : i \in 1 .. Len(t)
  BY <1>1
<1>7. ASSUME NEW x PROVE x \in ToSet(t) <=> x \in ToSet(s) \/ x = e
  <2>1. ASSUME x \in ToSet(t) PROVE x \in ToSet(s) \/ x = e
    <3>1. PICK i \in 1 .. Len(t) : t[i] = x
      BY <1>2, <2>1 DEF ToSet
    <3> QED
      BY <1>1, <1>2, <1>3, <3>1 DEF ToSet
  <2>2. ASSUME x \in ToSet(s) PROVE x \in ToSet(t)
    <3>1. PICK i \in 1 .. Len(s) : s[i] = x
      BY <1>2, <2>2 DEF ToSet
    <3>2. i \in 1 .. Len(t) /\ t[i] = x
      BY <1>1, <1>6, <3>1
    <3> QED
      BY <1>2, <3>2 DEF ToSet
  <2>3. e \in ToSet(t)
    <3>1. PICK n \in 1 .. Len(t) : t[n] = e
      BY <1>1, <1>6
    <3> QED
      BY <1>2, <3>1 DEF ToSet
  <2> QED
    BY <2>1, <2>2, <2>3
<1> QED
  BY <1>1, <1>5, <1>7 DEF t

LEMMA EmptyList ==
    ASSUME NEW S
    PROVE  <<>> \in Seq(S) /\ IsInjective(<<>>) /\ ToSet(<<>>) = {}
BY DEF IsInjective, ToSet

(* No selection is going on.                                               *)
LEMMA NoSelection ==
    ASSUME SplitInv, asked = <<>>, UNCHANGED selectVars
    PROVE  SplitInv'
<1>1. next = 1 /\ next' = 1 /\ asked' = <<>>
  BY DEF SplitInv, selectVars
<1>2. Looked = {} /\ Looked' = {}
  BY <1>1 DEF Looked
<1>3. UNCHANGED <<asked, next, topRated, badRated>>
  BY DEF selectVars
<1> QED
  BY <1>1, <1>2, <1>3 DEF SplitInv

(* The peers of the bad rated tier stay the same.                          *)
LEMMA SameBad ==
    ASSUME SplitInv, UNCHANGED <<selectVars, moving>>,
           \A q : q \in PidsOf(bad)' <=> q \in PidsOf(bad)
    PROVE  SplitInv'
<1>1. PidsOf(bad)' = PidsOf(bad)
  OBVIOUS
<1>2. UNCHANGED <<asked, next, topRated, badRated, moving>>
  BY DEF selectVars
<1> QED
  BY <1>1, <1>2 DEF SplitInv, Looked

LEMMA SplitStarts ==
    ASSUME NEW peers \in {<<>>} \cup Lists, moving' = NoEntry, asked' = peers,
           next' = 1, topRated' = <<>>, badRated' = <<>>
    PROVE  SplitInv'
<1>1. peers \in Seq(RatedPeers) /\ IsInjective(peers)
  <2>1. CASE peers = <<>>
    BY <2>1, EmptyList
  <2>2. CASE peers \in Lists
    <3>1. peers \in SeqOf(RatedPeers, MaxAsked) /\ IsInjective(peers)
      BY <2>2 DEF Lists
    <3>2. PICK m \in 0 .. MaxAsked : peers \in [1 .. m -> RatedPeers]
      BY <3>1 DEF SeqOf
    <3> QED
      BY <3>1, <3>2, RatingBounds
  <2> QED
    BY <2>1, <2>2
<1>2. Looked' = {}
  BY DEF Looked
<1> QED
  BY <1>1, <1>2, EmptyList DEF SplitInv

LEMMA SplitStep ==
    ASSUME TiersInv, SplitInv, SplitPeersByTiers
    PROVE  SplitInv'
<1> DEFINE peer == asked[next]
<1>0. /\ next \in 1 .. Len(asked) /\ asked \in Seq(RatedPeers) /\ peer \in RatedPeers
      /\ next' = next + 1 /\ UNCHANGED <<asked, bad, moving>>
      /\ topRated \in Seq(RatedPeers) /\ badRated \in Seq(RatedPeers)
      /\ IsInjective(topRated) /\ IsInjective(badRated)
  <2>1. next \in 1 .. Len(asked) /\ asked \in Seq(RatedPeers)
    BY DEF SplitInv, SplitPeersByTiers
  <2> QED
    BY <2>1 DEF SplitInv, SplitPeersByTiers
<1>1. next' \in 1 .. Len(asked') + 1
  BY <1>0
<1>2. peer \notin Looked
  <2>1. \A j \in 1 .. next - 1 : j \in DOMAIN asked /\ j # next /\ next \in DOMAIN asked
    BY <1>0
  <2> QED
    BY <2>1 DEF Looked, SplitInv, IsInjective
<1>3. Looked' = Looked \cup {peer}
  <2>1. 1 .. next' - 1 = (1 .. next - 1) \cup {next}
    BY <1>0
  <2> QED
    BY <1>0, <2>1 DEF Looked
<1>4. /\ ToSet(topRated) = Looked \ PidsOf(bad) /\ ToSet(badRated) = Looked \cap PidsOf(bad)
      /\ PidsOf(bad)' = PidsOf(bad)
  BY <1>0 DEF SplitInv
<1>5. CASE peer \in PidsOf(bad)
  <2>1. topRated' = topRated /\ badRated' = Append(badRated, peer)
    BY <1>5 DEF SplitPeersByTiers, TiersInv
  <2>2. /\ badRated' \in Seq(RatedPeers) /\ IsInjective(badRated')
        /\ \A x : x \in ToSet(badRated') <=> x \in ToSet(badRated) \/ x = peer
    BY <1>0, <1>2, <1>4, <2>1, AppendList
  <2>3. ToSet(badRated)' = Looked' \cap PidsOf(bad)'
    BY <1>3, <1>4, <1>5, <2>2
  <2>4. ToSet(topRated)' = Looked' \ PidsOf(bad)'
    BY <1>3, <1>4, <1>5, <2>1
  <2> QED
    BY <1>0, <1>1, <2>1, <2>2, <2>3, <2>4 DEF SplitInv
<1>6. CASE peer \notin PidsOf(bad)
  <2>1. badRated' = badRated /\ topRated' = Append(topRated, peer)
    BY <1>6 DEF SplitPeersByTiers
  <2>2. /\ topRated' \in Seq(RatedPeers) /\ IsInjective(topRated')
        /\ \A x : x \in ToSet(topRated') <=> x \in ToSet(topRated) \/ x = peer
    BY <1>0, <1>2, <1>4, <2>1, AppendList
  <2>3. ToSet(topRated)' = Looked' \ PidsOf(bad)'
    BY <1>3, <1>4, <1>6, <2>2
  <2>4. ToSet(badRated)' = Looked' \cap PidsOf(bad)'
    BY <1>3, <1>4, <1>6, <2>1
  <2> QED
    BY <1>0, <1>1, <2>1, <2>2, <2>3, <2>4 DEF SplitInv
<1> QED
  BY <1>5, <1>6
-----------------------------------------------------------------------------
(***************************************************************************)
(* The report.                                                             *)
(***************************************************************************)
RatingsInv ==
    \A p : /\ p \in PidsOf(top) => RatingOf(p) = RatingIn(top, p)
           /\ p \in PidsOf(bad) => RatingOf(p) = RatingIn(bad, p)
           /\ p \notin PidsOf(top) /\ p \notin PidsOf(bad) => RatingOf(p) = Unknown
           /\ RatingOf(p) \in Reported /\ Unknown \in Reported
LEMMA Ratings == TiersInv => RatingsInv
BY RatingFacts DEF RatingsInv

(* A step of the handler while the monitor may be between its two reads.   *)
LEMMA Watched ==
    ASSUME TiersInv', ReportInv, NoJump, Watch, UNCHANGED <<monitor, listed, reported>>
    PROVE  ReportInv'
<1> DEFINE h == Head(listed)
<1>1. RatingsInv'
  BY Ratings, PTL
<1>2. /\ RatingOf(h)' \in Reported /\ Unknown' = Unknown /\ Reported' = Reported
      /\ h \notin PidsOf(top)' /\ h \notin PidsOf(bad)' => RatingOf(h)' = Unknown
  BY <1>1 DEF RatingsInv, Unknown, Reported
<1>3. window' \subseteq Reported /\ window \subseteq window'
  BY <1>2 DEF Watch, ReportInv
<1>4. monitor \in {"top", "bad"} => RatingOf(h)' \in window'
  BY DEF Watch
<1>5. monitor = "bad" => Unknown \in window' \/ h \in PidsOf(bad)'
  <2> SUFFICES ASSUME monitor = "bad", Unknown \notin window', h \notin PidsOf(bad)' PROVE FALSE
    OBVIOUS
  <2>1. h \in PidsOf(bad)
    BY <1>3 DEF ReportInv
  <2>2. h \notin PidsOf(top)'
    BY <2>1 DEF NoJump
  <2> QED
    BY <1>2, <1>4, <2>2
<1>6. monitor = "report" => reported \in window'
  BY <1>3 DEF ReportInv
<1>7. Head(listed)' = h /\ monitor' = monitor /\ listed' = listed /\ reported' = reported
  OBVIOUS
<1> QED
  BY <1>2, <1>3, <1>4, <1>5, <1>6, <1>7 DEF ReportInv

(* The ratings stay as they are.                                           *)
LEMMA ReportStays ==
    ASSUME ReportInv, UNCHANGED monitorVars, UNCHANGED <<top, bad>>
    PROVE  ReportInv'
<1>1. UNCHANGED <<monitor, snapshot, listed, window, reported>>
  BY DEF monitorVars
<1>2. PidsOf(bad)' = PidsOf(bad) /\ RatingOf(Head(listed))' = RatingOf(Head(listed))
  BY <1>1 DEF PidsOf, RatingOf, RatingIn, PlaceOf
<1> QED
  BY <1>1, <1>2 DEF ReportInv, Unknown, Reported

LEMMA ReadStep ==
    ASSUME TiersInv, ReportInv, SameRatings, FetchTop \/ FetchBad
    PROVE  ReportInv'
<1> DEFINE h == Head(listed)
<1>1. /\ UNCHANGED <<listed, window>> /\ Head(listed)' = h /\ listed # <<>>
      /\ monitor' \in {"bad", "report"} /\ RatingOf(h) \in window
  BY DEF FetchTop, FetchBad, ReportInv
<1>2. /\ RatingOf(h)' = RatingOf(h) /\ PidsOf(bad)' = PidsOf(bad)
      /\ Unknown' = Unknown /\ Reported' = Reported
  BY DEF SameRatings, Unknown, Reported
<1>3. RatingsInv
  BY Ratings
<1>4. window \subseteq Reported /\ reported \in Reported /\ listed \in Seq(RatedPeers) /\ IsInjective(listed)
  BY DEF ReportInv
<1>5. CASE FetchTop
  <2>1. CASE h \in PidsOf(top)
    <3>1. reported' = RatingOf(h) /\ monitor' = "report"
      BY <1>3, <1>5, <2>1 DEF FetchTop, RatingsInv
    <3> QED
      BY <1>1, <1>2, <1>4, <3>1 DEF ReportInv
  <2>2. CASE h \notin PidsOf(top)
    <3>1. reported' = reported /\ monitor' = "bad"
      BY <1>5, <2>2 DEF FetchTop
    <3>2. Unknown \in window \/ h \in PidsOf(bad)
      BY <1>1, <1>3, <2>2 DEF RatingsInv
    <3> QED
      BY <1>1, <1>2, <1>4, <3>1, <3>2 DEF ReportInv
  <2> QED
    BY <2>1, <2>2
<1>6. CASE FetchBad
  <2>1. monitor' = "report" /\ (Unknown \in window \/ h \in PidsOf(bad))
    BY <1>6 DEF FetchBad, ReportInv
  <2>2. reported' \in window
    <3>1. CASE h \in PidsOf(bad)
      BY <1>1, <1>3, <1>6, <3>1 DEF FetchBad, RatingsInv
    <3>2. CASE h \notin PidsOf(bad)
      BY <1>6, <2>1, <3>2 DEF FetchBad
    <3> QED
      BY <3>1, <3>2
  <2> QED
    BY <1>1, <1>2, <1>4, <2>1, <2>2 DEF ReportInv
<1> QED
  BY <1>5, <1>6

(* The next peer of the report, or its end.                                *)
LEMMA NextPeer ==
    ASSUME TiersInv, ReportInv, UNCHANGED <<top, bad, reported>>,
           NEW list \in Seq(RatedPeers), IsInjective(list), FetchNext(list)
    PROVE  ReportInv'
<1>1. RatingsInv
  BY Ratings
<1>2. /\ listed' = list /\ Unknown' = Unknown /\ Reported' = Reported
      /\ RatingOf(Head(list))' = RatingOf(Head(list))
  BY DEF FetchNext, RatingOf, RatingIn, PlaceOf, PidsOf, Unknown, Reported
<1>3. reported' \in Reported
  BY DEF ReportInv
<1>4. CASE list = <<>>
  <2>1. monitor' = "idle" /\ window' = {Unknown}
    BY <1>4 DEF FetchNext
  <2>2. window' \subseteq Reported
    BY <1>1, <2>1 DEF RatingsInv
  <2> QED
    BY <1>2, <1>3, <2>1, <2>2 DEF ReportInv
<1>5. CASE list # <<>>
  <2>1. monitor' = "top" /\ window' = {RatingOf(Head(list))}
    BY <1>5 DEF FetchNext
  <2>2. window' \subseteq Reported
    BY <1>1, <2>1 DEF RatingsInv
  <2>3. RatingOf(Head(listed))' = RatingOf(Head(list))
    BY <1>2
  <2> QED
    BY <1>2, <1>3, <1>5, <2>1, <2>2, <2>3 DEF ReportInv
<1> QED
  BY <1>4, <1>5
-----------------------------------------------------------------------------
(***************************************************************************)
(* The invariant.                                                          *)
(***************************************************************************)
LEMMA ListTail ==
    ASSUME NEW S, NEW s \in Seq(S), s # <<>>, IsInjective(s)
    PROVE  Tail(s) \in Seq(S) /\ IsInjective(Tail(s))
<1>1. /\ Tail(s) \in Seq(S) /\ Len(Tail(s)) = Len(s) - 1 /\ Len(s) \in Nat
      /\ \A i \in 1 .. Len(s) - 1 : Tail(s)[i] = s[i + 1]
  OBVIOUS
<1>2. DOMAIN s = 1 .. Len(s) /\ DOMAIN Tail(s) = 1 .. Len(s) - 1
  BY <1>1
<1>3. \A i \in 1 .. Len(s) - 1 : i + 1 \in 1 .. Len(s)
  BY <1>1
<1>4. \A i, j \in 1 .. Len(s) - 1 : i + 1 = j + 1 => i = j
  BY <1>1
<1> QED
  BY <1>1, <1>2, <1>3, <1>4 DEF IsInjective

LEMMA InitInv == RatingInit => IInv
<1> SUFFICES ASSUME RatingInit PROVE IInv
  OBVIOUS
<1>1. Cache(<<>>) /\ PidsOf(<<>>) = {}
  BY RatingAssumption DEF Cache, PidsOf
<1>2. TiersInv
  BY <1>1 DEF RatingInit, TiersInv
<1>3. SplitInv
  <2>1. Looked = {}
    BY DEF RatingInit, Looked
  <2> QED
    BY <2>1, EmptyList DEF RatingInit, SplitInv
<1>4. ConnsInv
  BY RatingBounds DEF RatingInit, ConnsInv
<1>5. ReportInv
  <2>1. Unknown \in Reported
    BY RatingAssumption DEF Unknown, Reported
  <2> QED
    BY <2>1, EmptyList DEF RatingInit, ReportInv
<1> QED
  BY <1>2, <1>3, <1>4, <1>5 DEF IInv

LEMMA IInvStep == IInv /\ [RatingNext]_ratingHandlerVars => IInv'
<1> SUFFICES ASSUME IInv, [RatingNext]_ratingHandlerVars PROVE IInv'
  OBVIOUS
<1> USE DEF IInv
(* The connections are counted apart from everything else.                 *)
<1>1. ConnsInv'
  <2>1. ASSUME UNCHANGED <<conns, changes, snapshot>> PROVE ConnsInv'
    BY <2>1 DEF ConnsInv
  <2>2. ASSUME UNCHANGED <<conns, changes>>, snapshot' = conns PROVE ConnsInv'
    BY <2>2 DEF ConnsInv
  <2>3. ASSUME NEW p \in RatedPeers, ConnectedPeers(p) PROVE ConnsInv'
    <3>1. snapshot' \in [RatedPeers -> 0 .. MaxConns]
      BY <2>3, RatingBounds DEF ConnectedPeers, ConnsInv
    <3> QED
      BY <2>3, <3>1 DEF ConnectedPeers, ConnsInv
  <2>4. ASSUME NEW p \in RatedPeers, ConnectionChange(p) PROVE ConnsInv'
    <3>1. conns' \in [RatedPeers -> 0 .. MaxConns] /\ changes' \in 0 .. MaxConnChanges
      BY <2>4, RatingBounds DEF ConnectionChange, ConnsInv
    <3> QED
      BY <2>4, <3>1 DEF ConnectionChange, ConnsInv, monitorVars
  <2>5. CASE GetConnectedPeersRatings
    BY <2>2, <2>5 DEF GetConnectedPeersRatings
  <2>6. CASE UNCHANGED <<conns, changes, snapshot>>
    BY <2>1, <2>6
  <2> QED
    BY <2>3, <2>4, <2>5, <2>6 DEF RatingNext, ratingHandlerVars, monitorVars, UpdateRating, MovePeerToNewTier,
          GetTopRatedPeersFromList, SplitPeersByTiers, SelectionReturned, ListComplete, FetchTop,
          FetchBad, Report
(* Steps that leave the ratings and the selection alone.                   *)
<1>2. ASSUME UNCHANGED <<ratingVars, selectVars>> PROVE TiersInv' /\ SplitInv'
  <2>1. UNCHANGED <<top, bad, moving, selectVars>>
    BY <1>2 DEF ratingVars
  <2>2. TiersInv'
    BY <2>1 DEF TiersInv
  <2>3. SplitInv'
    BY <2>1, SameBad DEF PidsOf
  <2> QED
    BY <2>2, <2>3
(* Steps of the handler.                                                   *)
<1>3. ASSUME NEW p \in RatedPeers, UpdateRating(p, IncreaseFactor) \/ UpdateRating(p, DecreaseFactor)
      PROVE  IInv'
  <2>1. TiersInv' /\ NoJump
    BY <1>3, UpdateTiers, RatingAssumption
  <2>2. asked = <<>> /\ Watch /\ UNCHANGED <<selectVars, monitor, listed, reported>>
    BY <1>3 DEF UpdateRating, Unlocked
  <2> QED
    BY <1>1, <2>1, <2>2, NoSelection, Watched
<1>4. CASE MovePeerToNewTier
  <2>1. TiersInv' /\ NoJump
    BY <1>4, MoveTiers
  <2>2. asked = <<>> /\ Watch /\ UNCHANGED <<selectVars, monitor, listed, reported>>
    BY <1>4 DEF MovePeerToNewTier, SplitInv
  <2> QED
    BY <1>1, <2>1, <2>2, NoSelection, Watched
<1>5. CASE SplitPeersByTiers
  <2>1. TiersInv' /\ NoJump
    BY <1>5, SplitTiers
  <2>2. Watch /\ UNCHANGED <<monitor, listed, reported>>
    BY <1>5 DEF SplitPeersByTiers
  <2> QED
    BY <1>1, <1>5, <2>1, <2>2, SplitStep, Watched
<1>6. ASSUME (\E peers \in Lists : GetTopRatedPeersFromList(peers)) \/ SelectionReturned
      PROVE  IInv'
  <2>1. PICK peers \in {<<>>} \cup Lists :
           /\ asked' = peers /\ next' = 1 /\ topRated' = <<>> /\ badRated' = <<>>
           /\ UNCHANGED <<ratingVars, monitorVars>>
    BY <1>6 DEF GetTopRatedPeersFromList, SelectionReturned
  <2>2. moving = NoEntry
    BY <1>6 DEF GetTopRatedPeersFromList, SelectionReturned, SelectionReady, Unlocked, SplitInv
  <2>3. UNCHANGED <<top, bad, moving>>
    BY <2>1 DEF ratingVars
  <2>4. TiersInv'
    BY <2>3 DEF TiersInv
  <2>5. SplitInv'
    BY <2>1, <2>2, <2>3, SplitStarts
  <2> QED
    BY <1>1, <2>1, <2>3, <2>4, <2>5, ReportStays
(* Steps of the monitor.                                                   *)
<1>7. CASE GetConnectedPeersRatings
  <2>1. UNCHANGED <<ratingVars, selectVars>>
    BY <1>7 DEF GetConnectedPeersRatings
  <2>2. monitor' = "list" /\ listed' = <<>> /\ UNCHANGED <<window, reported>>
    BY <1>7 DEF GetConnectedPeersRatings
  <2>3. ReportInv'
    BY <2>2, EmptyList DEF ReportInv, Reported
  <2> QED
    BY <1>1, <1>2, <2>1, <2>3
<1>8. ASSUME NEW p \in RatedPeers, ConnectedPeers(p) PROVE IInv'
  <2>1. UNCHANGED <<ratingVars, selectVars>>
    BY <1>8 DEF ConnectedPeers
  <2>2. /\ monitor = "list" /\ UNCHANGED <<monitor, window, reported>>
        /\ listed' = listed \/ (p \notin ToSet(listed) /\ listed' = Append(listed, p))
    BY <1>8 DEF ConnectedPeers
  <2>3. listed \in Seq(RatedPeers) /\ IsInjective(listed)
    BY DEF ReportInv
  <2>4. listed' \in Seq(RatedPeers) /\ IsInjective(listed')
    <3>1. CASE p \notin ToSet(listed) /\ listed' = Append(listed, p)
      BY <2>3, <3>1, AppendList
    <3> QED
      BY <2>2, <2>3, <3>1
  <2>5. ReportInv'
    BY <2>2, <2>4 DEF ReportInv, Reported
  <2> QED
    BY <1>1, <1>2, <2>1, <2>5
<1>9. CASE ListComplete \/ Report
  <2>1. UNCHANGED <<ratingVars, selectVars, reported>>
    BY <1>9 DEF ListComplete, Report
  <2>2. UNCHANGED <<top, bad, reported>> /\ listed \in Seq(RatedPeers) /\ IsInjective(listed)
    BY <2>1 DEF ratingVars, ReportInv
  <2>3. CASE ListComplete
    <3>1. FetchNext(listed)
      BY <2>3 DEF ListComplete
    <3> QED
      BY <1>1, <1>2, <2>1, <2>2, <3>1, NextPeer
  <2>4. CASE Report
    <3>1. FetchNext(Tail(listed)) /\ listed # <<>>
      BY <2>4 DEF Report, ReportInv
    <3>2. Tail(listed) \in Seq(RatedPeers) /\ IsInjective(Tail(listed))
      BY <2>2, <3>1, ListTail
    <3> QED
      BY <1>1, <1>2, <2>1, <2>2, <3>1, <3>2, NextPeer
  <2> QED
    BY <1>9, <2>3, <2>4
<1>10. CASE FetchTop \/ FetchBad
  <2>1. TiersInv' /\ SameRatings
    BY <1>10, ReadTiers
  <2>2. UNCHANGED <<selectVars, moving>>
    BY <1>10 DEF FetchTop, FetchBad
  <2>3. SplitInv'
    BY <2>1, <2>2, SameBad DEF SameRatings
  <2> QED
    BY <1>1, <1>10, <2>1, <2>3, ReadStep
<1>11. CASE UNCHANGED <<ratingVars, selectVars, monitorVars>>
  <2>1. UNCHANGED <<top, bad>>
    BY <1>11 DEF ratingVars
  <2> QED
    BY <1>1, <1>2, <1>11, <2>1, ReportStays
<1>12. ASSUME (\E p \in RatedPeers : ConnectionChange(p)) \/ UNCHANGED ratingHandlerVars
       PROVE  UNCHANGED <<ratingVars, selectVars, monitorVars>>
  BY <1>12 DEF ConnectionChange, ratingHandlerVars
<1> QED
  BY <1>3, <1>4, <1>5, <1>6, <1>7, <1>8, <1>9, <1>10, <1>11, <1>12 DEF RatingNext

LEMMA Invariance == RatingSpec => []IInv
BY InitInv, IInvStep, PTL DEF RatingSpec

(***************************************************************************)
(* The selection that is returned.                                         *)
(***************************************************************************)
LEMMA CountList ==
    ASSUME NEW S, NEW s \in Seq(S), IsInjective(s)
    PROVE  Cardinality(ToSet(s)) = Len(s)
<1>1. DOMAIN s = 1 .. Len(s) /\ Len(s) \in Nat
  OBVIOUS
<1>2. s \in Bijection(1 .. Len(s), ToSet(s))
  <2>1. s \in [1 .. Len(s) -> ToSet(s)]
    BY <1>1 DEF ToSet
  <2>2. \A x \in ToSet(s) : \E i \in 1 .. Len(s) : s[i] = x
    BY <1>1 DEF ToSet
  <2> QED
    BY <1>1, <2>1, <2>2 DEF Bijection, Injection, Surjection, IsInjective
<1>3. ExistsBijection(1 .. Len(s), ToSet(s))
  BY <1>2 DEF ExistsBijection
<1> QED
  BY <1>1, <1>3, FS_CountingElements

LEMMA SelectionSuffices == IInv => SelectionIsEnough
<1> SUFFICES ASSUME IInv, SelectionReady, NEW min \in 1 .. Len(asked) + 1
             PROVE  LET result == TopRatedPeers(min)
                        got == ToSet(result)
                        good == ToSet(asked) \ PidsOf(bad)
                    IN  /\ IsInjective(result)
                        /\ good \subseteq got /\ got \subseteq ToSet(asked)
                        /\ Len(result) >= min \/ got = ToSet(asked)
                        /\ got # good => Cardinality(good) < min
  BY DEF SelectionIsEnough
<1> DEFINE good == ToSet(asked) \ PidsOf(bad)
           poor == ToSet(asked) \cap PidsOf(bad)
<1>1. Looked = ToSet(asked)
  <2>1. next - 1 = Len(asked) /\ DOMAIN asked = 1 .. Len(asked)
    BY DEF IInv, SplitInv, SelectionReady
  <2> QED
    BY <2>1 DEF Looked, ToSet
<1>2. /\ topRated \in Seq(RatedPeers) /\ ToSet(topRated) = good /\ IsInjective(topRated)
      /\ badRated \in Seq(RatedPeers) /\ ToSet(badRated) = poor /\ IsInjective(badRated)
  BY <1>1 DEF IInv, SplitInv
<1>3. Cardinality(good) = Len(topRated) /\ Len(topRated) \in Nat /\ min \in Nat
  <2>1. Cardinality(good) = Len(topRated)
    BY <1>2, CountList, Zenon
  <2>2. Len(topRated) \in Nat /\ Len(asked) \in Nat
    BY <1>2 DEF IInv, SplitInv
  <2> QED
    BY <2>1, <2>2
<1> HIDE DEF good, poor
<1>4. CASE Len(topRated) < min
  <2> DEFINE result == topRated \o badRated
             n == Len(topRated)
             m == Len(badRated)
  <2>1. /\ result \in Seq(RatedPeers) /\ DOMAIN result = 1 .. n + m /\ n \in Nat /\ m \in Nat
        /\ \A i \in 1 .. n : result[i] = topRated[i]
        /\ \A i \in n + 1 .. n + m : result[i] = badRated[i - n]
        /\ DOMAIN topRated = 1 .. n /\ DOMAIN badRated = 1 .. m
    BY <1>2
  <2> HIDE DEF result, n, m
  <2>2. \A i \in 1 .. n + m : i \in 1 .. n \/ (i \in n + 1 .. n + m /\ i - n \in 1 .. m)
    BY <2>1
  <2>3. \A i \in 1 .. n : i \in 1 .. n + m /\ result[i] \in good
    BY <1>2, <2>1 DEF ToSet
  <2>4. \A i \in n + 1 .. n + m : i - n \in 1 .. m /\ i \in 1 .. n + m /\ result[i] \in poor
    <3> SUFFICES ASSUME NEW i \in n + 1 .. n + m
                 PROVE  i - n \in 1 .. m /\ i \in 1 .. n + m /\ result[i] \in poor
      OBVIOUS
    <3>1. i - n \in 1 .. m /\ i \in 1 .. n + m
      BY <2>1
    <3>2. badRated[i - n] \in ToSet(badRated)
      BY <2>1, <3>1 DEF ToSet
    <3> QED
      BY <1>2, <2>1, <3>1, <3>2
  <2>5. \A x \in good : x \notin poor
    BY DEF good, poor
  <2>6. IsInjective(result)
    <3> SUFFICES ASSUME NEW i \in 1 .. n + m, NEW j \in 1 .. n + m, result[i] = result[j]
                 PROVE  i = j
      BY <2>1 DEF IsInjective
    <3>1. CASE i \in 1 .. n /\ j \in 1 .. n
      BY <1>2, <2>1, <3>1 DEF IsInjective
    <3>2. CASE i \in n + 1 .. n + m /\ j \in n + 1 .. n + m
      <4>1. i - n \in 1 .. m /\ j - n \in 1 .. m /\ badRated[i - n] = badRated[j - n]
        BY <2>1, <2>4, <3>2
      <4>2. i - n = j - n
        BY <1>2, <2>1, <4>1 DEF IsInjective
      <4> QED
        BY <2>1, <4>2
    <3> QED
      BY <2>2, <2>3, <2>4, <2>5, <3>1, <3>2
  <2>7. good \subseteq ToSet(result)
    <3> SUFFICES ASSUME NEW x \in good PROVE x \in ToSet(result)
      OBVIOUS
    <3>1. PICK i \in 1 .. n : topRated[i] = x
      BY <1>2, <2>1 DEF ToSet
    <3> QED
      BY <2>1, <2>3, <3>1 DEF ToSet
  <2>8. poor \subseteq ToSet(result)
    <3> SUFFICES ASSUME NEW x \in poor PROVE x \in ToSet(result)
      OBVIOUS
    <3>1. PICK i \in 1 .. m : badRated[i] = x
      BY <1>2, <2>1 DEF ToSet
    <3>2. n + i \in n + 1 .. n + m /\ n + i \in 1 .. n + m /\ (n + i) - n = i
      BY <2>1
    <3>3. result[n + i] = x
      BY <2>1, <3>1, <3>2
    <3> QED
      BY <2>1, <3>2, <3>3 DEF ToSet
  <2>9. ToSet(result) \subseteq good \cup poor
    BY <2>1, <2>2, <2>3, <2>4 DEF ToSet
  <2>10. good \cup poor = ToSet(asked)
    BY DEF good, poor
  <2>11. ToSet(result) = ToSet(asked) /\ TopRatedPeers(min) = result
    BY <1>4, <2>7, <2>8, <2>9, <2>10 DEF TopRatedPeers, result
  <2> QED
    BY <1>3, <1>4, <2>6, <2>7, <2>11 DEF good
<1>5. CASE ~(Len(topRated) < min)
  <2>1. TopRatedPeers(min) = topRated /\ Len(topRated) >= min
    BY <1>3, <1>5 DEF TopRatedPeers
  <2>2. good \subseteq ToSet(asked)
    BY DEF good
  <2> QED
    BY <1>2, <2>1, <2>2 DEF good
<1> QED
  BY <1>4, <1>5

(***************************************************************************)
(* A peer is in one tier, once, with a rating that belongs there, and no   *)
(* cache outgrows its capacity, for all capacities, limits and factors     *)
(* (updateRating, updateRatingCacher, movePeerToNewTier,                   *)
(* splitPeersByTiers).                                                     *)
(***************************************************************************)
THEOREM RatingsCorrect == RatingSpec => []RatingInv
<1>1. ASSUME IInv PROVE RatingTypeOK
  BY <1>1 DEF IInv, TiersInv, SplitInv, ConnsInv, ReportInv, Cache, Reported, RatingTypeOK
<1>2. ASSUME IInv PROVE OneTierPerPeer
  <2>1. Cache(top) /\ Cache(bad)
    BY <1>2 DEF IInv, TiersInv
  <2>2. DOMAIN top = 1 .. Len(top) /\ DOMAIN bad = 1 .. Len(bad)
    BY <2>1 DEF Cache
  <2>3. \A cache \in {top, bad} : \A i, j \in DOMAIN cache : cache[i].pid = cache[j].pid => i = j
    BY <2>1, <2>2 DEF Cache
  <2>4. \A i \in DOMAIN top : top[i].rating >= DefaultRating
    <3>1. ASSUME NEW i \in 1 .. Len(top) PROVE top[i].rating \in TopRatings
      BY <1>2, <2>1, EntryRating DEF IInv, TiersInv
    <3> QED
      BY <2>2, <3>1, RatingAssumption DEF TopRatings, DefaultRating
  <2>5. \A i \in DOMAIN bad : bad[i].rating < DefaultRating
    <3>1. ASSUME NEW i \in 1 .. Len(bad) PROVE bad[i].rating \in BadRatings
      BY <1>2, <2>1, EntryRating DEF IInv, TiersInv
    <3> QED
      BY <2>2, <3>1, RatingAssumption DEF BadRatings, DefaultRating
  <2>6. /\ PidsOf(top) \cap PidsOf(bad) = {}
        /\ moving # NoEntry => moving.pid \notin PidsOf(top) \cup PidsOf(bad)
    BY <1>2 DEF IInv, TiersInv
  <2> QED
    BY <2>3, <2>4, <2>5, <2>6 DEF OneTierPerPeer
<1>3. IInv => RatingInv
  BY <1>1, <1>2 DEF RatingInv
<1> QED
  BY Invariance, <1>3, PTL

(* What GetTopRatedPeersFromList returns is enough, without repetition and *)
(* with bad rated peers only when they are needed, for lists of any length *)
(* although rating the new ones pushes others out of the cache.            *)
THEOREM SelectionsAreEnough == RatingSpec => []SelectionIsEnough
BY Invariance, SelectionSuffices, PTL

(* The monitor takes no mutex and still reports only ratings the peer had  *)
(* while it was looked up, or the absence of one that there really was     *)
(* (fetchRating against movePeerToNewTier and splitPeersByTiers).          *)
THEOREM ReportIsSound == RatingSpec => []ReportedRatingWasHeld
<1>1. IInv => ReportedRatingWasHeld
  BY DEF IInv, ReportInv, ReportedRatingWasHeld
<1> QED
  BY Invariance, <1>1, PTL
=============================================================================
