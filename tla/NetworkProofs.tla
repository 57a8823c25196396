---------------------------- MODULE NetworkProofs ----------------------------
(***************************************************************************)
(* Proofs about what comes over the network. About Mesh: how old an entry  *)
(* of the table of peers can be, how old the list of peers is that a       *)
(* search works through, and what a search returns. About SourceCollection:*)
(* what the progress file says of the articles and pages on disk, through  *)
(* closing, dying and starting again.                                      *)
(***************************************************************************)
EXTENDS Mesh, SourceCollection, SequenceTheorems, FiniteSetTheorems, TLAPS

-----------------------------------------------------------------------------
(* The table of peers *)

\* What is known of a node was heard before the next round of _cleanup_loop, and less
\* than two rounds before it.
TableInv ==
    /\ now \in Nat /\ cleanAt \in Nat
    /\ now <= cleanAt /\ cleanAt <= now + PeerTimeout
    /\ peers \in [Nodes -> [available : BOOLEAN, seen : Int]]
    /\ \A n \in Nodes : Known(n) =>
          0 <= peers[n].seen /\ peers[n].seen <= now /\ cleanAt <= peers[n].seen + 2 * PeerTimeout

LEMMA TableInit == Init => TableInv
<1> SUFFICES ASSUME Init PROVE TableInv
  OBVIOUS
<1>1. \A n \in Nodes : ~ Known(n)
  BY DEF Init, Known
<1>2. peers \in [Nodes -> [available : BOOLEAN, seen : Int]]
  BY DEF Init, Unknown
<1>3. now = 0 /\ cleanAt = PeerTimeout
  BY DEF Init
<1> QED
  BY <1>1, <1>2, <1>3, MeshAssumption DEF TableInv

\* A beacon says one of two things.
LEMMA BeaconTypes == \A b \in Beacons : b.available \in BOOLEAN
<1>1. Statuses \subseteq BOOLEAN
  BY DEF Statuses
<1> QED
  BY <1>1 DEF Beacons

\* A step of a search leaves table and clock alone.
LEMMA SearchKeepsTable ==
  ASSUME StartSearch \/ SearchStep
  PROVE  UNCHANGED <<tableVars, now>>
BY DEF StartSearch, SearchStep, Ask, Answer, Refused, NoAnswer, NextPeer, Return

LEMMA TableNext == TableInv /\ [Next]_vars => TableInv'
<1> SUFFICES ASSUME TableInv, [Next]_vars PROVE TableInv'
  OBVIOUS
<1>0. PeerTimeout \in Nat \ {0}
  BY MeshAssumption
<1>1. ASSUME NEW n \in Nodes, Receive(n) PROVE TableInv'
  <2>1. PICK a \in BOOLEAN : peers' = [peers EXCEPT ![n] = [available |-> a, seen |-> now]]
    BY <1>1, BeaconTypes DEF Receive
  <2>2. now' = now /\ cleanAt' = cleanAt
    BY <1>1 DEF Receive
  <2>3. peers' \in [Nodes -> [available : BOOLEAN, seen : Int]]
    BY <2>1 DEF TableInv
  <2>4. ASSUME NEW m \in Nodes, Known(m)'
        PROVE  0 <= peers'[m].seen /\ peers'[m].seen <= now /\ cleanAt <= peers'[m].seen + 2 * PeerTimeout
    <3>1. CASE m = n
      BY <3>1, <2>1, <1>0 DEF TableInv
    <3>2. CASE m # n
      BY <3>2, <2>1, <2>4 DEF TableInv, Known
    <3> QED
      BY <3>1, <3>2
  <2> QED
    BY <2>2, <2>3, <2>4 DEF TableInv
<1>2. CASE Cleanup
  <2>1. /\ peers' = [n \in Nodes |-> IF Expired(n) THEN Unknown ELSE peers[n]]
        /\ now = cleanAt /\ cleanAt' = now + PeerTimeout /\ now' = now
    BY <1>2 DEF Cleanup
  <2>2. peers' \in [Nodes -> [available : BOOLEAN, seen : Int]]
    BY <2>1 DEF TableInv, Unknown
  <2>3. ASSUME NEW m \in Nodes, Known(m)'
        PROVE  0 <= peers'[m].seen /\ peers'[m].seen <= now /\ cleanAt' <= peers'[m].seen + 2 * PeerTimeout
    <3>1. ~ Expired(m) /\ peers'[m] = peers[m]
      BY <2>1, <2>3 DEF Known
    <3>2. Known(m) /\ now - peers[m].seen <= PeerTimeout
      BY <3>1, <2>3, <1>0 DEF Known, Expired, TableInv
    <3> QED
      BY <3>1, <3>2, <2>1, <1>0 DEF TableInv
  <2> QED
    BY <2>1, <2>2, <2>3, <1>0 DEF TableInv
<1>3. CASE StartSearch \/ SearchStep
  BY <1>3, SearchKeepsTable DEF tableVars, TableInv, Known
<1>4. CASE Tick
  BY <1>4, <1>0 DEF Tick, tableVars, TableInv, Known
<1>5. CASE UNCHANGED vars
  BY <1>5 DEF vars, tableVars, TableInv, Known
<1> QED
  BY <1>1, <1>2, <1>3, <1>4, <1>5 DEF Next

LEMMA TableInvariant == Spec => []TableInv
BY TableInit, TableNext, PTL DEF Spec

\* The entry of a node that is gone is deleted within two rounds of _cleanup_loop,
\* whatever beacons came when, for any number of nodes and any timeout.
THEOREM GoneNodesAreForgotten == Spec => []GoneAreForgotten
<1>1. TableInv => GoneAreForgotten
  BY MeshAssumption DEF TableInv, GoneAreForgotten, Known
<1> QED
  BY <1>1, TableInvariant, PTL

-----------------------------------------------------------------------------
(* The list of a search *)

\* The time a search of k requests may take.
Budget(k) == RequestTimeout * k

LEMMA BudgetGrows ==
  ASSUME NEW k \in Nat
  PROVE  Budget(k) \in Nat /\ Budget(k + 1) = Budget(k) + RequestTimeout
BY MeshAssumption DEF Budget

\* A peer on the list was heard of less than PeerTimeout before the list was made; from
\* then on only requests take time.
Fresh(seen, t) == t - seen < PeerTimeout + Budget(asked)

ListInv ==
    /\ asked \in Nat
    /\ asking \in [node : Nodes \cup {Nobody}, since : Nat]
    /\ todo \subseteq [node : Nodes, seen : Int]
    /\ ~ searching => todo = {} /\ asking = NotAsking
    /\ asking = NotAsking => \A p \in todo : Fresh(p.seen, now)
    /\ asking # NotAsking =>
          /\ now <= asking.since + RequestTimeout
          /\ \A p \in todo : Fresh(p.seen, asking.since)

LEMMA ListInit == Init => ListInv
BY DEF Init, ListInv, NotAsking

\* get_idle_peers leaves out who was not heard of for PeerTimeout.
LEMMA IdleAreFresh ==
  ASSUME TableInv, NEW p \in IdlePeers
  PROVE  p \in [node : Nodes, seen : Int] /\ now - p.seen < PeerTimeout
BY DEF IdlePeers, TableInv

LEMMA ListNext == TableInv /\ ListInv /\ [Next]_vars => ListInv'
<1> SUFFICES ASSUME TableInv, ListInv, [Next]_vars PROVE ListInv'
  OBVIOUS
<1>0. PeerTimeout \in Nat /\ RequestTimeout \in Nat /\ now \in Nat /\ Nobody \notin Nodes
  BY MeshAssumption DEF TableInv
<1>1. CASE (\E n \in Nodes : Receive(n)) \/ Cleanup
  BY <1>1 DEF Receive, Cleanup, searchVars, ListInv, Fresh, NotAsking
<1>2. CASE StartSearch
  <2>1. searching' = TRUE /\ todo' = IdlePeers /\ asked' = 0 /\ asking' = NotAsking /\ now' = now
    BY <1>2 DEF StartSearch, ListInv
  <2>2. \A p \in IdlePeers : p \in [node : Nodes, seen : Int] /\ now - p.seen < PeerTimeout
    BY IdleAreFresh
  <2>3. Budget(0) \in Nat
    BY BudgetGrows
  <2>4. \A p \in todo' : Fresh(p.seen, now)'
    BY <2>1, <2>2, <2>3, <1>0 DEF Fresh, Budget
  <2> QED
    BY <2>1, <2>2, <2>4 DEF ListInv, NotAsking
<1>3. ASSUME NEW p \in todo, Ask(p) PROVE ListInv'
  <2>1. /\ asking = NotAsking /\ todo' = todo \ {p} /\ asking' = [node |-> p.node, since |-> now]
        /\ UNCHANGED <<searching, asked, now>> /\ searching = TRUE
    BY <1>3 DEF Ask, ListInv
  <2>2. asking' # NotAsking /\ asking' \in [node : Nodes \cup {Nobody}, since : Nat] /\ asking'.since = now
    BY <2>1, <1>0 DEF ListInv, NotAsking
  <2> QED
    BY <2>1, <2>2, <1>0 DEF ListInv, Fresh
<1>4. CASE Answer \/ Refused \/ NoAnswer
  <2>1. /\ asking # NotAsking /\ asking' = NotAsking /\ asked' = asked + 1
        /\ UNCHANGED <<searching, todo, now>>
    BY <1>4 DEF Answer, Refused, NoAnswer, NextPeer
  <2>2. Budget(asked) \in Nat /\ Budget(asked') = Budget(asked) + RequestTimeout
    BY <2>1, BudgetGrows DEF ListInv
  <2>3. asking.since \in Nat /\ now <= asking.since + RequestTimeout
    BY <2>1 DEF ListInv
  <2>4. ASSUME NEW p \in todo PROVE Fresh(p.seen, now)'
    <3>1. p.seen \in Int /\ asking.since - p.seen < PeerTimeout + Budget(asked)
      BY <2>1 DEF ListInv, Fresh
    <3>2. now - p.seen < PeerTimeout + Budget(asked')
      BY <3>1, <2>2, <2>3, <1>0
    <3> QED
      BY <3>2, <2>1 DEF Fresh, Budget
  <2>5. asking' \in [node : Nodes \cup {Nobody}, since : Nat]
    BY <2>1 DEF NotAsking
  <2> QED
    BY <2>1, <2>4, <2>5 DEF ListInv
<1>5. CASE Return
  BY <1>5 DEF Return, tableVars, ListInv, Fresh, NotAsking
<1>6. CASE Tick
  <2>1. /\ asking # NotAsking => now < asking.since + RequestTimeout
        /\ searching => asking # NotAsking
        /\ now' = now + 1 /\ UNCHANGED <<searching, todo, asking, asked>>
    BY <1>6 DEF Tick, searchVars
  <2>2. CASE searching
    BY <2>1, <2>2, <1>0 DEF ListInv, Fresh, NotAsking
  <2>3. CASE ~ searching
    BY <2>1, <2>3 DEF ListInv, NotAsking
  <2> QED
    BY <2>2, <2>3
<1>7. CASE UNCHANGED vars
  BY <1>7 DEF vars, searchVars, ListInv, Fresh, NotAsking
<1> QED
  BY <1>1, <1>2, <1>3, <1>4, <1>5, <1>6, <1>7 DEF Next, SearchStep

LEMMA ListInvariant == Spec => []ListInv
BY ListInit, ListNext, TableInvariant, PTL DEF Spec

\* However long a search has gone on, a peer it is still to ask was heard of less than
\* PeerTimeout before it began, and each request before it took RequestTimeout at most.
THEOREM AskedPeersWereHeard == Spec => []AskedWereHeard
<1>1. ASSUME TableInv, ListInv PROVE AskedWereHeard
  <2> SUFFICES ASSUME NEW p \in todo
               PROVE  now - p.seen < PeerTimeout
                        + RequestTimeout * (asked + IF asking = NotAsking THEN 0 ELSE 1)
    BY DEF AskedWereHeard
  <2>1. /\ p.seen \in Int /\ asked \in Nat /\ now \in Nat
        /\ PeerTimeout \in Nat /\ RequestTimeout \in Nat
    BY <1>1, MeshAssumption DEF TableInv, ListInv
  <2>2. CASE asking = NotAsking
    BY <1>1, <2>1, <2>2 DEF ListInv, Fresh, Budget
  <2>3. CASE asking # NotAsking
    <3>1. /\ asking.since \in Nat /\ now <= asking.since + RequestTimeout
          /\ asking.since - p.seen < PeerTimeout + Budget(asked)
      BY <1>1, <2>3 DEF ListInv, Fresh
    <3>2. Budget(asked) \in Nat /\ Budget(asked + 1) = Budget(asked) + RequestTimeout
      BY <2>1, BudgetGrows
    <3>3. now - p.seen < PeerTimeout + Budget(asked + 1)
      BY <2>1, <3>1, <3>2
    <3> QED
      BY <2>3, <3>3 DEF Budget
  <2> QED
    BY <2>2, <2>3
<1> QED
  BY <1>1, TableInvariant, ListInvariant, PTL

-----------------------------------------------------------------------------
(* The order of the hits *)

\* The positions of P before i.
Before(s, P, i) == { j \in P : Precedes(s, j, i) }
Positions(s) == SUBSET (DOMAIN s)

\* Sorting is by a strict order in which no two hits have the same place.
LEMMA PrecedesIsOrder ==
    ASSUME NEW s \in Seq(Hits), NEW i \in DOMAIN s, NEW j \in DOMAIN s, NEW k \in DOMAIN s
    PROVE  /\ ~ Precedes(s, i, i)
           /\ Precedes(s, i, j) /\ Precedes(s, j, k) => Precedes(s, i, k)
           /\ i # j => Precedes(s, i, j) \/ Precedes(s, j, i)
           /\ Precedes(s, i, j) => s[i].dist <= s[j].dist
<1>1. s[i].dist \in Nat /\ s[j].dist \in Nat /\ s[k].dist \in Nat
  BY MeshAssumption
<1>2. i \in Nat /\ j \in Nat /\ k \in Nat
  OBVIOUS
<1> QED
  BY <1>1, <1>2, SMT DEF Precedes

LEMMA PositionsAreFinite ==
    ASSUME NEW s \in Seq(Hits), NEW P \in Positions(s), NEW i
    PROVE  /\ IsFiniteSet(P) /\ Cardinality(P) \in Nat
           /\ IsFiniteSet(Before(s, P, i)) /\ Cardinality(Before(s, P, i)) \in Nat
           /\ Place(s, P, i) = 1 + Cardinality(Before(s, P, i))
<1>1. IsFiniteSet(1 .. Len(s)) /\ DOMAIN s = 1 .. Len(s)
  <2>1. Len(s) \in Nat
    OBVIOUS
  <2> QED
    BY <2>1, FS_Interval
<1>2. IsFiniteSet(P)
  BY <1>1, FS_Subset DEF Positions
<1>3. Before(s, P, i) \in SUBSET P
  BY DEF Before
<1> QED
  BY <1>2, <1>3, FS_Subset, FS_CardinalityType DEF Place, Before

\* Places grow with the order and end with the size of the set.
LEMMA PlaceGrows ==
    ASSUME NEW s \in Seq(Hits), NEW P \in Positions(s), NEW i \in P, NEW j \in P, Precedes(s, i, j)
    PROVE  Place(s, P, i) < Place(s, P, j)
<1>1. P \subseteq DOMAIN s
  BY DEF Positions
<1>2. Before(s, P, i) \in SUBSET Before(s, P, j)
  <2>1. \A k \in P : Precedes(s, k, i) => Precedes(s, k, j)
    BY <1>1, PrecedesIsOrder
  <2> QED
    BY <2>1, Zenon DEF Before
<1>3. i \in Before(s, P, j) /\ i \notin Before(s, P, i)
  <2>1. ~ Precedes(s, i, i)
    BY <1>1, PrecedesIsOrder
  <2> QED
    BY <2>1 DEF Before
<1>4. Cardinality(Before(s, P, i)) <= Cardinality(Before(s, P, j))
  BY <1>2, PositionsAreFinite, FS_Subset
<1>5. Cardinality(Before(s, P, i)) # Cardinality(Before(s, P, j))
  BY <1>2, <1>3, PositionsAreFinite, FS_Subset
<1> QED
  BY <1>4, <1>5, PositionsAreFinite, SMT

LEMMA PlaceBelowSize ==
    ASSUME NEW s \in Seq(Hits), NEW P \in Positions(s), NEW i \in P
    PROVE  Place(s, P, i) \in 1 .. Cardinality(P)
<1>1. Before(s, P, i) \in SUBSET P /\ Before(s, P, i) # P
  <2>1. ~ Precedes(s, i, i)
    BY PrecedesIsOrder DEF Positions
  <2> QED
    BY <2>1 DEF Before
<1>2. Cardinality(Before(s, P, i)) <= Cardinality(P)
  BY <1>1, PositionsAreFinite, FS_Subset
<1>3. Cardinality(Before(s, P, i)) # Cardinality(P)
  BY <1>1, PositionsAreFinite, FS_Subset
<1> QED
  BY <1>2, <1>3, PositionsAreFinite, SMT

\* A place tells the position, and every place is taken.
LEMMA PlaceIsUnique ==
    ASSUME NEW s \in Seq(Hits), NEW P \in Positions(s), NEW i \in P, NEW j \in P,
           Place(s, P, i) = Place(s, P, j)
    PROVE  i = j
<1> SUFFICES ASSUME i # j PROVE FALSE
  OBVIOUS
<1>1. Precedes(s, i, j) \/ Precedes(s, j, i)
  BY PrecedesIsOrder DEF Positions
<1>2. Place(s, P, i) < Place(s, P, j) \/ Place(s, P, j) < Place(s, P, i)
  BY <1>1, PlaceGrows
<1> QED
  BY <1>2, PositionsAreFinite, SMT

LEMMA PlaceIsTaken ==
    ASSUME NEW s \in Seq(Hits), NEW P \in Positions(s), NEW n \in 1 .. Cardinality(P)
    PROVE  \E i \in P : Place(s, P, i) = n
<1> DEFINE m == Cardinality(P)
           place == [i \in P |-> Place(s, P, i)]
<1>1. IsFiniteSet(P) /\ m \in Nat
  BY PositionsAreFinite
<1>2. place \in [P -> 1 .. m]
  BY PlaceBelowSize
<1>3. \A i, j \in P : place[i] = place[j] => i = j
  BY PlaceIsUnique
<1>4. place \in Injection(P, 1 .. m)
  BY <1>2, <1>3, Zenon DEF Injection, IsInjective
<1>5. IsFiniteSet(1 .. m) /\ Cardinality(1 .. m) = m
  <2>1. 1 \in Int /\ m \in Int /\ (1 > m => m = 0)
    BY <1>1, SMT
  <2>2. Cardinality(1 .. m) = IF 1 > m THEN 0 ELSE m - 1 + 1
    BY <2>1, FS_Interval
  <2> QED
    BY <1>1, <2>1, <2>2, FS_Interval, SMT
<1>6. place \in Surjection(P, 1 .. m)
  BY <1>4, <1>5, FS_Injection, Zenon
<1>7. \E i \in P : place[i] = n
  BY <1>6, Zenon DEF Surjection
<1> QED
  BY <1>7

\* Every key has a position at which it comes first.
LEMMA KeyComesFirst ==
    ASSUME NEW s \in Seq(Hits), NEW j \in DOMAIN s
    PROVE  \E i \in Deduped(s) : s[i].key = s[j].key /\ s[i].dist <= s[j].dist
<1> DEFINE P == { k \in DOMAIN s : s[k].key = s[j].key }
<1>1. P \in Positions(s) /\ j \in P
  BY DEF Positions
<1>2. 1 \in 1 .. Cardinality(P)
  <2>1. Place(s, P, j) \in 1 .. Cardinality(P) /\ Cardinality(P) \in Nat
    BY <1>1, PlaceBelowSize, PositionsAreFinite
  <2> QED
    BY <2>1, SMT
<1>3. PICK i \in P : Place(s, P, i) = 1
  BY <1>1, <1>2, PlaceIsTaken
<1>4. Before(s, P, i) = {}
  <2>1. Cardinality(Before(s, P, i)) = 0
    BY <1>1, <1>3, PositionsAreFinite, SMT
  <2> QED
    BY <1>1, <2>1, PositionsAreFinite, FS_EmptySet
<1>5. \A k \in DOMAIN s : s[k].key = s[i].key => ~ Precedes(s, k, i)
  BY <1>4 DEF Before
<1>6. i \in Deduped(s) /\ s[i].key = s[j].key /\ i \in DOMAIN s
  BY <1>5, Zenon DEF Deduped
<1>7. s[i].dist <= s[j].dist
  <2>1. CASE i = j
    BY <2>1, MeshAssumption, SMT
  <2>2. CASE i # j
    BY <1>5, <1>6, <2>2, PrecedesIsOrder
  <2> QED
    BY <2>1, <2>2
<1> QED
  BY <1>6, <1>7

\* Which position comes n-th.
At(s, P, n) == CHOOSE i \in P : Place(s, P, i) = n

LEMMA AtHasPlace ==
    ASSUME NEW s \in Seq(Hits), NEW P \in Positions(s), NEW n \in 1 .. Cardinality(P)
    PROVE  At(s, P, n) \in P /\ Place(s, P, At(s, P, n)) = n
  BY PlaceIsTaken DEF At

\* The heart of it: what merging gives.
LEMMA MergedIsNearest ==
    ASSUME NEW s \in Seq(Hits)
    PROVE  LET m == Merged(s) IN
           /\ m \in Seq(Hits) /\ Len(m) <= TopK
           /\ \A n \in DOMAIN m : \E i \in DOMAIN s : m[n] = s[i]
           /\ \A k, n \in DOMAIN m : k < n => m[k].dist <= m[n].dist /\ m[k].key # m[n].key
           /\ \A j \in DOMAIN s :
                  \/ \E n \in DOMAIN m : m[n].key = s[j].key /\ m[n].dist <= s[j].dist
                  \/ Len(m) = TopK /\ \A n \in DOMAIN m : m[n].dist <= s[j].dist
<1> DEFINE P == Deduped(s)
           c == Cardinality(P)
           l == IF c < TopK THEN c ELSE TopK
           m == Merged(s)
<1>1. P \in Positions(s) /\ P \subseteq DOMAIN s
  BY DEF Deduped, Positions
<1>2. c \in Nat /\ TopK \in Nat
  BY <1>1, PositionsAreFinite, MeshAssumption
<1>3. m = [n \in 1 .. l |-> s[At(s, P, n)]]
  BY DEF Merged, FirstOf, At
<1>4. l \in Nat /\ l <= c /\ l <= TopK /\ (l < c => l = TopK)
  BY <1>2, SMT
<1> HIDE DEF P, l, m
<1>5. \A n \in 1 .. l : n \in 1 .. c
  BY <1>2, <1>4, SMT
<1>6. \A n \in 1 .. l : At(s, P, n) \in P /\ At(s, P, n) \in DOMAIN s /\ Place(s, P, At(s, P, n)) = n
  BY <1>1, <1>5, AtHasPlace
<1>7. \A n \in 1 .. l : m[n] = s[At(s, P, n)] /\ m[n] \in Hits
  BY <1>3, <1>6, SMT
<1>8. m \in Seq(Hits) /\ Len(m) = l /\ DOMAIN m = 1 .. l
  BY <1>3, <1>4, <1>7, SMT
\* Of two positions of P, that with the smaller place comes first.
<1>9. ASSUME NEW i \in P, NEW j \in P, Place(s, P, i) < Place(s, P, j)
      PROVE  Precedes(s, i, j) /\ s[i].dist <= s[j].dist
  <2>1. i # j
    BY <1>1, <1>9, PositionsAreFinite, SMT
  <2>2. Precedes(s, i, j) \/ Precedes(s, j, i)
    BY <1>1, <2>1, PrecedesIsOrder
  <2>3. ~ Precedes(s, j, i)
    <3> SUFFICES ASSUME Precedes(s, j, i) PROVE FALSE
      OBVIOUS
    <3>1. Place(s, P, j) < Place(s, P, i)
      BY <1>1, PlaceGrows
    <3> QED
      BY <1>1, <1>9, <3>1, PositionsAreFinite, SMT
  <2>4. Precedes(s, i, j) => s[i].dist <= s[j].dist
    BY <1>1, PrecedesIsOrder
  <2> QED
    BY <2>2, <2>3, <2>4
<1>10. ASSUME NEW k \in DOMAIN m, NEW n \in DOMAIN m, k < n
       PROVE  m[k].dist <= m[n].dist /\ m[k].key # m[n].key
  <2> DEFINE i == At(s, P, k)
             j == At(s, P, n)
  <2>1. i \in P /\ j \in P /\ m[k] = s[i] /\ m[n] = s[j]
        /\ Place(s, P, i) = k /\ Place(s, P, j) = n
    BY <1>6, <1>7, <1>8
  <2> HIDE DEF i, j
  <2>2. Precedes(s, i, j) /\ s[i].dist <= s[j].dist
    BY <1>9, <1>10, <2>1
  <2>3. s[i].key # s[j].key
    BY <1>1, <2>1, <2>2 DEF P, Deduped
  <2> QED
    BY <2>1, <2>2, <2>3
<1>11. ASSUME NEW j \in DOMAIN s
       PROVE  \/ \E n \in DOMAIN m : m[n].key = s[j].key /\ m[n].dist <= s[j].dist
              \/ Len(m) = TopK /\ \A n \in DOMAIN m : m[n].dist <= s[j].dist
  <2>1. PICK i \in P : s[i].key = s[j].key /\ s[i].dist <= s[j].dist
    BY KeyComesFirst DEF P
  <2>2. Place(s, P, i) \in 1 .. c
    BY <1>1, PlaceBelowSize
  <2>3. CASE Place(s, P, i) \in 1 .. l
    <3> DEFINE n == Place(s, P, i)
    <3>1. At(s, P, n) = i
      BY <1>1, <1>6, <2>3, PlaceIsUnique
    <3>2. m[n] = s[i] /\ n \in DOMAIN m
      BY <1>7, <1>8, <2>3, <3>1
    <3> QED
      BY <2>1, <3>2
  <2>4. CASE Place(s, P, i) \notin 1 .. l
    <3>1. l < Place(s, P, i) /\ l < c
      BY <1>2, <1>4, <2>2, <2>4, SMT
    <3>2. ASSUME NEW n \in 1 .. l PROVE m[n].dist <= s[j].dist
      <4>1. n < Place(s, P, i)
        BY <1>4, <2>2, <3>1, SMT
      <4>2. s[At(s, P, n)].dist <= s[i].dist
        BY <1>6, <1>9, <4>1
      <4>3. m[n].dist \in Nat /\ s[i].dist \in Nat /\ s[j].dist \in Nat /\ m[n].dist <= s[i].dist
        <5>1. i \in DOMAIN s
          BY <1>1
        <5> QED
          BY <1>7, <4>2, <5>1, MeshAssumption
      <4> QED
        BY <2>1, <4>3, SMT
    <3> QED
      BY <1>4, <1>8, <3>1, <3>2
  <2> QED
    BY <2>3, <2>4
<1>12. \A n \in DOMAIN m : \E i \in DOMAIN s : m[n] = s[i]
  BY <1>6, <1>7, <1>8
<1> QED
  BY <1>4, <1>8, <1>10, <1>11, <1>12 DEF m

-----------------------------------------------------------------------------
(* What a search returns *)

\* While a search runs, its hits are what it was given.
HitsInv ==
    /\ asking # NotAsking => asking.node \in Nodes
    /\ hits \in Seq(Hits)
    /\ searching => ToSet(hits) = sent
    /\ NearestOfTheSent

LEMMA AppendedHits ==
    ASSUME NEW s \in Seq(Hits), NEW t \in Seq(Hits)
    PROVE  s \o t \in Seq(Hits) /\ ToSet(s \o t) = ToSet(s) \cup ToSet(t)
<1>1. /\ s \o t \in Seq(Hits) /\ Len(s \o t) = Len(s) + Len(t)
      /\ \A i \in 1 .. Len(s) + Len(t) : (s \o t)[i] = IF i <= Len(s) THEN s[i] ELSE t[i - Len(s)]
  BY ConcatProperties
<1>2. DOMAIN s = 1 .. Len(s) /\ DOMAIN t = 1 .. Len(t) /\ DOMAIN (s \o t) = 1 .. Len(s) + Len(t)
      /\ Len(s) \in Nat /\ Len(t) \in Nat
  BY <1>1, SMT
<1>3. ASSUME NEW i \in DOMAIN (s \o t) PROVE (s \o t)[i] \in ToSet(s) \cup ToSet(t)
  <2>1. CASE i <= Len(s)
    <3>1. i \in DOMAIN s /\ (s \o t)[i] = s[i]
      BY <1>1, <1>2, <2>1, SMT
    <3> QED
      BY <3>1 DEF ToSet
  <2>2. CASE ~ (i <= Len(s))
    <3>1. i - Len(s) \in DOMAIN t /\ (s \o t)[i] = t[i - Len(s)]
      BY <1>1, <1>2, <2>2, SMT
    <3> QED
      BY <3>1 DEF ToSet
  <2> QED
    BY <2>1, <2>2
<1>4. ASSUME NEW i \in DOMAIN s PROVE s[i] \in ToSet(s \o t)
  <2>1. i \in DOMAIN (s \o t) /\ (s \o t)[i] = s[i]
    BY <1>1, <1>2, SMT
  <2> QED
    BY <2>1, Zenon DEF ToSet
<1>5. ASSUME NEW i \in DOMAIN t PROVE t[i] \in ToSet(s \o t)
  <2>1. i + Len(s) \in DOMAIN (s \o t) /\ (s \o t)[i + Len(s)] = t[i]
    BY <1>1, <1>2, SMT
  <2> QED
    BY <2>1, Zenon DEF ToSet
<1>6. ToSet(s \o t) = ToSet(s) \cup ToSet(t)
  BY <1>3, <1>4, <1>5, Zenon DEF ToSet
<1> QED
  BY <1>1, <1>6

\* Merging gives the nearest of what was sent.
LEMMA ReturnKeepsHits == ASSUME HitsInv, Return PROVE HitsInv'
<1>1. /\ searching /\ hits' = Merged(hits) /\ searching' = FALSE
      /\ UNCHANGED <<sent, asking>>
  BY DEF Return
<1>2. hits \in Seq(Hits) /\ ToSet(hits) = sent
  BY <1>1 DEF HitsInv
<1>3. \A h : h \in sent <=> \E i \in DOMAIN hits : hits[i] = h
  BY <1>2, Zenon DEF ToSet
<1> DEFINE m == Merged(hits)
<1>4. /\ m \in Seq(Hits) /\ Len(m) <= TopK
      /\ \A n \in DOMAIN m : \E i \in DOMAIN hits : m[n] = hits[i]
      /\ \A k, n \in DOMAIN m : k < n => m[k].dist <= m[n].dist /\ m[k].key # m[n].key
      /\ \A j \in DOMAIN hits :
             \/ \E n \in DOMAIN m : m[n].key = hits[j].key /\ m[n].dist <= hits[j].dist
             \/ Len(m) = TopK /\ \A n \in DOMAIN m : m[n].dist <= hits[j].dist
  BY <1>2, MergedIsNearest
<1> HIDE DEF m
<1>5. ToSet(m) \subseteq sent
  BY <1>3, <1>4, Zenon DEF ToSet
<1>6. \A h \in sent :
          \/ \E i \in DOMAIN m : m[i].key = h.key /\ m[i].dist <= h.dist
          \/ Len(m) = TopK /\ \A i \in DOMAIN m : m[i].dist <= h.dist
  BY <1>3, <1>4, Zenon
<1>7. hits' = m /\ sent' = sent
  BY <1>1 DEF m
<1>8. NearestOfTheSent'
  BY <1>4, <1>5, <1>6, <1>7 DEF NearestOfTheSent
<1> QED
  BY <1>1, <1>2, <1>4, <1>7, <1>8 DEF HitsInv

LEMMA HitsNext == ListInv /\ HitsInv /\ [Next]_vars => HitsInv'
<1> SUFFICES ASSUME ListInv, HitsInv, [Next]_vars PROVE HitsInv'
  OBVIOUS
<1>1. CASE (\E n \in Nodes : Receive(n)) \/ Cleanup \/ Tick \/ UNCHANGED vars
  <2>1. UNCHANGED searchVars
    BY <1>1 DEF Receive, Cleanup, Tick, vars
  <2> QED
    BY <2>1 DEF HitsInv, NearestOfTheSent, searchVars
<1>2. CASE StartSearch
  <2>1. PICK found \in LocalHits : hits' = found /\ sent' = ToSet(found)
    BY <1>2 DEF StartSearch
  <2>2. searching' = TRUE /\ UNCHANGED asking
    BY <1>2 DEF StartSearch
  <2>3. found \in Seq(Hits)
    <3>1. Self \in Nodes /\ Finds[Self] \subseteq Seq(Hits) /\ <<>> \in Seq(Hits)
      BY MeshAssumption
    <3> QED
      BY <2>1, <3>1 DEF LocalHits
  <2> QED
    BY <2>1, <2>2, <2>3 DEF HitsInv, NearestOfTheSent
<1>3. ASSUME NEW p \in todo, Ask(p) PROVE HitsInv'
  <2>1. searching /\ asking'.node = p.node /\ p.node \in Nodes /\ UNCHANGED <<searching, hits, sent>>
    BY <1>3 DEF Ask, ListInv
  <2> QED
    BY <2>1 DEF HitsInv, NearestOfTheSent
<1>4. CASE Answer
  <2>1. PICK found \in Finds[asking.node] : hits' = hits \o found /\ sent' = sent \cup ToSet(found)
    BY <1>4 DEF Answer
  <2>2. asking # NotAsking /\ asking' = NotAsking /\ UNCHANGED searching
    BY <1>4 DEF Answer
  <2>3. searching /\ asking.node \in Nodes /\ ToSet(hits) = sent /\ hits \in Seq(Hits)
    BY <2>2 DEF ListInv, HitsInv
  <2>4. found \in Seq(Hits)
    BY <2>1, <2>3, MeshAssumption
  <2>5. hits' \in Seq(Hits) /\ ToSet(hits') = sent'
    BY <2>1, <2>3, <2>4, AppendedHits
  <2> QED
    BY <2>2, <2>3, <2>5 DEF HitsInv, NearestOfTheSent
<1>5. CASE Refused \/ NoAnswer
  <2>1. asking' = NotAsking /\ asking # NotAsking /\ UNCHANGED <<searching, hits, sent>>
    BY <1>5 DEF Refused, NoAnswer, NextPeer
  <2> QED
    BY <2>1 DEF HitsInv, NearestOfTheSent
<1>6. CASE Return
  BY <1>6, ReturnKeepsHits
<1> QED
  BY <1>1, <1>2, <1>3, <1>4, <1>5, <1>6 DEF Next, SearchStep

LEMMA HitsInvariant == Spec => []HitsInv
<1>1. Init => HitsInv
  <2> SUFFICES ASSUME Init PROVE HitsInv
    OBVIOUS
  <2>1. hits = <<>> /\ sent = {} /\ asking = NotAsking /\ ~searching
    BY DEF Init
  <2>2. ToSet(hits) \subseteq sent /\ DOMAIN hits = {} /\ Len(hits) = 0 /\ hits \in Seq(Hits)
    BY <2>1 DEF ToSet
  <2>3. Len(hits) <= TopK
    BY <2>2, MeshAssumption, SMT
  <2>4. NearestOfTheSent
    BY <2>1, <2>2, <2>3, Zenon DEF NearestOfTheSent
  <2> QED
    BY <2>1, <2>2, <2>4 DEF HitsInv
<1> QED
  BY <1>1, HitsNext, ListInvariant, PTL DEF Spec

\* distributed_search returns the nearest of all it was given, sorted, no key twice and
\* none further than it has to be, whatever lists the retrievers of the nodes return and
\* whichever peers answer: every key has a first position in the sorted list, the places
\* of these positions are the numbers up to their count, and merging takes the first.
THEOREM SearchReturnsNearest == Spec => []NearestOfTheSent
<1>1. HitsInv => NearestOfTheSent
  BY DEF HitsInv
<1> QED
  BY <1>1, HitsInvariant, PTL

-----------------------------------------------------------------------------
(* The progress of the collection *)

\* The places of a thread that has a page of answers, or a topic, in hand.
PagePlaces  == {"so_page", "so_file", "so_save"}
TopicPlaces == {"topic", "article", "links"}

\* All pages below n are whole or skipped; those from lo to below hi are skipped.
Sound(n, ans, left) == \A k \in 1 .. SO_MAX_PAGES : k < n => ans[k] = "whole" \/ k \in left
Gap(lo, hi, left)   == \A k \in 1 .. SO_MAX_PAGES : lo <= k /\ k < hi => k \in left

\* A thread that has met no other is the only one.
Alone == ~ overlap => \A t, u \in Threads : pc[t] # "off" /\ pc[u] # "off" => t = u

\* While the program runs, the file has at most what is in memory.
FileBehind ==
    /\ window = "closed" => \A t \in Threads : pc[t] = "off"
    /\ \A d \in saved : saved = {d}
    /\ window # "closed" => \A d \in saved : d.done \subseteq memory.done

\* A topic in hand is not done yet, if there is one thread; its file is as far as the place
\* says.
TopicInHand(t) ==
    /\ pc[t] \in TopicPlaces => item[t] \in Topics
    /\ pc[t] \in {"topic", "article"} /\ ~ overlap => item[t] \notin memory.done
    /\ pc[t] = "article" => article[item[t]] \in {"part", "whole"} \/ item[t] \in excused
    /\ pc[t] = "links" => /\ rest[t] \subseteq DOMAIN Links[item[t]]
                          /\ article[item[t]] = "whole" \/ item[t] \in excused
TopicsInHand == \A t \in Threads : TopicInHand(t)

\* The page in hand is the one of the progress, if there is one thread. Where two are apart
\* from each other or from the progress, what lies between them is skipped.
PageInHand(t) ==
    pc[t] \in PagePlaces =>
        /\ item[t] \in Nat \ {0}
        /\ Sound(item[t], answers, skipped)
        /\ Gap(memory.page, item[t], skipped) /\ Gap(item[t] + 1, memory.page, skipped)
        /\ ~ overlap => item[t] = memory.page
FileInHand(t) ==
    pc[t] = "so_file" =>
        /\ item[t] <= SO_MAX_PAGES
        /\ answers[item[t]] \in {"part", "whole"} \/ item[t] \in skipped
        /\ item[t] <= memory.page \/ item[t] \in skipped
        /\ \A u \in Threads : pc[u] \in PagePlaces /\ item[u] < item[t] => item[t] \in skipped
PagesInHand == \A t \in Threads : PageInHand(t) /\ FileInHand(t)

\* The progress in memory and in the file.
PagesKnown ==
    /\ memory.page >= 1 /\ Sound(memory.page, answers, skipped)
    /\ \A d \in saved : /\ d.page >= 1 /\ Sound(d.page, answers, skipped)
                        /\ window # "closed" => Gap(memory.page, d.page, skipped)

CollectionInv ==
    /\ SourcesTypes
    /\ Alone
    /\ FileBehind
    /\ TopicsInHand
    /\ DoneHaveArticles
    /\ PagesInHand
    /\ PagesKnown

\* The fields of the progress, and what it is with one of them changed.
LEMMA DataFields ==
    ASSUME NEW d \in Data
    PROVE  /\ d.queue \in Seq(Topics) /\ d.done \in SUBSET Topics
           /\ d.page \in Nat /\ d.man \in BOOLEAN
           /\ \A q : [d EXCEPT !.queue = q] =
                       [queue |-> q, done |-> d.done, page |-> d.page, man |-> d.man]
           /\ \A D : [d EXCEPT !.done = D] =
                       [queue |-> d.queue, done |-> D, page |-> d.page, man |-> d.man]
           /\ \A n : [d EXCEPT !.page = n] =
                       [queue |-> d.queue, done |-> d.done, page |-> n, man |-> d.man]
           /\ \A m : [d EXCEPT !.man = m] =
                       [queue |-> d.queue, done |-> d.done, page |-> d.page, man |-> m]
<1> DEFINE S == Seq(Topics)
<1>1. Data = [queue : S, done : SUBSET Topics, page : Nat, man : BOOLEAN]
  BY DEF Data
<1> HIDE DEF S
<1>2. /\ d.queue \in S /\ d.done \in SUBSET Topics /\ d.page \in Nat /\ d.man \in BOOLEAN
  BY <1>1, SMT
<1>3. \A q : [d EXCEPT !.queue = q] =
               [queue |-> q, done |-> d.done, page |-> d.page, man |-> d.man]
  BY <1>1, SMT
<1>4. \A D : [d EXCEPT !.done = D] =
               [queue |-> d.queue, done |-> D, page |-> d.page, man |-> d.man]
  BY <1>1, SMT
<1>5. \A n : [d EXCEPT !.page = n] =
               [queue |-> d.queue, done |-> d.done, page |-> n, man |-> d.man]
  BY <1>1, SMT
<1>6. \A m : [d EXCEPT !.man = m] =
               [queue |-> d.queue, done |-> d.done, page |-> d.page, man |-> m]
  BY <1>1, SMT
<1> QED
  BY <1>2, <1>3, <1>4, <1>5, <1>6, Zenon DEF S

\* memory with another queue, other articles, another page, another manual.
LEMMA NewQueue ==
    ASSUME memory \in Data, NEW q, memory' = [memory EXCEPT !.queue = q]
    PROVE  /\ memory'.done = memory.done /\ memory'.page = memory.page
           /\ q \in Seq(Topics) => memory' \in Data
<1>1. q \in Seq(Topics) => memory' \in Data
  BY DataFields, SMT DEF Data
<1> QED
  BY <1>1, DataFields, SMT

LEMMA NewDone ==
    ASSUME memory \in Data, NEW D, memory' = [memory EXCEPT !.done = D]
    PROVE  /\ memory'.done = D /\ memory'.page = memory.page
           /\ D \in SUBSET Topics => memory' \in Data
<1>1. D \in SUBSET Topics => memory' \in Data
  BY DataFields, SMT DEF Data
<1> QED
  BY <1>1, DataFields, SMT

LEMMA NewQueueAndDone ==
    ASSUME memory \in Data, NEW q \in Seq(Topics), NEW D \in SUBSET Topics,
           memory' = [memory EXCEPT !.queue = q, !.done = D]
    PROVE  memory' \in Data /\ memory'.done = D /\ memory'.page = memory.page
<1> DEFINE m == [memory EXCEPT !.queue = q]
<1>1. m = [queue |-> q, done |-> memory.done, page |-> memory.page, man |-> memory.man]
  BY DataFields, Zenon
<1>2. m \in Data
  BY <1>1, DataFields, SMT DEF Data
<1>3. m.page = memory.page
  BY <1>1, SMT
<1>4. memory' = [m EXCEPT !.done = D]
  OBVIOUS
<1> HIDE DEF m
<1>5. memory' = [queue |-> m.queue, done |-> D, page |-> m.page, man |-> m.man]
  BY <1>2, <1>4, DataFields, Zenon
<1>6. memory' \in Data
  BY <1>2, <1>5, DataFields, SMT DEF Data
<1> QED
  BY <1>3, <1>5, <1>6, SMT

LEMMA NewPage ==
    ASSUME memory \in Data, NEW n, memory' = [memory EXCEPT !.page = n]
    PROVE  /\ memory'.done = memory.done /\ memory'.page = n
           /\ n \in Nat => memory' \in Data
<1>1. n \in Nat => memory' \in Data
  BY DataFields, SMT DEF Data
<1> QED
  BY <1>1, DataFields, SMT

LEMMA NewMan ==
    ASSUME memory \in Data, NEW m, memory' = [memory EXCEPT !.man = m]
    PROVE  /\ memory'.done = memory.done /\ memory'.page = memory.page
           /\ m \in BOOLEAN => memory' \in Data
<1>1. m \in BOOLEAN => memory' \in Data
  BY DataFields, SMT DEF Data
<1> QED
  BY <1>1, DataFields, SMT

\* A step that leaves alone what is on disk, and what the progress says of it.
ArticlesKept == UNCHANGED <<article, excused>>
AnswersKept  == UNCHANGED <<answers, skipped>>
ProgressKept ==
    /\ memory'.done = memory.done /\ memory'.page = memory.page
    /\ saved' = saved \/ saved' = {memory'}
    /\ window' = "closed" <=> window = "closed"

\* A thread that keeps what it has in hand, or lays it down.
TopicKept(t) ==
    pc'[t] \in TopicPlaces => pc[t] = pc'[t] /\ item'[t] = item[t] /\ rest'[t] \subseteq rest[t]
PageKept(t) ==
    /\ pc'[t] \in PagePlaces => pc[t] \in PagePlaces /\ item'[t] = item[t]
    /\ pc'[t] = "so_file" => pc[t] = "so_file"
HandKept(t) ==
    /\ pc'[t] # "off" => pc[t] # "off"
    /\ TopicKept(t) /\ PageKept(t)

\* A pipeline that starts finds others, or is alone and has nothing in hand.
OverlapKept ==
    ~ overlap' => ~ overlap \/ \A t \in Threads : pc'[t] \notin PagePlaces \cup TopicPlaces

LEMMA AloneKept ==
    ASSUME Alone, \A t \in Threads : pc'[t] # "off" => pc[t] # "off", overlap' = overlap
    PROVE  Alone'
  BY Zenon DEF Alone

LEMMA FileKept ==
    ASSUME FileBehind, ProgressKept, window = "closed" => UNCHANGED pc
    PROVE  FileBehind'
<1>1. window' = "closed" => \A t \in Threads : pc'[t] = "off"
  BY Zenon DEF FileBehind, ProgressKept
<1>2. \A d \in saved' : saved' = {d}
  BY Zenon DEF FileBehind, ProgressKept
<1>3. window' # "closed" => \A d \in saved' : d.done \subseteq memory'.done
  BY SMT DEF FileBehind, ProgressKept
<1> QED
  BY <1>1, <1>2, <1>3 DEF FileBehind

LEMMA TopicsKept ==
    ASSUME TopicsInHand, ArticlesKept, OverlapKept, memory'.done = memory.done,
           \A t \in Threads : TopicKept(t)
    PROVE  TopicsInHand'
<1> SUFFICES ASSUME NEW t \in Threads PROVE TopicInHand(t)'
  BY DEF TopicsInHand
<1>1. TopicInHand(t) /\ TopicKept(t)
  BY DEF TopicsInHand
<1>2. pc'[t] \in {"topic", "article"} /\ ~ overlap' => ~ overlap
  BY SMT DEF OverlapKept, TopicPlaces
<1> QED
  BY <1>1, <1>2, SMT DEF TopicInHand, TopicKept, ArticlesKept, TopicPlaces

LEMMA DoneKept ==
    ASSUME DoneHaveArticles, ArticlesKept, ProgressKept
    PROVE  DoneHaveArticles'
  BY SMT DEF DoneHaveArticles, ArticlesKept, ProgressKept, Datas

LEMMA PagesHandKept ==
    ASSUME PagesInHand, AnswersKept, OverlapKept, memory'.page = memory.page,
           \A t \in Threads : PageKept(t)
    PROVE  PagesInHand'
<1> SUFFICES ASSUME NEW t \in Threads PROVE PageInHand(t)' /\ FileInHand(t)'
  BY DEF PagesInHand
<1>1. PageInHand(t) /\ FileInHand(t) /\ PageKept(t)
  BY DEF PagesInHand
<1>2. pc'[t] \in PagePlaces /\ ~ overlap' => ~ overlap
  BY SMT DEF OverlapKept
<1>3. PageInHand(t)'
  BY <1>1, <1>2, SMT DEF PageInHand, PageKept, AnswersKept, Sound, Gap
<1>4. \A u \in Threads : pc'[u] \in PagePlaces => pc[u] \in PagePlaces /\ item'[u] = item[u]
  BY DEF PageKept
<1>5. FileInHand(t)'
  BY <1>1, <1>4, SMT DEF FileInHand, PageKept, AnswersKept, PagePlaces
<1> QED
  BY <1>3, <1>5

LEMMA PagesKnownKept ==
    ASSUME PagesKnown, AnswersKept, ProgressKept, memory.page \in Nat, memory'.page \in Nat
    PROVE  PagesKnown'
<1>1. memory'.page >= 1 /\ Sound(memory'.page, answers', skipped')
  BY SMT DEF PagesKnown, AnswersKept, ProgressKept
<1>2. Gap(memory'.page, memory'.page, skipped')
  BY <1>1, SMT DEF Gap
<1>3. CASE saved' = {memory'}
  BY <1>1, <1>2, <1>3, Zenon DEF PagesKnown
<1>4. CASE saved' = saved
  BY <1>1, <1>4, SMT DEF PagesKnown, AnswersKept, ProgressKept
<1> QED
  BY <1>3, <1>4 DEF ProgressKept

\* A step that keeps all of them.
LEMMA AllKept ==
    ASSUME CollectionInv, SourcesTypes', ArticlesKept, AnswersKept, ProgressKept, overlap' = overlap,
           \A t \in Threads : HandKept(t)
    PROVE  CollectionInv'
<1>1. \A t \in Threads : pc'[t] # "off" => pc[t] # "off"
  BY DEF HandKept
<1>2. memory.page \in Nat /\ memory'.page \in Nat
  BY DataFields, Zenon DEF CollectionInv, SourcesTypes
<1>3. window = "closed" => UNCHANGED pc
  <2>1. pc \in [Threads -> Places] /\ pc' \in [Threads -> Places]
    BY DEF CollectionInv, SourcesTypes
  <2>2. window = "closed" => \A t \in Threads : pc'[t] = pc[t]
    BY <1>1, Zenon DEF CollectionInv, FileBehind
  <2> QED
    BY <2>1, <2>2, SMT
<1>4. OverlapKept
  BY DEF OverlapKept
<1>5. \A t \in Threads : TopicKept(t) /\ PageKept(t)
  BY DEF HandKept
<1> QED
  BY <1>1, <1>2, <1>3, <1>4, <1>5, AloneKept, FileKept, TopicsKept, DoneKept, PagesHandKept,
     PagesKnownKept, Zenon DEF CollectionInv, ProgressKept

\* What a thread does to its own place, loop and item.
LEMMA GotoType ==
    ASSUME NEW t \in Threads, NEW place, Goto(t, place), pc \in [Threads -> Places]
    PROVE  /\ pc'[t] = place /\ \A u \in Threads : u # t => pc'[u] = pc[u]
           /\ place \in Places => pc' \in [Threads -> Places]
  BY Zenon DEF Goto

LEMMA VisitType ==
    ASSUME NEW t \in Threads, NEW what, Visit(t, what), NEW S, rest \in [Threads -> S]
    PROVE  /\ rest'[t] = what /\ \A u \in Threads : u # t => rest'[u] = rest[u]
           /\ what \in S => rest' \in [Threads -> S]
  BY Zenon DEF Visit

LEMMA TakeType ==
    ASSUME NEW t \in Threads, NEW what, Take(t, what), NEW S, item \in [Threads -> S]
    PROVE  /\ item'[t] = what /\ \A u \in Threads : u # t => item'[u] = item[u]
           /\ what \in S => item' \in [Threads -> S]
  BY Zenon DEF Take

LEMMA IdleType ==
    ASSUME idle \in Seq({"busy", "finish"}), NEW x \in {"busy", "finish"}
    PROVE  Append(idle, x) \in Seq({"busy", "finish"})
  BY SMT

LEMMA PhaseType ==
    ASSUME SourcesTypes, NEW t \in Threads, NEW place \in Places, Phase(t, place)
    PROVE  /\ pc' \in [Threads -> Places] /\ pc'[t] \in {place, "off"}
           /\ \A u \in Threads : u # t => pc'[u] = pc[u]
           /\ idle' \in Seq({"busy", "finish"})
<1>1. pc \in [Threads -> Places] /\ "off" \in Places /\ idle \in Seq({"busy", "finish"})
  BY SMT DEF SourcesTypes, Places
<1>2. Goto(t, place) \/ Goto(t, "off")
  BY DEF Phase
<1>3. idle' = idle \/ idle' = Append(idle, "finish")
  BY Zenon DEF Phase
<1> QED
  BY <1>1, <1>2, <1>3, GotoType, IdleType, Zenon

\* A step of thread t that leaves what the progress speaks of alone: it keeps the types
\* when what it changes has its type, and lays down what it has in hand.
QuietTypes ==
    /\ pc' \in [Threads -> Places] /\ idle' \in Seq({"busy", "finish"})
    /\ window' \in {"open", "closing", "closed"} /\ running' \in BOOLEAN
    /\ rest' \in [Threads -> SUBSET (DocFolders \cup ManPages \cup Nat)]
    /\ item' \in [Threads -> Topics \cup Nat \cup {NoTopic}]
    /\ pool' \in [Threads -> [Books -> {"queued", "memory", "running", "done"}]]
    /\ folder' \in [DocFolders \cup Books -> {"none", "some", "marker"}]
    /\ manual' \subseteq ManPages
    /\ memory' \in Data /\ memory'.done = memory.done /\ memory'.page = memory.page
    /\ saved' = saved \/ saved' = {memory'}
    /\ UNCHANGED <<kind, article, answers, excused, skipped, starts>>

Quiet(t) ==
    /\ QuietTypes /\ UNCHANGED <<window, overlap, clicks>>
    /\ pc[t] # "off"
    /\ \A u \in Threads : u # t => pc'[u] = pc[u] /\ item'[u] = item[u] /\ rest'[u] = rest[u]
    /\ \/ pc'[t] \notin TopicPlaces \cup PagePlaces
       \/ HandKept(t)

LEMMA TypesKept ==
    ASSUME SourcesTypes, QuietTypes, overlap' \in BOOLEAN, clicks' \in 0 .. MaxClicks
    PROVE  SourcesTypes'
<1>1. saved' \subseteq Data
  BY Zenon DEF SourcesTypes, QuietTypes
<1>2. UNCHANGED <<kind, article, answers, excused, skipped, starts>>
  BY DEF QuietTypes
<1> QED
  BY <1>1, <1>2, Zenon DEF SourcesTypes, QuietTypes

LEMMA QuietKeepsInv == ASSUME CollectionInv, NEW t \in Threads, Quiet(t) PROVE CollectionInv'
<1>1. SourcesTypes'
  <2>1. SourcesTypes /\ QuietTypes /\ UNCHANGED <<overlap, clicks>>
    BY DEF CollectionInv, Quiet
  <2> QED
    BY <2>1, TypesKept, Zenon DEF SourcesTypes
<1>2. \A u \in Threads : HandKept(u)
  <2> SUFFICES ASSUME NEW u \in Threads PROVE HandKept(u)
    OBVIOUS
  <2>1. CASE u = t
    BY <2>1, SMT DEF Quiet, HandKept, TopicKept, PageKept, TopicPlaces, PagePlaces
  <2>2. CASE u # t
    BY <2>2, SMT DEF Quiet, HandKept, TopicKept, PageKept, TopicPlaces, PagePlaces
  <2> QED
    BY <2>1, <2>2
<1>3. ArticlesKept /\ AnswersKept /\ ProgressKept /\ overlap' = overlap
  BY Zenon DEF Quiet, QuietTypes, ArticlesKept, AnswersKept, ProgressKept
<1> QED
  BY <1>1, <1>2, <1>3, AllKept

\* What is there of the types that do not change.
LEMMA TypesNow ==
    ASSUME SourcesTypes
    PROVE  /\ window \in {"open", "closing", "closed"} /\ running \in BOOLEAN
           /\ idle \in Seq({"busy", "finish"})
           /\ pc \in [Threads -> Places]
           /\ rest \in [Threads -> SUBSET (DocFolders \cup ManPages \cup Nat)]
           /\ item \in [Threads -> Topics \cup Nat \cup {NoTopic}]
           /\ pool \in [Threads -> [Books -> {"queued", "memory", "running", "done"}]]
           /\ folder \in [DocFolders \cup Books -> {"none", "some", "marker"}]
           /\ manual \subseteq ManPages
           /\ memory \in Data
  BY Zenon DEF SourcesTypes

\* The names of places, and what is none of a hand.
LEMMA PlacesNamed ==
    /\ {"off", "docs", "man", "pages", "man_save", "wiki", "refill_save", "so", "books", "join",
        "dumps", "dumped", "wiki_save"} \subseteq Places \ (TopicPlaces \cup PagePlaces)
    /\ TopicPlaces \cup PagePlaces \subseteq Places \ {"off"}
  BY SMT DEF Places, TopicPlaces, PagePlaces

LEMMA LeftType ==
    ASSUME SourcesTypes, NEW d \in DocFolders \cup Books, NEW what \in Left(d), Fill(d, what)
    PROVE  folder' \in [DocFolders \cup Books -> {"none", "some", "marker"}]
<1>1. folder \in [DocFolders \cup Books -> {"none", "some", "marker"}] /\ kind[d] \in Kinds
  BY DEF SourcesTypes
<1>2. what \in {"none", "some", "marker"}
  BY <1>1, SMT DEF Left, Kinds
<1> QED
  BY <1>1, <1>2, Zenon DEF Fill

\* Phases 1 and 2, and 6 to 8.
LEMMA FoldersQuiet == ASSUME SourcesTypes, NEW t \in Threads, Folders(t) PROVE Quiet(t)
<1>1. /\ UNCHANGED <<window, running, data, item, kind, manual, article, answers, history>>
      /\ pc[t] = "docs" \/ pc[t] = "books" \/ pc[t] = "join" \/ pc[t] = "dumps" \/ pc[t] = "dumped"
  BY Zenon DEF Folders, SkipDoc, FetchDoc, DocsEnd, SubmitBooks, Joined, DumpsEnd, IndexEnds,
               gui, files
<1>2. /\ pc' \in [Threads -> Places] /\ idle' \in Seq({"busy", "finish"})
      /\ pc'[t] \in {"docs", "man", "join", "dumps", "dumped", "off"}
      /\ \A u \in Threads : u # t => pc'[u] = pc[u]
  <2>1. CASE DocsEnd(t)
    BY <2>1, PhaseType, PlacesNamed, SMT DEF DocsEnd
  <2>2. CASE Joined(t)
    BY <2>2, PhaseType, PlacesNamed, SMT DEF Joined
  <2>3. CASE SubmitBooks(t)
    BY <2>3, GotoType, TypesNow, PlacesNamed, SMT DEF SubmitBooks, gui
  <2>4. CASE DumpsEnd(t)
    BY <2>4, GotoType, IdleType, TypesNow, PlacesNamed, SMT DEF DumpsEnd
  <2>5. CASE IndexEnds(t)
    BY <2>5, GotoType, IdleType, TypesNow, PlacesNamed, SMT DEF IndexEnds
  <2>6. CASE \E d \in DocFolders : SkipDoc(t, d) \/ FetchDoc(t, d)
    BY <2>6, TypesNow, SMT DEF SkipDoc, FetchDoc, gui
  <2> QED
    BY <2>1, <2>2, <2>3, <2>4, <2>5, <2>6 DEF Folders
<1>3. /\ rest' \in [Threads -> SUBSET (DocFolders \cup ManPages \cup Nat)]
      /\ \A u \in Threads : u # t => rest'[u] = rest[u]
  <2>1. \/ rest' = rest
        \/ Visit(t, {}) \/ \E d \in DocFolders : Visit(t, rest[t] \ {d})
    BY Zenon DEF Folders, SkipDoc, FetchDoc, DocsEnd, SubmitBooks, Joined, DumpsEnd, IndexEnds
  <2>2. CASE rest' = rest
    BY <2>2, TypesNow
  <2>3. ASSUME NEW S \in SUBSET rest[t], Visit(t, S)
        PROVE  /\ rest' \in [Threads -> SUBSET (DocFolders \cup ManPages \cup Nat)]
               /\ \A u \in Threads : u # t => rest'[u] = rest[u]
    <3>1. S \in SUBSET (DocFolders \cup ManPages \cup Nat)
      BY TypesNow, Zenon
    <3> QED
      BY <2>3, <3>1, VisitType, TypesNow, Zenon
  <2>4. {} \in SUBSET rest[t] /\ \A d \in DocFolders : rest[t] \ {d} \in SUBSET rest[t]
    BY Zenon
  <2> QED
    BY <2>1, <2>2, <2>3, <2>4, Zenon
<1>4. pool' \in [Threads -> [Books -> {"queued", "memory", "running", "done"}]]
  <2>1. pool' = pool \/ pool' = [pool EXCEPT ![t] = [b \in Books |-> "queued"]]
    BY Zenon DEF Folders, SkipDoc, FetchDoc, DocsEnd, SubmitBooks, Joined, DumpsEnd, IndexEnds
  <2> QED
    BY <2>1, TypesNow, SMT
<1>5. folder' \in [DocFolders \cup Books -> {"none", "some", "marker"}]
  <2>1. folder' = folder \/ \E d \in DocFolders : \E what \in Left(d) : Fill(d, what)
    BY Zenon DEF Folders, SkipDoc, FetchDoc, DocsEnd, SubmitBooks, Joined, DumpsEnd, IndexEnds, files
  <2> QED
    BY <2>1, TypesNow, LeftType, Zenon
<1>6. QuietTypes
  BY <1>1, <1>2, <1>3, <1>4, <1>5, TypesNow, Zenon DEF QuietTypes, data, history
<1> QED
  BY <1>1, <1>2, <1>3, <1>6, PlacesNamed, SMT DEF Quiet, history

\* A step that lets every thread where it is.
LEMMA StillKeepsInv ==
    ASSUME CollectionInv, QuietTypes, UNCHANGED <<pc, rest, item, overlap, clicks>>,
           window' = "closed" <=> window = "closed"
    PROVE  CollectionInv'
<1>1. SourcesTypes'
  <2>1. SourcesTypes
    BY DEF CollectionInv
  <2> QED
    BY <2>1, TypesKept, Zenon DEF SourcesTypes
<1>2. \A u \in Threads : HandKept(u)
  BY SMT DEF HandKept, TopicKept, PageKept, TopicPlaces, PagePlaces
<1>3. ArticlesKept /\ AnswersKept /\ ProgressKept /\ overlap' = overlap
  BY Zenon DEF QuietTypes, ArticlesKept, AnswersKept, ProgressKept
<1> QED
  BY <1>1, <1>2, <1>3, AllKept

LEMMA PoolKeepsInv ==
    ASSUME CollectionInv, NEW t \in Threads, NEW b \in Books, Task(t, b)
    PROVE  CollectionInv'
<1>1. SourcesTypes
  BY DEF CollectionInv
<1>2. /\ UNCHANGED <<gui, data, pc, rest, item, kind, manual, article, answers, history>>
      /\ \E place \in {"memory", "running", "done"} : pool' = [pool EXCEPT ![t][b] = place]
      /\ folder' = folder \/ \E what \in Left(b) : Fill(b, what)
  BY SMT DEF Task, PoolTask, MemoryWaited, PoolTaskEnds, files
<1>3. pool' \in [Threads -> [Books -> {"queued", "memory", "running", "done"}]]
  BY <1>1, <1>2, TypesNow, SMT
<1>4. folder' \in [DocFolders \cup Books -> {"none", "some", "marker"}]
  BY <1>1, <1>2, LeftType, TypesNow, Zenon
<1>5. QuietTypes
  BY <1>1, <1>2, <1>3, <1>4, TypesNow, Zenon DEF QuietTypes, gui, data, history
<1> QED
  BY <1>2, <1>5, StillKeepsInv, Zenon DEF gui, history

\* The window and its callbacks
LEMMA WindowKeepsInv ==
    ASSUME CollectionInv, SaveFromWindow \/ Callback \/ Close
    PROVE  CollectionInv'
<1>1. SourcesTypes
  BY DEF CollectionInv
<1>2. /\ UNCHANGED <<memory, pc, rest, item, pool, kind, files, history>>
      /\ saved' = saved \/ saved' = {memory'}
      /\ window' = "closed" <=> window = "closed"
      /\ window' = window \/ window' = "closing"
      /\ running' = running \/ running' \in BOOLEAN
  <2>1. CASE SaveFromWindow
    BY <2>1, SMT DEF SaveFromWindow, Save, gui
  <2>2. CASE Callback
    BY <2>2, SMT DEF Callback, data
  <2>3. CASE Close
    <3>1. running' \in BOOLEAN /\ window' = "closing" /\ window = "open" /\ saved' = saved
      BY <2>3, Zenon DEF Close, data
    <3> QED
      BY <2>3, <3>1, SMT DEF Close, data
  <2> QED
    BY <2>1, <2>2, <2>3
<1>3. idle' = idle \/ (idle # << >> /\ idle' = Tail(idle))
  BY Zenon DEF SaveFromWindow, Callback, Close, gui
<1>4. idle' \in Seq({"busy", "finish"})
  BY <1>1, <1>3, TypesNow, SMT
<1>5. QuietTypes
  BY <1>1, <1>2, <1>4, TypesNow, Zenon DEF QuietTypes, files, history
<1> QED
  BY <1>2, <1>5, StillKeepsInv, Zenon DEF history

\* collect_manpages
LEMMA ManualQuiet == ASSUME SourcesTypes, NEW t \in Threads, Manual(t) PROVE Quiet(t)
<1>1. /\ UNCHANGED <<window, running, saved, item, pool, kind, folder, article, answers, history>>
      /\ pc[t] = "man" \/ pc[t] = "pages"
      /\ memory' = memory \/ memory' = [memory EXCEPT !.man = TRUE]
  BY Zenon DEF Manual, ListPages, ListingFails, ExportPage, SectionDone, gui, data, files
<1>2. /\ pc' \in [Threads -> Places] /\ idle' \in Seq({"busy", "finish"})
      /\ pc'[t] \in {"pages", "wiki", "man_save", "off"}
      /\ \A u \in Threads : u # t => pc'[u] = pc[u]
  <2>1. CASE Phase(t, "wiki")
    BY <2>1, PhaseType, PlacesNamed, SMT
  <2>2. CASE UNCHANGED idle /\ (Goto(t, "pages") \/ Goto(t, "man_save"))
    BY <2>2, GotoType, TypesNow, PlacesNamed, SMT
  <2>3. CASE UNCHANGED <<idle, pc>> /\ pc[t] = "pages"
    BY <2>3, TypesNow, SMT
  <2> QED
    BY <2>1, <2>2, <2>3, Zenon DEF Manual, ListPages, ListingFails, ExportPage, SectionDone, gui
<1>3. /\ rest' \in [Threads -> SUBSET (DocFolders \cup ManPages \cup Nat)]
      /\ \A u \in Threads : u # t => rest'[u] = rest[u]
  <2>1. \/ rest' = rest
        \/ Visit(t, {}) \/ Visit(t, ManPages) \/ \E p \in ManPages : Visit(t, rest[t] \ {p})
    BY Zenon DEF Manual, ListPages, ListingFails, ExportPage, SectionDone
  <2>2. CASE rest' = rest
    BY <2>2, TypesNow
  <2>3. ASSUME NEW S \in SUBSET (DocFolders \cup ManPages \cup Nat), Visit(t, S)
        PROVE  /\ rest' \in [Threads -> SUBSET (DocFolders \cup ManPages \cup Nat)]
               /\ \A u \in Threads : u # t => rest'[u] = rest[u]
    BY <2>3, VisitType, TypesNow, Zenon
  <2>4. /\ {} \in SUBSET (DocFolders \cup ManPages \cup Nat)
        /\ ManPages \in SUBSET (DocFolders \cup ManPages \cup Nat)
        /\ \A p \in ManPages : rest[t] \ {p} \in SUBSET (DocFolders \cup ManPages \cup Nat)
    BY TypesNow, Zenon
  <2> QED
    BY <2>1, <2>2, <2>3, <2>4, Zenon
<1>4. memory' \in Data /\ memory'.done = memory.done /\ memory'.page = memory.page
  BY <1>1, NewMan, TypesNow, Zenon
<1>5. manual' \subseteq ManPages
  <2>1. manual' = manual \/ \E p \in ManPages : manual' = manual \cup {p}
    BY Zenon DEF Manual, ListPages, ListingFails, ExportPage, SectionDone, files
  <2> QED
    BY <2>1, TypesNow, Zenon
<1>6. QuietTypes
  BY <1>1, <1>2, <1>3, <1>4, <1>5, TypesNow, Zenon DEF QuietTypes, history
<1> QED
  BY <1>1, <1>2, <1>3, <1>6, PlacesNamed, SMT DEF Quiet, history

\* Saves, and exceptions
LEMMA SavesQuiet ==
    ASSUME SourcesTypes, NEW t \in Threads, SaveProgress(t) \/ Raises(t)
    PROVE  Quiet(t)
<1>1. /\ UNCHANGED <<window, running, memory, rest, pool, kind, files, history>>
      /\ saved' = saved \/ saved' = {memory'}
      /\ \/ pc[t] = "man_save" \/ pc[t] = "wiki_save" \/ pc[t] = "refill_save" \/ pc[t] = "so_save"
         \/ pc[t] = "wiki"
  <2>1. CASE SaveProgress(t)
    BY <2>1, Zenon DEF SaveProgress, Saved, Save
  <2>2. CASE Raises(t)
    BY <2>2, SMT DEF Raises, gui, data
  <2> QED
    BY <2>1, <2>2
<1>2. /\ pc' \in [Threads -> Places] /\ idle' \in Seq({"busy", "finish"})
      /\ \/ pc'[t] \in {"wiki", "so", "off"}
         \/ pc'[t] = "so_page" /\ pc[t] = "so_save" /\ item' = item
      /\ \A u \in Threads : u # t => pc'[u] = pc[u]
  <2>1. CASE SaveProgress(t)
    <3>1. CASE Phase(t, "wiki") \/ Phase(t, "so")
      BY <3>1, PhaseType, PlacesNamed, SMT
    <3>2. CASE Goto(t, "wiki") /\ UNCHANGED idle
      BY <3>2, GotoType, TypesNow, PlacesNamed, SMT
    <3>3. CASE Goto(t, "so_page") /\ UNCHANGED <<idle, item>> /\ pc[t] = "so_save"
      <4>1. "so_page" \in Places
        BY Zenon DEF Places
      <4> QED
        BY <3>3, <4>1, GotoType, TypesNow, Zenon
    <3> QED
      BY <2>1, <3>1, <3>2, <3>3, Zenon DEF SaveProgress, Saved
  <2>2. CASE Raises(t)
    BY <2>2, GotoType, TypesNow, PlacesNamed, SMT DEF Raises, gui
  <2> QED
    BY <2>1, <2>2
<1>3. /\ item' \in [Threads -> Topics \cup Nat \cup {NoTopic}]
      /\ \A u \in Threads : u # t => item'[u] = item[u]
  <2>1. item' = item \/ Take(t, NoTopic)
    BY Zenon DEF SaveProgress, Raises
  <2> QED
    BY <2>1, TakeType, TypesNow, Zenon
<1>4. QuietTypes
  BY <1>1, <1>2, <1>3, TypesNow, Zenon DEF QuietTypes, files, history
<1> QED
  BY <1>1, <1>2, <1>3, <1>4, PlacesNamed, SMT
     DEF Quiet, HandKept, TopicKept, PageKept, TopicPlaces, PagePlaces, history

\* The queue of titles keeps its type.
LEMMA QueueType ==
    ASSUME SourcesTypes, Queue # << >>
    PROVE  Head(Queue) \in Topics /\ Tail(Cut(Queue)) \in Seq(Topics)
<1> DEFINE q == memory.queue
           n == IF Len(q) > WIKI_MAX_QUEUE THEN WIKI_MAX_QUEUE ELSE Len(q)
<1>1. q \in Seq(Topics) /\ q # << >>
  BY SMT DEF SourcesTypes, Data, Queue
<1>2. n \in 1 .. Len(q)
  BY <1>1, SourcesAssumption, SMT
<1>3. Cut(Queue) = SubSeq(q, 1, n)
  BY DEF Cut, Queue
<1> HIDE DEF n, q
<1>4. SubSeq(q, 1, n) \in Seq(Topics) /\ SubSeq(q, 1, n) # << >>
  BY <1>1, <1>2, SMT
<1>5. Head(q) \in Topics /\ Tail(SubSeq(q, 1, n)) \in Seq(Topics)
  BY <1>1, <1>4, SMT
<1> QED
  BY <1>3, <1>5 DEF Queue, q

\* The links of an article, one by one
LEMMA AddLinkQuiet ==
    ASSUME SourcesTypes, TopicsInHand, NEW t \in Threads, AddLink(t)
    PROVE  Quiet(t)
<1>1. PICK n \in rest[t] : /\ Visit(t, rest[t] \ {n}) /\ pc[t] = "links"
                           /\ \/ UNCHANGED memory
                              \/ memory' = [memory EXCEPT !.queue = Append(@, Links[item[t]][n])]
                           /\ UNCHANGED <<gui, saved, pc, item, pool, kind, files, history>>
  BY Zenon DEF AddLink
<1>2. Links[item[t]][n] \in Topics
  BY <1>1, SourcesAssumption, SMT DEF TopicsInHand, TopicInHand, TopicPlaces
<1>3. memory' \in Data /\ memory'.done = memory.done /\ memory'.page = memory.page
  <2>1. memory \in Data /\ memory.queue \in Seq(Topics)
    BY TypesNow, DataFields, Zenon
  <2>2. Append(memory.queue, Links[item[t]][n]) \in Seq(Topics)
    BY <1>2, <2>1, SMT
  <2>3. \/ memory' = memory
        \/ memory' = [memory EXCEPT !.queue = Append(memory.queue, Links[item[t]][n])]
    BY <1>1
  <2> QED
    BY <2>1, <2>2, <2>3, NewQueue, Zenon
<1>4. /\ rest' \in [Threads -> SUBSET (DocFolders \cup ManPages \cup Nat)]
      /\ rest'[t] \subseteq rest[t] /\ \A u \in Threads : u # t => rest'[u] = rest[u]
  <2>1. rest[t] \ {n} \in SUBSET (DocFolders \cup ManPages \cup Nat)
    BY TypesNow, Zenon
  <2> QED
    <3>1. Visit(t, rest[t] \ {n}) /\ rest \in [Threads -> SUBSET (DocFolders \cup ManPages \cup Nat)]
      BY <1>1, TypesNow
    <3>2. rest' \in [Threads -> SUBSET (DocFolders \cup ManPages \cup Nat)]
      BY <2>1, <3>1, VisitType, Zenon
    <3>3. rest'[t] = rest[t] \ {n} /\ \A u \in Threads : u # t => rest'[u] = rest[u]
      BY <3>1, VisitType, Zenon
    <3> QED
      BY <3>2, <3>3, SMT
<1>5. QuietTypes
  BY <1>1, <1>3, <1>4, TypesNow, Zenon DEF QuietTypes, gui, files, history
<1> QED
  BY <1>1, <1>4, <1>5, SMT DEF Quiet, HandKept, TopicKept, PageKept, TopicPlaces, PagePlaces, gui, history

\* The end of the walk
LEMMA WikiEndsQuiet ==
    ASSUME SourcesTypes, NEW t \in Threads, WikiEnds(t)
    PROVE  Quiet(t)
<1>1. /\ UNCHANGED <<window, running, saved, rest, item, pool, kind, files, history>>
      /\ pc[t] = "wiki"
      /\ memory' = memory \/ memory' = [memory EXCEPT !.queue = WikiTopics]
      /\ (Goto(t, "refill_save") /\ UNCHANGED idle) \/ Phase(t, "so")
  BY Zenon DEF WikiEnds
<1>2. memory' \in Data /\ memory'.done = memory.done /\ memory'.page = memory.page
  BY <1>1, NewQueue, TypesNow, SourcesAssumption, Zenon
<1>3. /\ pc' \in [Threads -> Places] /\ idle' \in Seq({"busy", "finish"})
      /\ pc'[t] \in {"refill_save", "so", "off"}
      /\ \A u \in Threads : u # t => pc'[u] = pc[u]
  BY <1>1, PhaseType, GotoType, TypesNow, PlacesNamed, SMT
<1>4. QuietTypes
  BY <1>1, <1>2, <1>3, TypesNow, Zenon DEF QuietTypes, files, history
<1> QED
  BY <1>1, <1>3, <1>4, PlacesNamed, SMT DEF Quiet, history

\* The tag is left.
LEMMA TagLeftQuiet ==
    ASSUME SourcesTypes, NEW t \in Threads, TagEnds(t) \/ NoPage(t) \/ PageFails(t)
    PROVE  Quiet(t)
<1>1. /\ UNCHANGED <<window, running, data, rest, pool, kind, files, history>>
      /\ pc[t] = "so_page" \/ pc[t] = "so_file"
      /\ Phase(t, "books") /\ Take(t, NoTopic)
  BY Zenon DEF TagEnds, NoPage, PageFails, LeaveTag, Asking
<1>2. /\ pc' \in [Threads -> Places] /\ idle' \in Seq({"busy", "finish"})
      /\ pc'[t] \in {"books", "off"}
      /\ \A u \in Threads : u # t => pc'[u] = pc[u]
  BY <1>1, PhaseType, PlacesNamed, SMT
<1>3. /\ item' \in [Threads -> Topics \cup Nat \cup {NoTopic}]
      /\ \A u \in Threads : u # t => item'[u] = item[u]
  BY <1>1, TakeType, TypesNow, Zenon
<1>4. QuietTypes
  BY <1>1, <1>2, <1>3, TypesNow, Zenon DEF QuietTypes, data, files, history
<1> QED
  BY <1>1, <1>2, <1>3, <1>4, PlacesNamed, SMT DEF Quiet, history

\* collect_stackoverflow, where a page or the progress changes. Nothing of the walk does.
PageSteps(t) == BeginTag(t) \/ EmptyPage(t) \/ WritePage(t) \/ PageWritten(t)

LEMMA PageStepsTypes ==
    ASSUME CollectionInv, NEW t \in Threads, PageSteps(t)
    PROVE  SourcesTypes'
<1>1. SourcesTypes /\ PagesKnown /\ PagesInHand
  BY DEF CollectionInv
<1>2. /\ UNCHANGED <<window, running, saved, rest, pool, kind, folder, manual, article, overlap,
                     excused, starts, clicks>>
      /\ pc[t] = "so" \/ pc[t] = "so_page" \/ pc[t] = "so_file"
  BY Zenon DEF PageSteps, BeginTag, EmptyPage, WritePage, PageWritten, Asking, gui, data, files, history
<1>3. pc[t] = "so_page" \/ pc[t] = "so_file" => item[t] \in Nat /\ item[t] + 1 \in Nat
  BY <1>1, SMT DEF PagesInHand, PageInHand, PagePlaces
<1>4. memory.page \in Nat
  BY <1>1, TypesNow, DataFields, Zenon
<1>5. \/ Take(t, memory.page) \/ UNCHANGED item \/ Take(t, NoTopic)
      \/ Take(t, item[t] + 1) /\ (pc[t] = "so_page" \/ pc[t] = "so_file")
  BY Zenon DEF PageSteps, BeginTag, EmptyPage, WritePage, PageWritten, Asking, Count, LeaveTag
<1>6. item' \in [Threads -> Topics \cup Nat \cup {NoTopic}]
  BY <1>1, <1>3, <1>4, <1>5, TakeType, TypesNow, Zenon
<1>7. \/ Goto(t, "so_page") /\ UNCHANGED idle
      \/ Goto(t, "so_file") /\ UNCHANGED idle
      \/ Goto(t, "so_save") /\ UNCHANGED idle
      \/ Phase(t, "books")
  BY Zenon DEF PageSteps, BeginTag, EmptyPage, WritePage, PageWritten, Count, LeaveTag, gui
<1>8. pc' \in [Threads -> Places] /\ idle' \in Seq({"busy", "finish"})
  <2>1. {"so_page", "so_file", "so_save", "books"} \subseteq Places
    BY SMT DEF Places
  <2> QED
    BY <1>1, <1>7, <2>1, PhaseType, GotoType, TypesNow, Zenon
<1>9. memory' \in Data
  <2>1. \/ UNCHANGED memory
        \/ memory' = [memory EXCEPT !.page = item[t] + 1] /\ (pc[t] = "so_page" \/ pc[t] = "so_file")
    BY Zenon DEF PageSteps, BeginTag, EmptyPage, WritePage, PageWritten, Asking, Count, data
  <2> QED
    BY <1>1, <1>3, <2>1, NewPage, TypesNow, Zenon
<1>10. answers' \in [1 .. SO_MAX_PAGES -> Parts]
  <2>1. answers \in [1 .. SO_MAX_PAGES -> Parts]
    BY <1>1 DEF SourcesTypes
  <2>2. UNCHANGED answers \/ \E what \in Parts : answers' = [answers EXCEPT ![item[t]] = what]
    <3>1. CASE WritePage(t)
      <4>1. Opened(t, "so_file", item[t]) \in Parts
        BY SMT DEF Opened, Parts
      <4> QED
        BY <3>1, <4>1, Zenon DEF WritePage
    <3>2. CASE PageWritten(t)
      <4>1. item[t] \in 1 .. SO_MAX_PAGES
        BY <1>1, <3>2, SMT DEF PageWritten, PagesInHand, PageInHand, FileInHand, PagePlaces
      <4>2. Closed(answers[item[t]]) \in Parts
        BY <2>1, <4>1, SMT DEF Closed, Parts
      <4> QED
        BY <3>2, <4>2, Zenon DEF PageWritten
    <3> QED
      BY <3>1, <3>2, Zenon DEF PageSteps, BeginTag, EmptyPage, files
  <2> QED
    BY <2>1, <2>2, Zenon
<1>11. skipped' \subseteq 1 .. SO_MAX_PAGES
  <2>1. UNCHANGED skipped \/ (skipped' \subseteq skipped \cup {item[t]} /\ Asking(t))
    BY SMT DEF PageSteps, BeginTag, EmptyPage, WritePage, PageWritten, history
  <2>2. Asking(t) => item[t] \in 1 .. SO_MAX_PAGES
    BY <1>1, SMT DEF Asking, PagesInHand, PageInHand, PagePlaces
  <2>3. skipped \subseteq 1 .. SO_MAX_PAGES
    BY <1>1 DEF SourcesTypes
  <2> QED
    BY <2>1, <2>2, <2>3, Zenon
<1> QED
  BY <1>1, <1>2, <1>6, <1>8, <1>9, <1>10, <1>11, Zenon DEF SourcesTypes

LEMMA PageStepsRest ==
    ASSUME CollectionInv, NEW t \in Threads, PageSteps(t)
    PROVE  Alone' /\ FileBehind' /\ TopicsInHand' /\ DoneHaveArticles'
<1>1. SourcesTypes /\ Alone /\ FileBehind /\ TopicsInHand /\ DoneHaveArticles
  BY DEF CollectionInv
<1>2. UNCHANGED <<window, saved, article, excused, overlap, rest>> /\ pc[t] # "off"
  BY Zenon DEF PageSteps, BeginTag, EmptyPage, WritePage, PageWritten, Asking, data, files, gui, history
<1>3. memory'.done = memory.done
  <2>1. \/ UNCHANGED memory
        \/ memory' = [memory EXCEPT !.page = item[t] + 1]
    BY Zenon DEF PageSteps, BeginTag, EmptyPage, WritePage, PageWritten, Count, data
  <2> QED
    BY <1>1, <2>1, NewPage, TypesNow, Zenon
<1>4. /\ pc'[t] \in {"so_page", "so_file", "so_save", "books", "off"}
      /\ \A u \in Threads : u # t => pc'[u] = pc[u]
  <2>1. Goto(t, "so_page") \/ Goto(t, "so_file") \/ Goto(t, "so_save") \/ Phase(t, "books")
    BY Zenon DEF PageSteps, BeginTag, EmptyPage, WritePage, PageWritten, Count, LeaveTag
  <2>2. pc \in [Threads -> Places] /\ "books" \in Places
    BY <1>1, PlacesNamed, SMT DEF SourcesTypes
  <2> QED
    BY <1>1, <2>1, <2>2, PhaseType, GotoType, SMT
<1>5. \A u \in Threads : u # t => item'[u] = item[u]
  <2>1. UNCHANGED item \/ \E n : Take(t, n)
    BY Zenon DEF PageSteps, BeginTag, EmptyPage, WritePage, PageWritten, Count, LeaveTag
  <2> QED
    BY <1>1, <2>1, TakeType, TypesNow, Zenon
<1>6. Alone'
  BY <1>1, <1>2, <1>4, AloneKept, Zenon
<1>7. FileBehind'
  <2>1. window # "closed"
    BY <1>1, <1>2, Zenon DEF FileBehind
  <2> QED
    BY <1>1, <1>2, <1>3, <2>1, SMT DEF FileBehind
<1>8. TopicsInHand'
  <2>1. \A u \in Threads : TopicKept(u)
    BY <1>2, <1>4, <1>5, SMT DEF TopicKept, TopicPlaces
  <2> QED
    BY <1>1, <1>2, <1>3, <2>1, TopicsKept DEF OverlapKept, ArticlesKept
<1>9. DoneHaveArticles'
  BY <1>1, <1>2, <1>3, SMT DEF DoneHaveArticles, Datas
<1> QED
  BY <1>6, <1>7, <1>8, <1>9

LEMMA BeginTagKeepsInv ==
    ASSUME CollectionInv, NEW t \in Threads, BeginTag(t)
    PROVE  PagesInHand' /\ PagesKnown'
<1>1. SourcesTypes /\ PagesInHand /\ PagesKnown
  BY DEF CollectionInv
<1>2. UNCHANGED <<window, memory, saved, answers, skipped, overlap>> /\ pc[t] = "so"
  BY Zenon DEF BeginTag, gui, data, files, history
<1>3. memory.page \in Nat \ {0}
  BY <1>1, TypesNow, DataFields, SMT DEF PagesKnown
<1>4. /\ pc'[t] = "so_page" /\ item'[t] = memory.page
      /\ \A u \in Threads : u # t => pc'[u] = pc[u] /\ item'[u] = item[u]
  BY <1>1, TypesNow, GotoType, TakeType, Zenon DEF BeginTag
<1>5. PagesKnown'
  BY <1>1, <1>2, Zenon DEF PagesKnown
<1>6. ASSUME NEW u \in Threads
      PROVE  PageInHand(u)' /\ FileInHand(u)'
  <2>1. CASE u = t
    <3>1. Gap(memory.page, memory.page, skipped) /\ Gap(memory.page + 1, memory.page, skipped)
      BY <1>3, SMT DEF Gap
    <3>2. PageInHand(t)'
      BY <1>1, <1>2, <1>3, <1>4, <3>1, Zenon DEF PageInHand, PagesKnown
    <3>3. FileInHand(t)'
      BY <1>4, SMT DEF FileInHand
    <3> QED
      BY <2>1, <3>2, <3>3
  <2>2. CASE u # t
    <3>1. PageInHand(u) /\ FileInHand(u)
      BY <1>1 DEF PagesInHand
    <3>2. PageInHand(u)'
      BY <1>2, <1>4, <2>2, <3>1, SMT DEF PageInHand
    <3>3. pc[u] = "so_file" => item[u] \in Nat
      BY <3>1, SMT DEF PageInHand, PagePlaces
    <3>4. pc[u] = "so_file" /\ memory.page < item[u] => item[u] \in skipped
      BY <1>3, <3>1, <3>3, SMT DEF FileInHand
    <3>5. FileInHand(u)'
      BY <1>2, <1>4, <2>2, <3>1, <3>4, SMT DEF FileInHand
    <3> QED
      BY <3>2, <3>5
  <2> QED
    BY <2>1, <2>2
<1> QED
  BY <1>5, <1>6 DEF PagesInHand

\* A page is opened: it is skipped, or the one thread's and that of the progress.
LEMMA WritePageKeepsInv ==
    ASSUME CollectionInv, NEW t \in Threads, WritePage(t)
    PROVE  PagesInHand' /\ PagesKnown'
<1> DEFINE k == item[t]
<1>1. SourcesTypes /\ Alone /\ FileBehind /\ PagesInHand /\ PagesKnown
  BY DEF CollectionInv
<1>2. UNCHANGED <<window, memory, saved, item, overlap>> /\ pc[t] = "so_page" /\ k <= SO_MAX_PAGES
  BY Zenon DEF WritePage, Asking, gui, data
<1>3. PageInHand(t) /\ k \in 1 .. SO_MAX_PAGES
  BY <1>1, <1>2, SMT DEF PagesInHand, PageInHand, PagePlaces
<1>4. memory.page \in Nat /\ \A d \in saved : d.page \in Nat
  BY <1>1, DataFields, Zenon DEF SourcesTypes
<1>5. /\ pc'[t] = "so_file"
      /\ \A u \in Threads : u # t => pc'[u] = pc[u]
  BY <1>1, TypesNow, GotoType, Zenon DEF WritePage
<1>6. \A u \in Threads : u # t /\ pc[u] \in PagePlaces => overlap
  BY <1>1, <1>2, SMT DEF Alone, PagePlaces
<1>7. skipped \subseteq skipped' /\ (overlap => k \in skipped')
  BY SMT DEF WritePage
<1>8. /\ answers'[k] = "part" \/ overlap
      /\ \A n \in 1 .. SO_MAX_PAGES : n # k => answers'[n] = answers[n]
  <2>1. answers \in [1 .. SO_MAX_PAGES -> Parts]
    BY <1>1 DEF SourcesTypes
  <2>2. answers' = [answers EXCEPT ![k] = Opened(t, "so_file", k)]
    BY DEF WritePage
  <2>3. Opened(t, "so_file", k) = "part" \/ overlap
    BY <1>6, SMT DEF Opened, PagePlaces
  <2> HIDE DEF k
  <2> QED
    BY <1>3, <2>1, <2>2, <2>3, Zenon
<1>9. ASSUME NEW n \in Nat, Sound(n, answers, skipped), n <= k \/ k \in skipped'
      PROVE  Sound(n, answers', skipped')
  BY <1>3, <1>7, <1>8, <1>9, SMT DEF Sound
<1>10. \A lo, hi \in Nat : Gap(lo, hi, skipped) => Gap(lo, hi, skipped')
  BY <1>7, SMT DEF Gap
<1>11. ~ overlap => k = memory.page
  BY <1>2, <1>3, SMT DEF PageInHand, PagePlaces
<1>12. PagesKnown'
  <2>1. Sound(memory.page, answers', skipped')
    BY <1>1, <1>3, <1>4, <1>7, <1>9, <1>11, SMT DEF PagesKnown
  <2>2. ASSUME NEW d \in saved PROVE Sound(d.page, answers', skipped')
    <3>1. window # "closed"
      BY <1>1, <1>2, Zenon DEF FileBehind
    <3>2. d.page <= k \/ k \in skipped'
      BY <1>1, <1>3, <1>4, <1>7, <1>11, <3>1, SMT DEF PagesKnown, Gap
    <3> QED
      BY <1>1, <1>4, <1>9, <3>2 DEF PagesKnown
  <2>3. \A d \in saved : window # "closed" => Gap(memory.page, d.page, skipped')
    BY <1>1, <1>4, <1>10, Zenon DEF PagesKnown
  <2> QED
    BY <1>1, <1>2, <2>1, <2>2, <2>3, Zenon DEF PagesKnown
<1>13. ASSUME NEW u \in Threads
       PROVE  PageInHand(u)' /\ FileInHand(u)'
  <2>1. CASE u = t
    <3>1. k \in Nat /\ k + 1 \in Nat
      BY <1>3, SMT
    <3>2. PageInHand(t)'
      <4>1. Sound(k, answers', skipped')
        BY <1>2, <1>3, <1>9, <3>1, SMT DEF PageInHand, PagePlaces
      <4>2. Gap(memory.page, k, skipped') /\ Gap(k + 1, memory.page, skipped')
        BY <1>2, <1>3, <1>4, <1>10, <3>1, SMT DEF PageInHand, PagePlaces
      <4> QED
        BY <1>2, <1>3, <1>11, <4>1, <4>2, SMT DEF PageInHand
    <3>3. FileInHand(t)'
      <4>1. k <= memory.page \/ k \in skipped'
        BY <1>3, <1>4, <1>7, <1>11, SMT
      <4>2. \A v \in Threads : pc'[v] \in PagePlaces /\ item[v] < k => k \in skipped'
        <5> SUFFICES ASSUME NEW v \in Threads, pc'[v] \in PagePlaces, item[v] < k PROVE k \in skipped'
          OBVIOUS
        <5>1. v # t
          BY <3>1, SMT
        <5> QED
          BY <1>5, <1>6, <1>7, <5>1, Zenon
      <4>3. answers'[k] \in {"part", "whole"} \/ k \in skipped'
        BY <1>7, <1>8, Zenon
      <4> QED
        BY <1>2, <4>1, <4>2, <4>3, Zenon DEF FileInHand
    <3> QED
      BY <2>1, <3>2, <3>3
  <2>2. CASE u # t
    <3>1. PageInHand(u) /\ FileInHand(u)
      BY <1>1 DEF PagesInHand
    <3>2. PageInHand(u)'
      <4> SUFFICES ASSUME pc[u] \in PagePlaces PROVE PageInHand(u)'
        BY <1>5, <2>2, SMT DEF PageInHand
      <4>1. k \in skipped' /\ overlap
        BY <1>6, <1>7, <2>2
      <4>2. /\ item[u] \in Nat \ {0} /\ item[u] \in Nat /\ item[u] + 1 \in Nat
            /\ Sound(item[u], answers, skipped)
            /\ Gap(memory.page, item[u], skipped) /\ Gap(item[u] + 1, memory.page, skipped)
        BY <3>1, SMT DEF PageInHand
      <4>3. /\ Sound(item[u], answers', skipped')
            /\ Gap(memory.page, item[u], skipped') /\ Gap(item[u] + 1, memory.page, skipped')
        BY <1>4, <1>9, <1>10, <4>1, <4>2, Zenon
      <4> QED
        BY <1>2, <4>1, <4>2, <4>3, Zenon DEF PageInHand
    <3>3. FileInHand(u)'
      <4> SUFFICES ASSUME pc[u] = "so_file" PROVE FileInHand(u)'
        BY <1>5, <2>2, SMT DEF FileInHand
      <4>1. k \in skipped' /\ overlap
        BY <1>6, <1>7, <2>2, SMT DEF PagePlaces
      <4>2. item[u] \in 1 .. SO_MAX_PAGES
        BY <3>1, SourcesAssumption, SMT DEF PageInHand, FileInHand, PagePlaces
      <4>3. answers'[item[u]] \in {"part", "whole"} \/ item[u] \in skipped'
        BY <1>7, <1>8, <3>1, <4>1, <4>2, SMT DEF FileInHand
      <4>4. \A v \in Threads : pc'[v] \in PagePlaces => pc[v] \in PagePlaces
        BY <1>2, <1>5, SMT DEF PagePlaces
      <4> QED
        BY <1>2, <1>7, <3>1, <4>3, <4>4, SMT DEF FileInHand
    <3> QED
      BY <3>2, <3>3
  <2> QED
    BY <2>1, <2>2
<1> QED
  BY <1>12, <1>13 DEF PagesInHand

\* What closing a page, or skipping it, does to the others: nothing.
AnswersBetter ==
    /\ \A n \in Nat : Sound(n, answers, skipped) => Sound(n, answers', skipped')
    /\ skipped \subseteq skipped'
    /\ \A i \in 1 .. SO_MAX_PAGES :
          answers[i] \in {"part", "whole"} \/ i \in skipped =>
              answers'[i] \in {"part", "whole"} \/ i \in skipped'

\* The page in hand is counted.
LEMMA CountKeepsInv ==
    ASSUME CollectionInv, NEW t \in Threads, AnswersBetter, Count(t),
           UNCHANGED <<window, saved, overlap>>,
           pc[t] = "so_file" \/ (pc[t] = "so_page" /\ item[t] <= SO_MAX_PAGES /\ item[t] \in skipped'),
           answers'[item[t]] = "whole" \/ item[t] \in skipped'
    PROVE  PagesInHand' /\ PagesKnown'
<1> DEFINE k == item[t]
<1>1. SourcesTypes /\ Alone /\ PagesInHand /\ PagesKnown
  BY DEF CollectionInv
<1>2. PageInHand(t) /\ FileInHand(t) /\ pc[t] \in PagePlaces
  BY <1>1, SMT DEF PagesInHand, PagePlaces
<1>3. k \in 1 .. SO_MAX_PAGES /\ k + 1 \in Nat /\ k \in Nat
  BY <1>2, SourcesAssumption, SMT DEF PageInHand, FileInHand
<1>4. memory.page \in Nat /\ \A d \in saved : d.page \in Nat
  BY <1>1, DataFields, Zenon DEF SourcesTypes
<1>5. memory'.page = k + 1
  BY <1>1, <1>3, TypesNow, NewPage, Zenon DEF Count
<1>6. /\ pc'[t] = "so_save" /\ item'[t] = k + 1
      /\ \A u \in Threads : u # t => pc'[u] = pc[u] /\ item'[u] = item[u]
  BY <1>1, TypesNow, GotoType, TakeType, Zenon DEF Count
<1>7. Sound(k + 1, answers', skipped')
  <2>1. Sound(k, answers', skipped')
    BY <1>2, <1>3 DEF PageInHand, AnswersBetter
  <2> QED
    BY <1>3, <2>1, SMT DEF Sound
\* Between the new progress and any page ahead of the old one
<1>8. ASSUME NEW n \in Nat, Gap(memory.page, n, skipped)
      PROVE  Gap(k + 1, n, skipped')
  <2>1. Gap(k + 1, memory.page, skipped)
    BY <1>2 DEF PageInHand
  <2> QED
    BY <1>3, <1>4, <1>8, <2>1, SMT DEF Gap, AnswersBetter
<1>9. PagesKnown'
  <2>1. \A d \in saved : Sound(d.page, answers', skipped')
    BY <1>1, <1>4, Zenon DEF PagesKnown, AnswersBetter
  <2>2. \A d \in saved : window # "closed" => Gap(k + 1, d.page, skipped')
    BY <1>1, <1>4, <1>8, Zenon DEF PagesKnown
  <2>3. k + 1 >= 1
    BY <1>3, SMT
  <2> QED
    BY <1>1, <1>5, <1>7, <2>1, <2>2, <2>3, Zenon DEF PagesKnown
<1>10. ASSUME NEW u \in Threads
       PROVE  PageInHand(u)' /\ FileInHand(u)'
  <2>1. CASE u = t
    <3>1. Gap(k + 1, k + 1, skipped') /\ Gap(k + 1 + 1, k + 1, skipped')
      BY <1>3, SMT DEF Gap
    <3>2. k + 1 \in Nat \ {0}
      BY <1>3, SMT
    <3>3. PageInHand(t)'
      BY <1>5, <1>6, <1>7, <3>1, <3>2, Zenon DEF PageInHand
    <3>4. FileInHand(t)'
      BY <1>6, SMT DEF FileInHand
    <3> QED
      BY <2>1, <3>3, <3>4
  <2>2. CASE u # t
    <3>1. PageInHand(u) /\ FileInHand(u)
      BY <1>1 DEF PagesInHand
    <3>2. PageInHand(u)'
      <4> SUFFICES ASSUME pc[u] \in PagePlaces PROVE PageInHand(u)'
        BY <1>6, <2>2, SMT DEF PageInHand
      <4>1. overlap
        BY <1>1, <1>2, <2>2, SMT DEF Alone, PagePlaces
      <4>2. /\ item[u] \in Nat \ {0} /\ item[u] \in Nat
            /\ Sound(item[u], answers, skipped)
            /\ Gap(memory.page, item[u], skipped) /\ Gap(item[u] + 1, memory.page, skipped)
        BY <3>1, SMT DEF PageInHand
      <4>3. Sound(item[u], answers', skipped') /\ Gap(k + 1, item[u], skipped')
        BY <1>8, <4>2, Zenon DEF AnswersBetter
      <4>4. Gap(item[u] + 1, k + 1, skipped')
        <5> SUFFICES ASSUME NEW i \in 1 .. SO_MAX_PAGES, item[u] + 1 <= i, i < k + 1
                     PROVE  i \in skipped'
          BY DEF Gap
        <5>1. CASE i < memory.page
          BY <4>2, <5>1, SMT DEF Gap, AnswersBetter
        <5>2. CASE ~ (i < memory.page) /\ i < k
          BY <1>2, <1>3, <1>4, <5>2, SMT DEF PageInHand, Gap, AnswersBetter
        <5>3. CASE i = k
          BY <1>2, <4>2, <5>3, SMT DEF FileInHand, AnswersBetter
        <5> QED
          BY <1>3, <5>1, <5>2, <5>3, SMT
      <4> QED
        BY <1>5, <1>6, <2>2, <4>1, <4>2, <4>3, <4>4, Zenon DEF PageInHand
    <3>3. FileInHand(u)'
      <4> SUFFICES ASSUME pc[u] = "so_file" PROVE FileInHand(u)'
        BY <1>6, <2>2, SMT DEF FileInHand
      <4>1. item[u] \in 1 .. SO_MAX_PAGES
        BY <3>1, SourcesAssumption, SMT DEF PageInHand, FileInHand, PagePlaces
      <4>2. answers'[item[u]] \in {"part", "whole"} \/ item[u] \in skipped'
        BY <3>1, <4>1, SMT DEF FileInHand, AnswersBetter
      <4>3. k < item[u] => item[u] \in skipped'
        BY <1>2, <3>1, SMT DEF FileInHand, AnswersBetter
      <4>4. item[u] <= k + 1 \/ item[u] \in skipped'
        BY <1>3, <4>1, <4>3, SMT
      <4>5. ASSUME NEW v \in Threads, pc'[v] \in PagePlaces, item'[v] < item[u]
            PROVE  item[u] \in skipped'
        <5>1. CASE v = t
          BY <1>3, <1>6, <4>1, <4>3, <4>5, <5>1, SMT
        <5>2. CASE v # t
          BY <1>6, <3>1, <4>5, <5>2, SMT DEF FileInHand, AnswersBetter
        <5> QED
          BY <5>1, <5>2
      <4>6. item[u] <= SO_MAX_PAGES
        BY <3>1 DEF FileInHand
      <4> QED
        BY <1>5, <1>6, <2>2, <4>2, <4>4, <4>5, <4>6, Zenon DEF FileInHand
    <3> QED
      BY <3>2, <3>3
  <2> QED
    BY <2>1, <2>2
<1> QED
  BY <1>9, <1>10 DEF PagesInHand

LEMMA EmptyPageKeepsInv ==
    ASSUME CollectionInv, NEW t \in Threads, EmptyPage(t)
    PROVE  PagesInHand' /\ PagesKnown'
<1>1. /\ UNCHANGED <<window, saved, answers, overlap>> /\ skipped' = skipped \cup {item[t]}
      /\ pc[t] = "so_page" /\ item[t] <= SO_MAX_PAGES /\ Count(t)
  BY Zenon DEF EmptyPage, Asking, files
<1>2. AnswersBetter
  BY <1>1, SMT DEF AnswersBetter, Sound
<1> QED
  BY <1>1, <1>2, CountKeepsInv, Zenon

LEMMA PageWrittenKeepsInv ==
    ASSUME CollectionInv, NEW t \in Threads, PageWritten(t)
    PROVE  PagesInHand' /\ PagesKnown'
<1> DEFINE k == item[t]
<1>1. SourcesTypes /\ PagesInHand /\ PagesKnown
  BY DEF CollectionInv
<1>2. /\ UNCHANGED <<window, saved, skipped, overlap>> /\ pc[t] = "so_file"
      /\ answers' = [answers EXCEPT ![k] = Closed(@)]
      /\ Count(t) \/ (LeaveTag(t) /\ UNCHANGED memory)
  BY Zenon DEF PageWritten, history
<1>3. PageInHand(t) /\ FileInHand(t) /\ k \in 1 .. SO_MAX_PAGES
  BY <1>1, <1>2, SMT DEF PagesInHand, PageInHand, FileInHand, PagePlaces
<1>4. /\ answers'[k] = Closed(answers[k])
      /\ \A n \in 1 .. SO_MAX_PAGES : n # k => answers'[n] = answers[n]
  <2>1. answers \in [1 .. SO_MAX_PAGES -> Parts]
    BY <1>1 DEF SourcesTypes
  <2>2. answers' = [answers EXCEPT ![k] = Closed(answers[k])]
    BY <1>2
  <2> HIDE DEF k
  <2> QED
    BY <1>3, <2>1, <2>2, Zenon
<1>5. /\ answers[k] \in {"part", "whole"} => answers'[k] = "whole"
  BY <1>4, SMT DEF Closed
<1>6. answers'[k] = "whole" \/ k \in skipped'
  BY <1>2, <1>3, <1>5, SMT DEF FileInHand
<1>7. AnswersBetter
  <2>1. \A i \in 1 .. SO_MAX_PAGES :
            answers[i] = "whole" \/ i \in skipped => answers'[i] = "whole" \/ i \in skipped'
    BY <1>2, <1>4, <1>5, SMT
  <2>2. \A i \in 1 .. SO_MAX_PAGES :
            answers[i] \in {"part", "whole"} \/ i \in skipped =>
                answers'[i] \in {"part", "whole"} \/ i \in skipped'
    BY <1>2, <1>4, <1>5, SMT
  <2> QED
    BY <1>2, <2>1, <2>2, SMT DEF AnswersBetter, Sound
<1>8. CASE Count(t)
  BY <1>2, <1>6, <1>7, <1>8, CountKeepsInv, Zenon
<1>9. CASE LeaveTag(t) /\ UNCHANGED memory
  <2>1. /\ pc'[t] \in {"books", "off"}
        /\ \A u \in Threads : u # t => pc'[u] = pc[u] /\ item'[u] = item[u]
    <3>1. Phase(t, "books") /\ Take(t, NoTopic)
      BY <1>9 DEF LeaveTag
    <3> QED
      <4>1. \A u \in Threads : u # t => item'[u] = item[u]
        BY <1>1, <3>1, TakeType, TypesNow, Zenon
      <4>2. "books" \in Places
        BY PlacesNamed, SMT
      <4>3. pc'[t] \in {"books", "off"} /\ \A u \in Threads : u # t => pc'[u] = pc[u]
        BY <1>1, <3>1, <4>2, PhaseType, Zenon
      <4> QED
        BY <4>1, <4>3
  <2>2. memory.page \in Nat /\ \A d \in saved : d.page \in Nat
    BY <1>1, DataFields, Zenon DEF SourcesTypes
  <2>3. PagesKnown'
    <3>1. \A n \in Nat : Sound(n, answers, skipped) => Sound(n, answers', skipped)
      BY <1>2, <1>7, Zenon DEF AnswersBetter
    <3> QED
      BY <1>1, <1>2, <1>9, <2>2, <3>1, Zenon DEF PagesKnown
  <2>4. ASSUME NEW u \in Threads
        PROVE  PageInHand(u)' /\ FileInHand(u)'
    <3>1. CASE u = t
      BY <2>1, <3>1, SMT DEF PageInHand, FileInHand, PagePlaces
    <3>2. CASE u # t
      <4>1. PageInHand(u) /\ FileInHand(u)
        BY <1>1 DEF PagesInHand
      <4>2. pc[u] \in PagePlaces => item[u] \in Nat
        BY <4>1, SMT DEF PageInHand
      <4>3. PageInHand(u)'
        <5>1. \A n \in Nat : Sound(n, answers, skipped) => Sound(n, answers', skipped)
          BY <1>2, <1>7, Zenon DEF AnswersBetter
        <5> QED
          BY <1>2, <1>9, <2>1, <3>2, <4>1, <4>2, <5>1, Zenon DEF PageInHand
      <4>4. \A v \in Threads : pc'[v] \in PagePlaces => pc[v] \in PagePlaces /\ item'[v] = item[v]
        BY <2>1, SMT DEF PagePlaces
      <4>5. pc[u] = "so_file" => item[u] \in 1 .. SO_MAX_PAGES
        BY <4>1, SourcesAssumption, SMT DEF PageInHand, FileInHand, PagePlaces
      <4>6. FileInHand(u)'
        BY <1>2, <1>7, <1>9, <2>1, <3>2, <4>1, <4>4, <4>5, SMT DEF FileInHand, AnswersBetter
      <4> QED
        BY <4>3, <4>6
    <3> QED
      BY <3>1, <3>2
  <2> QED
    BY <2>3, <2>4 DEF PagesInHand
<1> QED
  BY <1>2, <1>8, <1>9

LEMMA PagesKeepInv ==
    ASSUME CollectionInv, NEW t \in Threads, PageSteps(t)
    PROVE  CollectionInv'
<1>1. PagesInHand' /\ PagesKnown'
  BY BeginTagKeepsInv, EmptyPageKeepsInv, WritePageKeepsInv, PageWrittenKeepsInv DEF PageSteps
<1> QED
  BY <1>1, PageStepsTypes, PageStepsRest DEF CollectionInv

\* collect_wikipedia, where an article or what is done changes. Nothing of the pages does.
WalkSteps(t) ==
    \/ PassOver(t) \/ TakeTopic(t) \/ NoArticle(t) \/ WriteArticle(t) \/ ArticleWritten(t)
    \/ ArticleFails(t) \/ TopicDone(t)

LEMMA WalkShape ==
    ASSUME CollectionInv, NEW t \in Threads, WalkSteps(t)
    PROVE  /\ UNCHANGED <<window, running, idle, saved, pool, kind, folder, manual, answers, overlap,
                          skipped, starts, clicks>>
           /\ pc[t] \in {"wiki", "topic", "article", "links"} /\ window # "closed"
           /\ pc' \in [Threads -> Places] /\ pc'[t] \in {"wiki", "topic", "article", "links", "wiki_save"}
           /\ \A u \in Threads : u # t => pc'[u] = pc[u] /\ item'[u] = item[u] /\ rest'[u] = rest[u]
           /\ item' \in [Threads -> Topics \cup Nat \cup {NoTopic}]
           /\ rest' \in [Threads -> SUBSET (DocFolders \cup ManPages \cup Nat)]
           /\ memory' \in Data /\ memory'.page = memory.page /\ memory.done \subseteq memory'.done
           /\ excused \subseteq excused'
<1>1. SourcesTypes /\ TopicsInHand /\ FileBehind
  BY DEF CollectionInv
<1>2. /\ UNCHANGED <<window, running, idle, saved, pool, kind, folder, manual, answers, overlap,
                     skipped, starts, clicks>>
      /\ pc[t] = "wiki" \/ pc[t] = "topic" \/ pc[t] = "article" \/ pc[t] = "links"
  BY Zenon DEF WalkSteps, PassOver, TakeTopic, NoArticle, WriteArticle, ArticleWritten, ArticleFails,
               TopicDone, Collecting, gui, data, files, history
<1>3. /\ pc' \in [Threads -> Places] /\ pc'[t] \in {"wiki", "topic", "article", "links", "wiki_save"}
      /\ \A u \in Threads : u # t => pc'[u] = pc[u]
  <2>1. \/ UNCHANGED pc /\ pc[t] = "wiki"
        \/ Goto(t, "topic") \/ Goto(t, "article") \/ Goto(t, "links") \/ Goto(t, "wiki_save")
    BY Zenon DEF WalkSteps, PassOver, TakeTopic, NoArticle, WriteArticle, ArticleWritten, ArticleFails,
                 TopicDone, Collecting
  <2>2. {"topic", "article", "links", "wiki_save"} \subseteq Places
    BY SMT DEF Places
  <2>3. pc \in [Threads -> Places]
    BY <1>1 DEF SourcesTypes
  <2> QED
    BY <2>1, <2>2, <2>3, GotoType, Zenon
<1>4. Collecting(t) => Head(Queue) \in Topics /\ Tail(Cut(Queue)) \in Seq(Topics)
  BY <1>1, QueueType DEF Collecting
<1>5. pc[t] \in TopicPlaces => item[t] \in Topics
  BY <1>1 DEF TopicsInHand, TopicInHand
<1>6. /\ item' \in [Threads -> Topics \cup Nat \cup {NoTopic}]
      /\ \A u \in Threads : u # t => item'[u] = item[u]
  <2>1. \/ UNCHANGED item
        \/ Take(t, NoTopic)
        \/ Collecting(t) /\ Take(t, Head(Queue))
    BY Zenon DEF WalkSteps, PassOver, TakeTopic, NoArticle, WriteArticle, ArticleWritten, ArticleFails,
                 TopicDone
  <2> QED
    BY <1>1, <1>4, <2>1, TakeType, TypesNow, Zenon
<1>7. /\ rest' \in [Threads -> SUBSET (DocFolders \cup ManPages \cup Nat)]
      /\ \A u \in Threads : u # t => rest'[u] = rest[u]
  <2>1. \/ UNCHANGED rest
        \/ Visit(t, {})
        \/ pc[t] = "article" /\ Visit(t, DOMAIN Links[item[t]])
    BY Zenon DEF WalkSteps, PassOver, TakeTopic, NoArticle, WriteArticle, ArticleWritten, ArticleFails,
                 TopicDone
  <2>2. pc[t] = "article" => DOMAIN Links[item[t]] \in SUBSET (DocFolders \cup ManPages \cup Nat)
    BY <1>5, SourcesAssumption, SMT DEF TopicPlaces
  <2>3. {} \in SUBSET (DocFolders \cup ManPages \cup Nat)
    OBVIOUS
  <2> QED
    BY <1>1, <2>1, <2>2, <2>3, VisitType, TypesNow, Zenon
<1>8. memory' \in Data /\ memory'.page = memory.page /\ memory.done \subseteq memory'.done
  <2>1. memory \in Data /\ memory.done \in SUBSET Topics
    BY <1>1, TypesNow, DataFields, Zenon
  <2>2. CASE UNCHANGED memory
    BY <2>1, <2>2
  <2>3. CASE TakeTopic(t)
    <3>1. memory' = [memory EXCEPT !.queue = Tail(Cut(Queue))]
      BY <2>3 DEF TakeTopic, Queue
    <3> QED
      BY <1>4, <2>1, <2>3, <3>1, NewQueue, Zenon DEF TakeTopic
  <2>4. CASE TopicDone(t)
    <3>1. memory' = [memory EXCEPT !.done = memory.done \cup {item[t]}]
      BY <2>4 DEF TopicDone
    <3>2. memory.done \cup {item[t]} \in SUBSET Topics
      BY <1>5, <2>1, <2>4, SMT DEF TopicDone, TopicPlaces
    <3> QED
      BY <2>1, <3>1, <3>2, NewDone, Zenon
  <2>5. CASE PassOver(t)
    <3> DEFINE q == Tail(Cut(Queue))
               D == memory.done \cup ({Head(Queue)} \cap Blocked)
    <3>1. memory' = [memory EXCEPT !.queue = q, !.done = D]
      BY <2>5 DEF PassOver, Queue
    <3>2. q \in Seq(Topics) /\ D \in SUBSET Topics /\ memory.done \subseteq D
      BY <1>4, <2>1, <2>5, Zenon DEF PassOver
    <3> HIDE DEF q, D
    <3> QED
      BY <2>1, <3>1, <3>2, NewQueueAndDone, Zenon
  <2> QED
    BY <2>2, <2>3, <2>4, <2>5, Zenon
       DEF WalkSteps, NoArticle, WriteArticle, ArticleWritten, ArticleFails, data
<1>9. excused \subseteq excused'
  BY Zenon DEF WalkSteps, PassOver, TakeTopic, NoArticle, WriteArticle, ArticleWritten, ArticleFails,
               TopicDone, history
<1>10. window # "closed"
  BY <1>1, <1>2, SMT DEF FileBehind
<1>11. pc[t] \in {"wiki", "topic", "article", "links"}
  BY <1>2, SMT
<1> QED
  BY <1>2, <1>3, <1>6, <1>7, <1>8, <1>9, <1>10, <1>11, Zenon

LEMMA WalkTypes ==
    ASSUME CollectionInv, NEW t \in Threads, WalkSteps(t)
    PROVE  SourcesTypes'
<1>1. SourcesTypes /\ TopicsInHand
  BY DEF CollectionInv
<1>2. pc[t] \in TopicPlaces => item[t] \in Topics
  BY <1>1 DEF TopicsInHand, TopicInHand
<1>3. article' \in [Topics -> Parts]
  <2>1. article \in [Topics -> Parts]
    BY <1>1 DEF SourcesTypes
  <2>2. UNCHANGED article \/ \E what \in Parts : article' = [article EXCEPT ![item[t]] = what]
    <3>1. CASE WriteArticle(t)
      <4>1. Opened(t, "article", item[t]) \in Parts
        BY SMT DEF Opened, Parts
      <4> QED
        BY <3>1, <4>1, Zenon DEF WriteArticle
    <3>2. CASE ArticleWritten(t)
      <4>1. article[item[t]] \in Parts
        BY <1>2, <2>1, <3>2, SMT DEF ArticleWritten, TopicPlaces
      <4>2. Closed(article[item[t]]) \in Parts
        BY <4>1, SMT DEF Closed, Parts
      <4> QED
        BY <3>2, <4>2, Zenon DEF ArticleWritten
    <3> QED
      BY <3>1, <3>2, Zenon DEF WalkSteps, PassOver, TakeTopic, NoArticle, ArticleFails, TopicDone, files
  <2> QED
    BY <2>1, <2>2, Zenon
<1>4. excused' \subseteq Topics
  <2>1. UNCHANGED excused \/ (excused' \subseteq excused \cup {item[t]} /\ pc[t] \in TopicPlaces)
    BY SMT DEF WalkSteps, PassOver, TakeTopic, NoArticle, WriteArticle, ArticleWritten, ArticleFails,
               TopicDone, history, TopicPlaces
  <2>2. excused \subseteq Topics
    BY <1>1 DEF SourcesTypes
  <2> QED
    BY <1>2, <2>1, <2>2, Zenon
<1> QED
  BY <1>1, <1>3, <1>4, WalkShape, Zenon DEF SourcesTypes

LEMMA WalkRest ==
    ASSUME CollectionInv, NEW t \in Threads, WalkSteps(t)
    PROVE  Alone' /\ FileBehind' /\ PagesInHand' /\ PagesKnown'
<1>1. SourcesTypes /\ Alone /\ FileBehind /\ PagesInHand /\ PagesKnown
  BY DEF CollectionInv
<1>2. pc'[t] # "off" /\ pc[t] # "off" /\ pc'[t] \notin PagePlaces
  BY WalkShape, SMT DEF PagePlaces
<1>3. Alone'
  BY <1>1, <1>2, WalkShape, AloneKept, Zenon
<1>4. FileBehind'
  BY <1>1, WalkShape, SMT DEF FileBehind
<1>5. PagesInHand'
  <2>1. \A u \in Threads : PageKept(u)
    BY <1>2, WalkShape, SMT DEF PageKept, PagePlaces
  <2> QED
    BY <1>1, <2>1, WalkShape, PagesHandKept, Zenon DEF OverlapKept, AnswersKept
<1>6. PagesKnown'
  BY <1>1, WalkShape, Zenon DEF PagesKnown
<1> QED
  BY <1>3, <1>4, <1>5, <1>6

\* What the other threads have in hand, when an article changes only as the place says.
LEMMA OtherTopics ==
    ASSUME CollectionInv, NEW t \in Threads, WalkSteps(t), NEW u \in Threads, u # t,
           \A x \in Topics : \/ x \in excused'
                             \/ /\ article[x] \in {"part", "whole"} => article'[x] \in {"part", "whole"}
                                /\ article[x] = "whole" => article'[x] = "whole"
    PROVE  TopicInHand(u)'
<1>1. Alone /\ TopicInHand(u)
  BY DEF CollectionInv, TopicsInHand
<1>2. pc[u] # "off" => overlap
  BY <1>1, WalkShape, SMT DEF Alone
<1>3. /\ UNCHANGED overlap /\ excused \subseteq excused'
      /\ pc'[u] = pc[u] /\ item'[u] = item[u] /\ rest'[u] = rest[u]
  BY WalkShape
<1> QED
  BY <1>1, <1>2, <1>3, SMT DEF TopicInHand, TopicPlaces

\* What is remembered as done
LEMMA DoneGrows ==
    ASSUME CollectionInv, saved' = saved, excused \subseteq excused',
           \A x \in Topics : \/ article'[x] = article[x] \/ article'[x] = "whole"
                             \/ x \in excused' \/ x \notin memory'.done,
           \A x \in memory'.done : x \in memory.done \/ x \in Blocked \cup excused' \/ article'[x] = "whole",
           memory.done \subseteq memory'.done, window # "closed"
    PROVE  DoneHaveArticles'
<1>1. SourcesTypes /\ FileBehind /\ DoneHaveArticles
  BY DEF CollectionInv
<1>2. memory.done \subseteq Topics
  BY <1>1, TypesNow, DataFields, Zenon
<1>3. \A x \in memory.done : article[x] = "whole" \/ x \in Blocked \cup excused
  BY <1>1, Zenon DEF DoneHaveArticles, Datas
<1>4. \A x \in memory'.done : article'[x] = "whole" \/ x \in Blocked \cup excused'
  BY <1>2, <1>3, SMT
<1>5. \A d \in saved : d.done \subseteq memory'.done
  BY <1>1, SMT DEF FileBehind
<1>6. \A d \in Datas' : d = memory' \/ d \in saved
  BY Zenon DEF Datas
<1> QED
  BY <1>4, <1>5, <1>6, Zenon DEF DoneHaveArticles

LEMMA QueueStepsKeepTopics ==
    ASSUME CollectionInv, NEW t \in Threads, PassOver(t) \/ TakeTopic(t)
    PROVE  TopicsInHand' /\ DoneHaveArticles'
<1>1. SourcesTypes
  BY DEF CollectionInv
<1>2. UNCHANGED <<article, excused>> /\ WalkSteps(t) /\ Collecting(t)
  BY Zenon DEF PassOver, TakeTopic, files, history, WalkSteps
<1>3. Head(Queue) \in Topics /\ Tail(Cut(Queue)) \in Seq(Topics)
  BY <1>1, <1>2, QueueType DEF Collecting
<1>4. memory \in Data /\ memory.done \in SUBSET Topics
  BY <1>1, TypesNow, DataFields, Zenon
<1>5. \/ PassOver(t) /\ memory'.done = memory.done \cup ({Head(Queue)} \cap Blocked)
      \/ TakeTopic(t) /\ memory'.done = memory.done
  <2>1. CASE PassOver(t)
    <3> DEFINE q == Tail(Cut(Queue))
               D == memory.done \cup ({Head(Queue)} \cap Blocked)
    <3>1. memory' = [memory EXCEPT !.queue = q, !.done = D]
      BY <2>1 DEF PassOver, Queue
    <3>2. q \in Seq(Topics) /\ D \in SUBSET Topics
      BY <1>3, <1>4, Zenon
    <3> HIDE DEF q
    <3>3. memory'.done = D
      <4> HIDE DEF D
      <4> QED
        BY <1>4, <3>1, <3>2, NewQueueAndDone, Zenon
    <3> QED
      BY <2>1, <3>3
  <2>2. CASE TakeTopic(t)
    <3>1. memory' = [memory EXCEPT !.queue = Tail(Cut(Queue))]
      BY <2>2 DEF TakeTopic, Queue
    <3> QED
      BY <1>3, <1>4, <2>2, <3>1, NewQueue, Zenon
  <2> QED
    BY <2>1, <2>2
<1>6. TopicInHand(t)'
  <2>1. CASE PassOver(t)
    BY <2>1, SMT DEF PassOver, Collecting, TopicInHand, TopicPlaces
  <2>2. CASE TakeTopic(t)
    <3>1. pc'[t] = "topic" /\ item'[t] = Head(Queue) /\ Head(Queue) \notin memory.done
      BY <1>1, <2>2, GotoType, TakeType, TypesNow, Zenon DEF TakeTopic
    <3>2. memory'.done = memory.done
      BY <1>3, <1>4, <2>2, NewQueue, Zenon DEF TakeTopic, Queue
    <3> QED
      BY <1>3, <3>1, <3>2, SMT DEF TopicInHand
  <2> QED
    BY <1>5, <2>1, <2>2
<1>7. \A u \in Threads : u # t => TopicInHand(u)'
  BY <1>2, OtherTopics
<1>8. DoneHaveArticles'
  BY <1>2, <1>5, WalkShape, DoneGrows, Zenon
<1> QED
  BY <1>6, <1>7, <1>8 DEF TopicsInHand

\* A topic without an article, or with one that could not be written
LEMMA ExcusesKeepTopics ==
    ASSUME CollectionInv, NEW t \in Threads, NoArticle(t) \/ ArticleFails(t)
    PROVE  TopicsInHand' /\ DoneHaveArticles'
<1>1. SourcesTypes /\ TopicInHand(t)
  BY DEF CollectionInv, TopicsInHand
<1>2. /\ UNCHANGED <<article, memory, item>> /\ WalkSteps(t) /\ (pc[t] = "topic" \/ pc[t] = "article")
      /\ excused' = excused \cup {item[t]} /\ Goto(t, "links") /\ Visit(t, {})
  BY Zenon DEF NoArticle, ArticleFails, data, files, WalkSteps
<1>3. pc'[t] = "links" /\ rest'[t] = {}
  BY <1>1, <1>2, GotoType, VisitType, TypesNow, Zenon
<1>4. TopicInHand(t)'
  BY <1>1, <1>2, <1>3, SMT DEF TopicInHand, TopicPlaces
<1>5. \A u \in Threads : u # t => TopicInHand(u)'
  BY <1>2, OtherTopics
<1>6. DoneHaveArticles'
  BY <1>2, WalkShape, DoneGrows, Zenon
<1> QED
  BY <1>4, <1>5, <1>6 DEF TopicsInHand

\* An article is opened: it is excused, or the one thread's and not done.
LEMMA WriteArticleKeepsTopics ==
    ASSUME CollectionInv, NEW t \in Threads, WriteArticle(t)
    PROVE  TopicsInHand' /\ DoneHaveArticles'
<1> DEFINE x == item[t]
<1>1. SourcesTypes /\ TopicInHand(t) /\ Alone
  BY DEF CollectionInv, TopicsInHand
<1>2. /\ UNCHANGED <<memory, item, overlap>> /\ WalkSteps(t) /\ pc[t] = "topic" /\ Goto(t, "article")
      /\ article' = [article EXCEPT ![x] = Opened(t, "article", x)]
  BY Zenon DEF WriteArticle, data, WalkSteps
<1>3. overlap => x \in excused'
  BY SMT DEF WriteArticle
<1>4. x \in Topics /\ (~ overlap => x \notin memory.done)
  BY <1>1, <1>2, SMT DEF TopicInHand, TopicPlaces
<1>5. Opened(t, "article", x) = "part" \/ overlap
  <2>1. \A u \in Threads : u # t /\ pc[u] = "article" => overlap
    BY <1>1, <1>2, SMT DEF Alone
  <2> QED
    BY <2>1, SMT DEF Opened
<1>6. /\ article'[x] = Opened(t, "article", x)
      /\ \A y \in Topics : y # x => article'[y] = article[y]
  <2>1. article \in [Topics -> Parts]
    BY <1>1 DEF SourcesTypes
  <2> HIDE DEF x
  <2> QED
    BY <1>2, <1>4, <2>1, Zenon
<1>7. pc'[t] = "article"
  BY <1>1, <1>2, GotoType, TypesNow, Zenon
<1>8. TopicInHand(t)'
  <2>1. article'[x] \in {"part", "whole"} \/ x \in excused'
    BY <1>3, <1>5, <1>6, Zenon
  <2> QED
    BY <1>2, <1>4, <1>7, <2>1, SMT DEF TopicInHand, TopicPlaces
<1>9. ASSUME NEW u \in Threads, u # t PROVE TopicInHand(u)'
  <2>1. CASE overlap
    BY <1>2, <1>3, <1>6, <1>9, <2>1, OtherTopics
  <2>2. CASE ~ overlap
    <3>1. pc'[u] = "off"
      BY <1>1, <1>2, <1>9, <2>2, WalkShape, SMT DEF Alone
    <3> QED
      BY <3>1, SMT DEF TopicInHand, TopicPlaces
  <2> QED
    BY <2>1, <2>2
<1>10. DoneHaveArticles'
  <2>1. \A y \in Topics : article'[y] = article[y] \/ y \in excused' \/ y \notin memory'.done
    BY <1>2, <1>3, <1>4, <1>6, Zenon
  <2> HIDE DEF x
  <2> QED
    BY <1>2, <2>1, WalkShape, DoneGrows, Zenon
<1> QED
  BY <1>8, <1>9, <1>10 DEF TopicsInHand

LEMMA ArticleWrittenKeepsTopics ==
    ASSUME CollectionInv, NEW t \in Threads, ArticleWritten(t)
    PROVE  TopicsInHand' /\ DoneHaveArticles'
<1> DEFINE x == item[t]
<1>1. SourcesTypes /\ TopicInHand(t)
  BY DEF CollectionInv, TopicsInHand
<1>2. /\ UNCHANGED <<memory, item, excused>> /\ WalkSteps(t) /\ pc[t] = "article" /\ Goto(t, "links")
      /\ article' = [article EXCEPT ![x] = Closed(@)]
      /\ Visit(t, DOMAIN Links[x]) \/ Visit(t, {})
  BY Zenon DEF ArticleWritten, data, history, WalkSteps
<1>3. x \in Topics /\ (article[x] \in {"part", "whole"} \/ x \in excused)
  BY <1>1, <1>2, SMT DEF TopicInHand, TopicPlaces
<1>4. /\ article'[x] = Closed(article[x])
      /\ \A y \in Topics : y # x => article'[y] = article[y]
  <2>1. article \in [Topics -> Parts] /\ article' = [article EXCEPT ![x] = Closed(article[x])]
    BY <1>1, <1>2 DEF SourcesTypes
  <2> HIDE DEF x
  <2> QED
    BY <1>3, <2>1, Zenon
<1>5. article[x] \in {"part", "whole"} => article'[x] = "whole"
  BY <1>4, SMT DEF Closed
<1>6. /\ pc'[t] = "links" /\ rest'[t] \subseteq DOMAIN Links[x]
  <2>1. pc'[t] = "links"
    BY <1>1, <1>2, GotoType, TypesNow, Zenon
  <2>2. rest'[t] = DOMAIN Links[x] \/ rest'[t] = {}
    BY <1>1, <1>2, VisitType, TypesNow, Zenon
  <2> HIDE DEF x
  <2> QED
    BY <2>1, <2>2, SMT
<1>7. TopicInHand(t)'
  BY <1>2, <1>3, <1>5, <1>6, SMT DEF TopicInHand, TopicPlaces
<1>8. \A u \in Threads : u # t => TopicInHand(u)'
  <2>1. \A y \in Topics : /\ article[y] \in {"part", "whole"} => article'[y] \in {"part", "whole"}
                          /\ article[y] = "whole" => article'[y] = "whole"
    BY <1>3, <1>4, <1>5, SMT
  <2> HIDE DEF x
  <2> QED
    BY <1>2, <2>1, OtherTopics
<1>9. DoneHaveArticles'
  <2>1. \A y \in Topics : article'[y] = article[y] \/ y \in excused' \/ article'[y] = "whole"
    BY <1>2, <1>3, <1>4, <1>5, SMT
  <2> HIDE DEF x
  <2> QED
    BY <1>2, <2>1, WalkShape, DoneGrows, Zenon
<1> QED
  BY <1>7, <1>8, <1>9 DEF TopicsInHand

LEMMA TopicDoneKeepsTopics ==
    ASSUME CollectionInv, NEW t \in Threads, TopicDone(t)
    PROVE  TopicsInHand' /\ DoneHaveArticles'
<1> DEFINE x == item[t]
<1>1. SourcesTypes /\ TopicInHand(t)
  BY DEF CollectionInv, TopicsInHand
<1>2. /\ UNCHANGED <<article, excused>> /\ WalkSteps(t) /\ pc[t] = "links" /\ Goto(t, "wiki_save")
      /\ memory' = [memory EXCEPT !.done = memory.done \cup {x}]
  BY Zenon DEF TopicDone, files, history, WalkSteps
<1>3. x \in Topics /\ (article[x] = "whole" \/ x \in excused)
  BY <1>1, <1>2, SMT DEF TopicInHand, TopicPlaces
<1>4. memory'.done = memory.done \cup {x}
  <2> DEFINE D == memory.done \cup {x}
  <2>1. memory' = [memory EXCEPT !.done = D] /\ memory \in Data
    BY <1>1, <1>2, TypesNow
  <2> HIDE DEF D
  <2>2. memory'.done = D
    BY <2>1, NewDone, Zenon
  <2> QED
    BY <2>2 DEF D
<1>5. pc'[t] = "wiki_save"
  BY <1>1, <1>2, GotoType, TypesNow, Zenon
<1>6. TopicInHand(t)'
  BY <1>5, SMT DEF TopicInHand, TopicPlaces
<1>7. \A u \in Threads : u # t => TopicInHand(u)'
  BY <1>2, OtherTopics
<1>8. DoneHaveArticles'
  <2>1. \A y \in memory'.done : y \in memory.done \/ y \in Blocked \cup excused' \/ article'[y] = "whole"
    BY <1>2, <1>3, <1>4, Zenon
  <2> HIDE DEF x
  <2> QED
    BY <1>2, <2>1, WalkShape, DoneGrows, Zenon
<1> QED
  BY <1>6, <1>7, <1>8 DEF TopicsInHand

LEMMA WalkKeepsInv ==
    ASSUME CollectionInv, NEW t \in Threads, WalkSteps(t)
    PROVE  CollectionInv'
<1>1. TopicsInHand' /\ DoneHaveArticles'
  BY QueueStepsKeepTopics, ExcusesKeepTopics, WriteArticleKeepsTopics, ArticleWrittenKeepsTopics,
     TopicDoneKeepsTopics DEF WalkSteps
<1> QED
  BY <1>1, WalkTypes, WalkRest DEF CollectionInv

\* A click starts a pipeline: it meets others, or has nothing in hand.
LEMMA CollectKeepsInv ==
    ASSUME CollectionInv, NEW t \in Threads, Collect(t)
    PROVE  CollectionInv'
<1>1. SourcesTypes /\ Alone /\ FileBehind /\ TopicsInHand /\ DoneHaveArticles /\ PagesInHand /\ PagesKnown
  BY DEF CollectionInv
<1>2. /\ UNCHANGED <<window, data, pool, kind, files, excused, skipped, starts>>
      /\ pc[t] = "off" /\ window = "open" /\ running' = TRUE /\ idle' = Append(idle, "busy")
      /\ Goto(t, "docs") /\ Visit(t, DocFolders) /\ Take(t, NoTopic)
      /\ overlap' = (Alive # {}) /\ clicks' = clicks + 1 /\ clicks < MaxClicks
  BY Zenon DEF Collect
<1>3. /\ pc' \in [Threads -> Places] /\ pc'[t] = "docs"
      /\ \A u \in Threads : u # t => pc'[u] = pc[u]
  BY <1>1, <1>2, GotoType, TypesNow, PlacesNamed, SMT
<1>4. /\ rest' \in [Threads -> SUBSET (DocFolders \cup ManPages \cup Nat)]
      /\ \A u \in Threads : u # t => rest'[u] = rest[u]
  <2>1. DocFolders \in SUBSET (DocFolders \cup ManPages \cup Nat)
    OBVIOUS
  <2> QED
    BY <1>1, <1>2, <2>1, VisitType, TypesNow, Zenon
<1>5. /\ item' \in [Threads -> Topics \cup Nat \cup {NoTopic}]
      /\ \A u \in Threads : u # t => item'[u] = item[u]
  BY <1>1, <1>2, TakeType, TypesNow, Zenon
<1>6. overlap' \in BOOLEAN /\ running' \in BOOLEAN
  BY <1>2, Zenon
<1>7. clicks' \in 0 .. MaxClicks
  BY <1>1, <1>2, SourcesAssumption, SMT DEF SourcesTypes
<1>8. QuietTypes
  BY <1>1, <1>2, <1>3, <1>4, <1>5, <1>6, IdleType, TypesNow, Zenon DEF QuietTypes, data, files
<1>9. SourcesTypes'
  BY <1>1, <1>6, <1>7, <1>8, TypesKept
<1>10. ~ overlap' => \A u \in Threads : u # t => pc[u] = "off"
  BY <1>2, Zenon DEF Alive
<1>11. Alone'
  BY <1>3, <1>10, Zenon DEF Alone
<1>12. OverlapKept
  BY <1>3, <1>10, SMT DEF OverlapKept, TopicPlaces, PagePlaces
<1>13. \A u \in Threads : TopicKept(u) /\ PageKept(u)
  BY <1>3, <1>4, <1>5, SMT DEF TopicKept, PageKept, TopicPlaces, PagePlaces
<1>14. ArticlesKept /\ AnswersKept /\ ProgressKept
  BY <1>2, <1>8, Zenon DEF ArticlesKept, AnswersKept, ProgressKept, files, QuietTypes
<1>15. memory.page \in Nat /\ memory'.page \in Nat
  BY <1>1, <1>9, DataFields, Zenon DEF SourcesTypes
<1>16. FileBehind'
  <2>1. window # "closed"
    BY <1>2
  <2> QED
    BY <1>1, <1>14, <2>1, FileKept
<1>17. TopicsInHand' /\ DoneHaveArticles' /\ PagesInHand' /\ PagesKnown'
  BY <1>1, <1>12, <1>13, <1>14, <1>15, TopicsKept, DoneKept, PagesHandKept, PagesKnownKept, Zenon
     DEF ProgressKept
<1> QED
  BY <1>9, <1>11, <1>16, <1>17 DEF CollectionInv

\* What load() makes of a file.
LEMMA LoadedType ==
    ASSUME saved \subseteq Data
    PROVE  /\ Loaded(saved) \in Data /\ Defaults \in Data
           /\ Defaults.done = {} /\ Defaults.page = 1
           /\ saved = Torn => Loaded(saved).done = {} /\ Loaded(saved).page = 1
           /\ \A d \in saved : saved = {d} =>
                  Loaded(saved).done = d.done /\ Loaded(saved).page = d.page
<1> DEFINE d == IF saved = Torn THEN Defaults ELSE CHOOSE x \in saved : TRUE
           q == IF d.queue = << >> THEN WikiTopics ELSE d.queue
<1>1. Defaults \in Data /\ Defaults.done = {} /\ Defaults.page = 1
  BY SourcesAssumption, SMT DEF Defaults, Data
<1>2. d \in Data
  BY <1>1, Zenon DEF Torn
<1>3. Loaded(saved) = [d EXCEPT !.queue = q]
  BY DEF Loaded
<1>4. \A e \in saved : saved = {e} => d = e
  BY Zenon DEF Torn
<1>5. saved = Torn => d = Defaults
  OBVIOUS
<1>6. q \in Seq(Topics)
  BY <1>2, DataFields, SourcesAssumption, Zenon
<1> HIDE DEF d, q
<1>7. Loaded(saved) = [queue |-> q, done |-> d.done, page |-> d.page, man |-> d.man]
  BY <1>2, <1>3, DataFields, Zenon
<1>8. Loaded(saved) \in Data /\ Loaded(saved).done = d.done /\ Loaded(saved).page = d.page
  BY <1>2, <1>6, <1>7, DataFields, SMT DEF Data
<1> QED
  BY <1>1, <1>4, <1>5, <1>8, Zenon

\* Where no thread runs, nobody is met and nothing in hand.
LEMMA NobodyRuns ==
    ASSUME \A t \in Threads : pc[t] = "off"
    PROVE  Alone /\ TopicsInHand /\ PagesInHand
  BY SMT DEF Alone, TopicsInHand, TopicInHand, TopicPlaces, PagesInHand, PageInHand, FileInHand,
             PagePlaces

LEMMA NobodyRunsNext ==
    ASSUME \A t \in Threads : pc'[t] = "off"
    PROVE  Alone' /\ TopicsInHand' /\ PagesInHand'
  BY SMT DEF Alone, TopicsInHand, TopicInHand, TopicPlaces, PagesInHand, PageInHand, FileInHand,
             PagePlaces

LEMMA InitSourcesInv == InitSources => CollectionInv
<1> SUFFICES ASSUME InitSources PROVE CollectionInv
  OBVIOUS
<1>1. saved = {} /\ memory = Defaults /\ memory \in Data /\ memory.done = {} /\ memory.page = 1
  BY LoadedType, Zenon DEF InitSources, Torn
<1>2. kind \in [DocFolders \cup Books -> Kinds]
  <2>1. PICK how \in [DocFolders -> DocKinds] :
            kind = [d \in DocFolders \cup Books |->
                        IF d \in DocFolders THEN how[d] ELSE BookKind[d]]
    BY DEF InitSources
  <2>2. \A d \in DocFolders \cup Books :
            (IF d \in DocFolders THEN how[d] ELSE BookKind[d]) \in Kinds
    <3>1. \A d \in DocFolders : how[d] \in Kinds
      BY <2>1, SourcesAssumption, Zenon
    <3>2. \A d \in Books : BookKind[d] \in {"sync", "tree"}
      BY SourcesAssumption, Zenon
    <3>3. {"sync", "tree"} \subseteq Kinds
      BY Zenon DEF Kinds
    <3> QED
      BY <3>1, <3>2, <3>3, Zenon
  <2> QED
    BY <2>1, <2>2, Zenon
<1>3. SourcesTypes
  <2>1. /\ saved \subseteq Data /\ running \in BOOLEAN /\ overlap \in BOOLEAN
        /\ manual \subseteq ManPages /\ excused \subseteq Topics /\ skipped \subseteq 1 .. SO_MAX_PAGES
    BY <1>1, Zenon DEF InitSources
  <2>2. starts \in 1 .. MaxStarts /\ clicks \in 0 .. MaxClicks
    BY SourcesAssumption, SMT DEF InitSources
  <2>3. /\ pool \in [Threads -> [Books -> {"queued", "memory", "running", "done"}]]
        /\ folder \in [DocFolders \cup Books -> {"none", "some", "marker"}]
        /\ article \in [Topics -> Parts]
        /\ answers \in [1 .. SO_MAX_PAGES -> Parts]
        /\ rest \in [Threads -> SUBSET (DocFolders \cup ManPages \cup Nat)]
        /\ item \in [Threads -> Topics \cup Nat \cup {NoTopic}]
    BY SMT DEF InitSources, Parts
  <2>4. window \in {"open", "closing", "closed"} /\ idle \in Seq({"busy", "finish"})
    BY SMT DEF InitSources
  <2>5. pc \in [Threads -> Places]
    BY SMT DEF InitSources, Places
  <2> QED
    BY <1>1, <1>2, <2>1, <2>2, <2>3, <2>4, <2>5, Zenon DEF SourcesTypes
<1>4. Alone /\ TopicsInHand /\ PagesInHand
  BY NobodyRuns, Zenon DEF InitSources
<1>5. FileBehind
  BY <1>1, Zenon DEF FileBehind, InitSources
<1>6. DoneHaveArticles
  BY <1>1, Zenon DEF DoneHaveArticles, Datas
<1>7. PagesKnown
  BY <1>1, SMT DEF PagesKnown, Sound
<1> QED
  BY <1>3, <1>4, <1>5, <1>6, <1>7 DEF CollectionInv

LEMMA DieKeepsInv == ASSUME CollectionInv, Die PROVE CollectionInv'
<1>1. SourcesTypes /\ FileBehind /\ DoneHaveArticles /\ PagesKnown
  BY DEF CollectionInv
<1>2. /\ UNCHANGED <<kind, files, excused, skipped, starts, clicks>>
      /\ window' = "closed" /\ running' = FALSE /\ idle' = << >>
      /\ pc' = [t \in Threads |-> "off"]
      /\ memory' = Defaults /\ overlap' = FALSE
      /\ rest' = [t \in Threads |-> {}] /\ item' = [t \in Threads |-> NoTopic]
      /\ pool' = [t \in Threads |-> [b \in Books |-> "done"]]
      /\ saved' = saved \/ saved' = {}
  BY SMT DEF Die, Torn
<1>3. Defaults \in Data /\ Defaults.done = {} /\ Defaults.page = 1
  BY <1>1, LoadedType, Zenon DEF SourcesTypes
<1>4. SourcesTypes'
  <2>1. memory' \in Data /\ saved' \subseteq Data /\ running' \in BOOLEAN /\ overlap' \in BOOLEAN
    BY <1>1, <1>2, <1>3, Zenon DEF SourcesTypes
  <2>2. /\ pool' \in [Threads -> [Books -> {"queued", "memory", "running", "done"}]]
        /\ rest' \in [Threads -> SUBSET (DocFolders \cup ManPages \cup Nat)]
        /\ item' \in [Threads -> Topics \cup Nat \cup {NoTopic}]
    BY <1>2, SMT
  <2>3. window' \in {"open", "closing", "closed"} /\ idle' \in Seq({"busy", "finish"})
    BY <1>2, SMT
  <2>4. pc' \in [Threads -> Places]
    BY <1>2, SMT DEF Places
  <2> QED
    BY <1>1, <1>2, <2>1, <2>2, <2>3, <2>4, Zenon DEF SourcesTypes, files
<1>5. Alone' /\ TopicsInHand' /\ PagesInHand'
  BY <1>2, NobodyRunsNext, Zenon
<1>6. FileBehind'
  BY <1>1, <1>2, Zenon DEF FileBehind
<1>7. \A d \in Datas' : d = Defaults \/ d \in saved
  BY <1>2, Zenon DEF Datas
<1>8. DoneHaveArticles'
  BY <1>1, <1>2, <1>3, <1>7, SMT DEF DoneHaveArticles, Datas, files
<1>9. PagesKnown'
  <2>1. Sound(1, answers', skipped')
    BY SMT DEF Sound
  <2>2. memory'.page = 1 /\ 1 >= 1
    BY <1>2, <1>3, SMT
  <2>3. UNCHANGED <<answers, skipped>>
    BY <1>2 DEF files
  <2> QED
    BY <1>1, <1>2, <2>1, <2>2, <2>3, Zenon DEF PagesKnown
<1> QED
  BY <1>4, <1>5, <1>6, <1>8, <1>9 DEF CollectionInv

LEMMA StartKeepsCollection == ASSUME CollectionInv, Start PROVE CollectionInv'
<1>1. SourcesTypes /\ FileBehind /\ DoneHaveArticles /\ PagesKnown
  BY DEF CollectionInv
<1>2. /\ UNCHANGED <<idle, saved, pc, rest, item, pool, kind, files, overlap, excused, skipped, clicks>>
      /\ window = "closed" /\ window' = "open" /\ running' = FALSE
      /\ memory' = Loaded(saved) /\ starts' = starts + 1 /\ starts < MaxStarts
  BY Zenon DEF Start
<1>3. saved \subseteq Data /\ (saved = {} \/ \E d \in saved : saved = {d})
  BY <1>1, Zenon DEF SourcesTypes, FileBehind
<1>4. /\ memory' \in Data
      /\ \/ saved = {} /\ memory'.done = {} /\ memory'.page = 1
         \/ \E d \in saved : saved = {d} /\ memory'.done = d.done /\ memory'.page = d.page
  BY <1>2, <1>3, LoadedType, Zenon DEF Torn
<1>5. SourcesTypes'
  <2>1. starts' \in 1 .. MaxStarts
    BY <1>1, <1>2, SourcesAssumption, SMT DEF SourcesTypes
  <2>2. memory' \in Data /\ saved' \subseteq Data /\ running' \in BOOLEAN
    BY <1>2, <1>3, <1>4, Zenon
  <2>3. window' \in {"open", "closing", "closed"}
    BY <1>2, Zenon
  <2> QED
    BY <1>1, <1>2, <2>1, <2>2, <2>3, Zenon DEF SourcesTypes, files
<1>6. Alone' /\ TopicsInHand' /\ PagesInHand'
  <2>1. \A t \in Threads : pc'[t] = "off"
    BY <1>1, <1>2, Zenon DEF FileBehind
  <2> QED
    BY <2>1, NobodyRunsNext, Zenon
<1>7. FileBehind'
  BY <1>1, <1>2, <1>4, SMT DEF FileBehind
<1>8. \A d \in Datas' : d.done = {} \/ \E e \in saved : d.done = e.done
  BY <1>2, <1>4, Zenon DEF Datas
<1>9. DoneHaveArticles'
  BY <1>1, <1>2, <1>8, SMT DEF DoneHaveArticles, Datas, files
<1>10. PagesKnown'
  <2>1. UNCHANGED <<answers, skipped, saved>>
    BY <1>2 DEF files
  <2>2. CASE saved = {} /\ memory'.page = 1
    BY <2>1, <2>2, SMT DEF PagesKnown, Sound
  <2>3. CASE \E d \in saved : saved = {d} /\ memory'.page = d.page
    <3>1. PICK d \in saved : saved = {d} /\ memory'.page = d.page
      BY <2>3
    <3>2. d.page \in Nat
      BY <1>3, DataFields, Zenon
    <3>3. Gap(d.page, d.page, skipped)
      BY <3>2, SMT DEF Gap
    <3> QED
      BY <1>1, <2>1, <3>1, <3>3, Zenon DEF PagesKnown
  <2> QED
    BY <1>4, <2>2, <2>3
<1> QED
  BY <1>5, <1>6, <1>7, <1>9, <1>10 DEF CollectionInv

LEMMA ThreadKeepsInv ==
    ASSUME CollectionInv, NEW t \in Threads, Thread(t)
    PROVE  CollectionInv'
<1>1. SourcesTypes /\ TopicsInHand
  BY DEF CollectionInv
<1>2. Quiet(t) \/ WalkSteps(t) \/ PageSteps(t)
  BY <1>1, SavesQuiet, FoldersQuiet, ManualQuiet, AddLinkQuiet, WikiEndsQuiet, TagLeftQuiet, Zenon
     DEF Thread, Walk, Pages, WalkSteps, PageSteps
<1> QED
  BY <1>2, QuietKeepsInv, WalkKeepsInv, PagesKeepInv, Zenon

LEMMA NextSourcesInv == CollectionInv /\ [NextSources]_sourcesVars => CollectionInv'
<1> SUFFICES ASSUME CollectionInv, [NextSources]_sourcesVars
             PROVE  CollectionInv'
  OBVIOUS
<1>1. CASE NextSources
  BY <1>1, CollectKeepsInv, ThreadKeepsInv, PoolKeepsInv, WindowKeepsInv, DieKeepsInv,
     StartKeepsCollection, Zenon DEF NextSources
<1>2. CASE UNCHANGED sourcesVars
  <2>1. UNCHANGED <<window, running, idle, memory, saved, pc, rest, item, pool, kind, folder, manual,
                    article, answers, overlap, excused, skipped, starts, clicks>>
    BY <1>2 DEF sourcesVars, gui, data, files, history
  <2>2. SourcesTypes
    BY DEF CollectionInv
  <2>3. QuietTypes
    BY <2>1, <2>2, TypesNow, Zenon DEF QuietTypes
  <2> QED
    BY <2>1, <2>3, StillKeepsInv, Zenon
<1> QED
  BY <1>1, <1>2

\* The invariant of the collection, across closings, deaths and starts.
THEOREM CollectionInvariance == SpecSources => []CollectionInv
  BY InitSourcesInv, NextSourcesInv, PTL DEF SpecSources

\* Every page of answers below so_progress is whole on disk, but for the empty ones and
\* those opened while two pipelines ran.
THEOREM CountedPagesAreWhole == SpecSources => []PagesBelowProgress
<1>1. CollectionInv => PagesBelowProgress
  BY Zenon DEF CollectionInv, PagesKnown, PagesBelowProgress, Datas, Sound
<1> QED
  BY <1>1, CollectionInvariance, PTL

\* Every article remembered as done is whole on disk, but for the blocked ones, those that
\* could not be had or written, and those opened while two pipelines ran.
THEOREM DoneArticlesAreWhole == SpecSources => []DoneHaveArticles
<1>1. CollectionInv => DoneHaveArticles
  BY DEF CollectionInv
<1> QED
  BY <1>1, CollectionInvariance, PTL

==============================================================================
