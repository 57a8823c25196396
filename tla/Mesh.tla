-------------------------------- MODULE Mesh --------------------------------
(***************************************************************************)
(* The mesh, rag_core/distributed.py, as one node sees it: the table of    *)
(* peers (_peers), which the beacons of the others fill (_listen_loop),    *)
(* _cleanup_loop empties and get_idle_peers reads, and distributed_search, *)
(* which looks into its own index, asks the peers one after the other and  *)
(* merges what they send. remote_search and remote_embed have no callers.  *)
(*                                                                         *)
(* The other nodes start, stop, become busy and idle between any two       *)
(* steps, and their beacons are UDP: lost, repeated, late, in any order.   *)
(* So a beacon may come in from any node at any time and say what its      *)
(* monitor can have found at some time, and a request may be answered,     *)
(* refused or left alone, whatever the beacons said.                       *)
(*                                                                         *)
(* A hit is its distance from the query and its key, the source and the    *)
(* first 120 characters of the text, by which hits are compared. What the  *)
(* retriever of a node returns is any of a set of such lists: it ranks by  *)
(* distance and source together, drops what is far or poor, and may answer *)
(* from its cache what it found for a similar query or another top_k. So a *)
(* list is not sorted by distance, two nodes give one key two distances,   *)
(* and two texts of one source may begin alike.                            *)
(*                                                                         *)
(* Time is counted in ticks; within a tick the threads run in any order.   *)
(* The timeout of requests holds for the connection and for each read:     *)
(* RequestTimeout stands for all a request may take of them.               *)
(***************************************************************************)
EXTENDS Integers, FiniteSets, Sequences, SequencesExt

CONSTANTS
    Nodes,          \* the nodes of the network
    Self,           \* the node whose table this is
    Hits,           \* what an index can return: a key and its distance
    Finds,          \* the lists each node's retriever may return; none without an index
    TopK,           \* top_k
    PeerTimeout,    \* MESH_PEER_TIMEOUT
    RequestTimeout, \* the longest a requests.post takes
    Machines,       \* what a machine may be doing when it is measured
    MaxTime,        \* bound on the clock
    Nobody          \* no node

ASSUME MeshAssumption ==
    /\ Self \in Nodes
    /\ Nobody \notin Nodes
    /\ IsFiniteSet(Nodes)
    /\ \A h \in Hits : h.dist \in Nat
    /\ Finds \in [Nodes -> SUBSET Seq(Hits)]
    /\ TopK \in Nat \ {0}
    /\ PeerTimeout \in Nat \ {0}
    /\ RequestTimeout \in Nat \ {0}
    /\ Machines \subseteq [cpu : 0..100, gpu : 0..100, ram : Nat, procs : SUBSET STRING]
    /\ MaxTime \in Nat

VARIABLES
    moved,      \* this machine's address is none of _local_ips any more
    peers,      \* _peers: what is known of each node
    cleanAt,    \* when _cleanup_loop wakes up
    searching,  \* distributed_search runs
    todo,       \* the peers it has still to ask
    asking,     \* the peer it asks, and since when
    hits,       \* the hits it has collected, or what it returned
    sent,       \* history: the hits that it was given
    asked,      \* history: how many peers were asked before
    now         \* time.monotonic()

tableVars == <<moved, peers, cleanAt>>
searchVars == <<searching, todo, asking, hits, sent, asked>>
vars == <<tableVars, searchVars, now>>

Unknown == [available |-> FALSE, seen |-> -1]
Known(n) == peers[n] # Unknown

\* A search holds the PeerInfo of a peer it is going to ask.
PeerInfo == [node : Nodes, seen : 0..MaxTime]
NotAsking == [node |-> Nobody, since |-> 0]

-----------------------------------------------------------------------------

Init ==
    /\ moved \in BOOLEAN
    /\ peers = [n \in Nodes |-> Unknown]
    /\ cleanAt = PeerTimeout
    /\ searching = FALSE
    /\ todo = {} /\ asking = NotAsking /\ hits = <<>>
    /\ sent = {} /\ asked = 0
    /\ now = 0

-----------------------------------------------------------------------------
\* SystemMonitor: what a node says of itself.

CPU_IDLE_THRESHOLD == 25
GPU_IDLE_THRESHOLD == 20
RAM_IDLE_FLOOR_MB == 3000

\* One name stands for the others of its list.
GAMING_PROCESSES == {"steam", "java", "Xwayland"}
HEAVY_WORKLOAD_PROCESSES == {"make"}

Sensors == {"cpu", "gpu", "ram", "procs"}

\* _calc_cpu_percent, _calc_gpu_percent, _calc_ram_free_mb, _refresh_procs. What cannot
\* be read counts as a busy processor, an idle or missing graphics card, no memory and
\* no processes.
Reading(m, failed) ==
    [cpu   |-> IF "cpu" \in failed THEN 100 ELSE m.cpu,
     gpu   |-> IF "gpu" \in failed THEN 0 ELSE m.gpu,
     ram   |-> IF "ram" \in failed THEN 0 ELSE m.ram,
     procs |-> IF "procs" \in failed THEN {} ELSE m.procs]

\* _calc_is_gaming. (The names of processes come in lower case: an "xwayland" is not
\* the "Xwayland" of the list.)
Gaming(r) ==
    LET games == r.procs \cap GAMING_PROCESSES IN
    /\ games # {}
    /\ games = {"java"} => r.gpu > 40
    /\ games = {"Xwayland"} => r.gpu > 60

\* _monitor_loop.
Idle(r) ==
    /\ ~Gaming(r)
    /\ r.procs \cap HEAVY_WORKLOAD_PROCESSES = {}
    /\ r.cpu < CPU_IDLE_THRESHOLD
    /\ r.gpu < GPU_IDLE_THRESHOLD
    /\ r.ram > RAM_IDLE_FLOOR_MB

\* What is_idle() may return; a node that has not measured yet is idle.
Statuses ==
    {TRUE} \cup { a \in BOOLEAN :
        \E m \in Machines, f \in SUBSET Sensors : a = Idle(Reading(m, f)) }

\* _build_beacon.
Beacons == [available : Statuses]

-----------------------------------------------------------------------------
\* The table of peers.

\* _listen_loop passes over its own beacons, which it knows by address and node_id.
Receive(n) ==
    /\ n # Self \/ moved
    /\ \E b \in Beacons : peers' = [peers EXCEPT ![n] = [available |-> b.available, seen |-> now]]
    /\ UNCHANGED <<moved, cleanAt, searchVars, now>>

\* The entries _cleanup_loop deletes.
Expired(n) == Known(n) /\ now - peers[n].seen > PeerTimeout

Cleanup_SleepsTwice ==
    /\ now = cleanAt
    /\ peers' = [n \in Nodes |-> IF Expired(n) THEN Unknown ELSE peers[n]]
    /\ cleanAt' = now + 2 * PeerTimeout
    /\ UNCHANGED <<moved, searchVars, now>>

Cleanup ==
    /\ now = cleanAt
    /\ peers' = [n \in Nodes |-> IF Expired(n) THEN Unknown ELSE peers[n]]
    /\ cleanAt' = now + PeerTimeout
    /\ UNCHANGED <<moved, searchVars, now>>

IdlePeers_WhileKnown ==
    { [node |-> n, seen |-> peers[n].seen] : n \in { m \in Nodes : peers[m].available } }

\* get_idle_peers.
IdlePeers ==
    { [node |-> n, seen |-> peers[n].seen] :
        n \in { m \in Nodes : peers[m].available /\ now - peers[m].seen < PeerTimeout } }

-----------------------------------------------------------------------------
\* distributed_search.

\* The node's own hits: none while there is no index.
LocalHits == IF Finds[Self] = {} THEN {<<>>} ELSE Finds[Self]

\* It looks into its own index, then takes the list of peers.
StartSearch ==
    /\ ~searching
    /\ searching' = TRUE
    /\ \E found \in LocalHits : hits' = found /\ sent' = ToSet(found)
    /\ todo' = IdlePeers
    /\ asked' = 0
    /\ UNCHANGED <<tableVars, asking, now>>

\* requests.post to the next peer.
Ask(p) ==
    /\ p \in todo /\ asking = NotAsking
    /\ todo' = todo \ {p}
    /\ asking' = [node |-> p.node, since |-> now]
    /\ UNCHANGED <<tableVars, searching, hits, sent, asked, now>>

\* _handle_search of that peer: it is idle, has an index and answers 200.
Answer ==
    /\ asking # NotAsking
    /\ TRUE \in Statuses
    /\ \E found \in Finds[asking.node] :
           hits' = hits \o found /\ sent' = sent \cup ToSet(found)
    /\ asking' = NotAsking
    /\ asked' = asked + 1
    /\ UNCHANGED <<tableVars, searching, todo, now>>

NoAnswer_AskAgain ==
    /\ asking # NotAsking
    /\ asking' = NotAsking
    /\ todo' = todo \cup {[node |-> asking.node, seen |-> asking.since]}
    /\ UNCHANGED <<tableVars, searching, hits, sent, asked, now>>

\* The peer is done with, and no hits came.
NextPeer ==
    /\ asking # NotAsking
    /\ asking' = NotAsking
    /\ asked' = asked + 1
    /\ UNCHANGED <<tableVars, searching, todo, hits, sent, now>>

\* _handle_search of that peer: status 503, because it is in use or has no index.
Refused == NextPeer /\ (FALSE \in Statuses \/ Finds[asking.node] = {})

\* No connection, or no answer in time.
NoAnswer == NextPeer

\* merged.sort(key=distance): it is stable.
Precedes(s, i, j) == s[i].dist < s[j].dist \/ (s[i].dist = s[j].dist /\ i < j)
Place(s, P, i) == 1 + Cardinality({ j \in P : Precedes(s, j, i) })

\* Of the positions P of s, in this order, the first TopK.
FirstOf(s, P) ==
    [n \in 1 .. IF Cardinality(P) < TopK THEN Cardinality(P) ELSE TopK |->
        s[CHOOSE i \in P : Place(s, P, i) = n]]

\* The positions at which a key comes first.
Deduped(s) ==
    { i \in DOMAIN s : \A j \in DOMAIN s : s[j].key = s[i].key => ~ Precedes(s, j, i) }

Merged_CutFirst(s) == LET t == FirstOf(s, DOMAIN s) IN FirstOf(t, Deduped(t))

\* The hits sorted by distance, each key once, the first TopK.
Merged(s) == FirstOf(s, Deduped(s))

Return ==
    /\ searching /\ todo = {} /\ asking = NotAsking
    /\ searching' = FALSE
    /\ hits' = Merged(hits)
    /\ UNCHANGED <<tableVars, todo, asking, sent, asked, now>>

-----------------------------------------------------------------------------

\* Threads that wake up do so within the tick; a request ends when its time is over.
Tick ==
    /\ now < MaxTime
    /\ now < cleanAt
    /\ asking # NotAsking => now < asking.since + RequestTimeout
    /\ searching => asking # NotAsking
    /\ now' = now + 1
    /\ UNCHANGED <<tableVars, searchVars>>

SearchStep == (\E p \in todo : Ask(p)) \/ Answer \/ Refused \/ NoAnswer \/ Return

Next ==
    \/ \E n \in Nodes : Receive(n)
    \/ Cleanup
    \/ StartSearch \/ SearchStep
    \/ Tick

\* A search that was begun goes on.
Spec == Init /\ [][Next]_vars /\ WF_vars(SearchStep)

-----------------------------------------------------------------------------

TypeOK ==
    /\ moved \in BOOLEAN
    /\ peers \in [Nodes -> [available : BOOLEAN, seen : -1..MaxTime]]
    /\ cleanAt \in 1..(MaxTime + PeerTimeout)
    /\ searching \in BOOLEAN
    /\ todo \in SUBSET PeerInfo
    /\ asking \in [node : Nodes \cup {Nobody}, since : 0..MaxTime]
    /\ hits \in Seq(Hits)
    /\ sent \in SUBSET Hits
    /\ asked \in 0..Cardinality(Nodes)
    /\ now \in 0..MaxTime

\* What distributed_search returns is the nearest of all that the node and the peers that
\* answered have found: sorted, no key twice, each key with the least distance anybody
\* gave it, and what is missing is no nearer than any of TopK hits. Each node only sends
\* a few, in an order of its own, many send the same, and the node even asks itself
\* after its address has changed.
NearestOfTheSent ==
    ~searching =>
        /\ ToSet(hits) \subseteq sent
        /\ \A i, j \in DOMAIN hits :
               i < j => hits[i].dist <= hits[j].dist /\ hits[i].key # hits[j].key
        /\ \A h \in sent :
               \/ \E i \in DOMAIN hits : hits[i].key = h.key /\ hits[i].dist <= h.dist
               \/ Len(hits) = TopK /\ \A i \in DOMAIN hits : hits[i].dist <= h.dist
        /\ Len(hits) <= TopK

\* A search lasts, and its list of peers grows old with it: still every peer it is yet
\* to ask was heard of less than PeerTimeout before the search began, and the search
\* has taken at most RequestTimeout for each peer asked so far.
AskedWereHeard ==
    \A p \in todo :
        now - p.seen < PeerTimeout
            + RequestTimeout * (asked + IF asking = NotAsking THEN 0 ELSE 1)

\* A node that is gone is forgotten: no entry is older than two rounds of
\* _cleanup_loop, whichever moment of its sleep the last beacon came in.
GoneAreForgotten ==
    \A n \in Nodes : Known(n) => now - peers[n].seen <= 2 * PeerTimeout

\* Every search returns, whatever its peers do: none is asked twice, and a request
\* that gets no answer ends with RequestTimeout.
SearchReturns == searching ~> ~searching
=============================================================================
