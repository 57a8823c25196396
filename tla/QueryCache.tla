----------------------------- MODULE QueryCache -----------------------------
(***************************************************************************)
(* The two-level cache of rag_core/query_cache.py: an LRU dictionary with  *)
(* a time to live, and a matrix of the cached vectors, rebuilt when it is  *)
(* dirty, that answers a query by the most similar cached one.             *)
(*                                                                         *)
(* get(), the locked part of put() and invalidate() hold _lock throughout  *)
(* and are one action each; put() stamps its entry before it takes the     *)
(* lock, so entries may arrive late and out of order. A vector is the      *)
(* query it embeds; Similarity says what the dot product of two gives.     *)
(* The order of the dictionary is the relation "before" on its keys.       *)
(***************************************************************************)
EXTENDS Naturals, FiniteSets

CONSTANTS
    Threads,        \* callers of the cache
    Queries,        \* query strings
    Results,        \* what searches return
    MaxEntries,     \* _max
    TTL,            \* _ttl
    Similarity,     \* dot product of two normalised query vectors
    Threshold,      \* _threshold
    MaxTime,        \* bound on the clock
    Nothing         \* no entry; None

ASSUME CacheAssumption ==
    /\ IsFiniteSet(Queries)
    /\ MaxEntries \in Nat \ {0}
    /\ TTL \in Nat
    /\ Threshold \in Nat
    /\ MaxTime \in Nat
    /\ Similarity \in [Queries -> [Queries -> Nat]]

Entry == [query : Queries, result : Results, created : Nat]

ASSUME NothingAssumption == Nothing \notin Entry

VARIABLES
    l1,        \* _l1: the entries of the dictionary
    before,    \* its order: <<p, q>> when p is nearer to eviction than q
    entries,   \* _entries_list, whose vectors are the rows of _vectors
    dirty,     \* _dirty
    now,       \* time.time()
    pending,   \* the entry a put() has made but not stored yet
    used       \* history: <<p, q>> when q was used after the last use of p

vars == <<l1, before, entries, dirty, now, pending, used>>

-----------------------------------------------------------------------------
(* The dictionary and the matrix *)

QueriesOf(S) == { e.query : e \in S }

\* Entries that _evict_expired keeps.
Unexpired(S) == { e \in S : now <= e.created + TTL }

\* The order on what is left after a removal.
OrderOn(S) == { p \in before : p[1] \in QueriesOf(S) /\ p[2] \in QueriesOf(S) }

\* move_to_end(q), or an insertion at the end.
AtEnd(S, q) ==
    { p \in OrderOn(S) : p[1] # q /\ p[2] # q } \cup { <<p, q>> : p \in QueriesOf(S) \ {q} }

\* What _evict_lru pops: the first key, if there are too many. One insertion
\* exceeds _max by one at most, so its loop runs at most once.
Evicted(S, order) ==
    { e \in S : /\ Cardinality(S) > MaxEntries
                /\ \A f \in S : f.query # e.query => <<e.query, f.query>> \in order }

\* What argmax may pick: the rows most similar to q.
BestMatches(S, q) ==
    { e \in S : \A f \in S : Similarity[q][f.query] <= Similarity[q][e.query] }

Matrix_OwnFlagOnly == IF dirty THEN Unexpired(l1) ELSE entries

\* _entries_list after the _evict_expired and _rebuild_matrix of a get(): an
\* eviction makes it dirty.
Matrix == IF dirty \/ Unexpired(l1) # l1 THEN Unexpired(l1) ELSE entries

\* The entries get(q) may answer with, none for a miss: the one of q itself, else
\* the best row of the matrix if it is similar enough.
Answers(q) ==
    LET alive == Unexpired(l1)
    IN  IF q \in QueriesOf(alive)
        THEN { e \in alive : e.query = q }
        ELSE { e \in BestMatches(Matrix, q) :
                  alive # {} /\ Similarity[q][e.query] >= Threshold }

Use(q) ==
    used' = { u \in used : u[1] # q } \cup { <<p, q>> : p \in Queries \ {q} }

-----------------------------------------------------------------------------

Init ==
    /\ l1 = {}
    /\ before = {}
    /\ entries = {}
    /\ dirty = TRUE
    /\ now = 0
    /\ pending = [t \in Threads |-> Nothing]
    /\ used = {}

Tick ==
    /\ now < MaxTime
    /\ now' = now + 1
    /\ UNCHANGED <<l1, before, entries, dirty, pending, used>>

\* What a get() leaves when it does not get to the matrix.
EvictExpired ==
    /\ l1' = Unexpired(l1)
    /\ dirty' = (dirty \/ l1' # l1)
    /\ UNCHANGED entries

\* What it leaves when it does.
RebuildMatrix ==
    /\ l1' = Unexpired(l1)
    /\ entries' = Matrix
    /\ dirty' = FALSE

\* get(q) answers with entry e, which moves to the end of the dictionary.
GetHit(q, e) ==
    /\ e \in Answers(q)
    /\ IF e.query = q THEN EvictExpired ELSE RebuildMatrix
    /\ before' = AtEnd(l1', e.query)
    /\ Use(e.query)
    /\ UNCHANGED <<now, pending>>

\* get(q) returns None: the dictionary is empty, or nothing is similar enough.
GetMiss(q) ==
    /\ Answers(q) = {}
    /\ IF Unexpired(l1) = {} THEN EvictExpired ELSE RebuildMatrix
    /\ before' = OrderOn(l1')
    /\ UNCHANGED <<now, pending, used>>

\* put() makes its entry, stamped with the time, outside the lock.
PutStamp(t, q, r) ==
    /\ pending[t] = Nothing
    /\ pending' = [pending EXCEPT ![t] = [query |-> q, result |-> r, created |-> now]]
    /\ UNCHANGED <<l1, before, entries, dirty, now, used>>

PutStore_NotDirty(t) ==
    LET e    == pending[t]
        full == { f \in l1 : f.query # e.query } \cup {e}
    IN  /\ e # Nothing
        /\ l1' = full \ Evicted(full, AtEnd(full, e.query))
        /\ before' = { p \in AtEnd(full, e.query) :
                       p[1] \in QueriesOf(l1') /\ p[2] \in QueriesOf(l1') }
        /\ pending' = [pending EXCEPT ![t] = Nothing]
        /\ Use(e.query)
        /\ UNCHANGED <<entries, now, dirty>>

\* The locked part of put(): replace or insert at the end, then _evict_lru.
PutStore(t) ==
    LET e    == pending[t]
        full == { f \in l1 : f.query # e.query } \cup {e}
    IN  /\ e # Nothing
        /\ l1' = full \ Evicted(full, AtEnd(full, e.query))
        /\ before' = { p \in AtEnd(full, e.query) :
                       p[1] \in QueriesOf(l1') /\ p[2] \in QueriesOf(l1') }
        /\ dirty' = TRUE
        /\ pending' = [pending EXCEPT ![t] = Nothing]
        /\ Use(e.query)
        /\ UNCHANGED <<entries, now>>

Invalidate_KeepsMatrix(Q) ==
    /\ l1' = { e \in l1 : e.query \notin Q }
    /\ before' = OrderOn(l1')
    /\ UNCHANGED <<entries, dirty, now, pending, used>>

\* invalidate(query) for one query, invalidate() for all of them.
Invalidate(Q) ==
    /\ l1' = { e \in l1 : e.query \notin Q }
    /\ before' = OrderOn(l1')
    /\ dirty' = TRUE
    /\ UNCHANGED <<entries, now, pending, used>>

Next ==
    \/ Tick
    \/ \E q \in Queries : GetMiss(q) \/ \E e \in Answers(q) : GetHit(q, e)
    \/ \E t \in Threads, q \in Queries, r \in Results : PutStamp(t, q, r)
    \/ \E t \in Threads : PutStore(t)
    \/ \E q \in Queries : Invalidate({q})
    \/ Invalidate(Queries)

Spec == Init /\ [][Next]_vars

-----------------------------------------------------------------------------
(* Properties *)

\* Types of the variables; a dictionary has one entry per key.
TypeOK ==
    /\ l1 \subseteq Entry
    /\ \A e, f \in l1 : e.query = f.query => e = f
    /\ before \subseteq Queries \X Queries
    /\ entries \subseteq Entry
    /\ dirty \in BOOLEAN
    /\ now \in Nat
    /\ pending \in [Threads -> Entry \cup {Nothing}]
    /\ used \subseteq Queries \X Queries

\* The dictionary never exceeds _max, in whatever order late puts come in.
Bounded == Cardinality(l1) <= MaxEntries

\* A matrix that is not dirty has a row for every entry of the dictionary and no
\* other: a similarity hit names a key that move_to_end finds.
CleanMatrix == ~ dirty => entries = l1

\* get() answers with an entry that is alive: not expired, evicted, replaced or
\* invalidated since. It is the one of the query asked, or, without one, an entry
\* that no other living entry beats in similarity.
AnswersAreBest ==
    LET alive == Unexpired(l1)
    IN  \A q \in Queries : \A e \in Answers(q) :
            /\ e \in alive
            /\ \/ e.query = q
               \/ /\ q \notin QueriesOf(alive)
                  /\ \A f \in alive : Similarity[q][f.query] <= Similarity[q][e.query]

\* get() misses only when no living entry would do.
MissesAreReal ==
    \A q \in Queries :
        Answers(q) = {} =>
            \A e \in Unexpired(l1) : e.query # q /\ Similarity[q][e.query] < Threshold

\* The dictionary's order, by which entries are evicted, is the order of last use.
EvictionOrderIsUseOrder ==
    before = { u \in used : u[1] \in QueriesOf(l1) /\ u[2] \in QueriesOf(l1) }
=============================================================================
