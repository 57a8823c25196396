----------------------- MODULE CacheAndBatcherProofs -----------------------
(***************************************************************************)
(* What holds of the semantic query cache for any queries, capacity,       *)
(* lifetime and similarity, and of the embedding batcher for any requests  *)
(* and batch size, wherever late puts, late timer callbacks and stop()     *)
(* come in.                                                                *)
(***************************************************************************)
EXTENDS QueryCache, EmbeddingBatcher,
        FiniteSetTheorems, SequenceTheorems, WellFoundedInduction, TLAPS

\* An order that ranks the keys of S, each pair one way.
Ranks(order, S) ==
    /\ order \subseteq QueriesOf(S) \X QueriesOf(S)
    /\ \A p \in QueriesOf(S) : <<p, p>> \notin order
    /\ \A p, q, r \in QueriesOf(S) :
          <<p, q>> \in order /\ <<q, r>> \in order => <<p, r>> \in order
    /\ \A p, q \in QueriesOf(S) :
          p # q => <<p, q>> \in order \/ <<q, p>> \in order

\* The dictionary is finite and its order ranks all of its keys; without that an
\* insertion into a full dictionary might have no first key to pop.
IInv ==
    /\ TypeOK
    /\ IsFiniteSet(l1)
    /\ Bounded
    /\ CleanMatrix
    /\ Ranks(before, l1)
    /\ EvictionOrderIsUseOrder

-----------------------------------------------------------------------------
(* The order of the dictionary *)

\* Removing keys keeps a ranking.
LEMMA RanksSubset ==
    ASSUME NEW S, NEW T, T \subseteq S, NEW order, Ranks(order, S)
    PROVE  Ranks({ p \in order : p[1] \in QueriesOf(T) /\ p[2] \in QueriesOf(T) }, T)
<1>1. QueriesOf(T) \subseteq QueriesOf(S)
  BY DEF QueriesOf
<1> QED
  BY <1>1 DEF Ranks

\* Removals and a move to the end, or an insertion there, keep a ranking.
LEMMA RanksAtEnd ==
    ASSUME Ranks(before, l1), NEW S, NEW q \in QueriesOf(S),
           QueriesOf(S) \subseteq QueriesOf(l1) \cup {q}
    PROVE  Ranks(AtEnd(S, q), S)
<1> DEFINE Q == QueriesOf(S)
           R == AtEnd(S, q)
<1>1. R \subseteq Q \X Q
  BY DEF AtEnd, OrderOn, Ranks
<1>2. \A u, v \in Q : <<u, v>> \in R <=>
          u # q /\ (v = q \/ <<u, v>> \in before)
  BY DEF AtEnd, OrderOn, Ranks
<1>3. \A u \in Q : <<u, u>> \notin R
  BY <1>2 DEF Ranks
<1>4. \A u, v \in Q : u # v => <<u, v>> \in R \/ <<v, u>> \in R
  <2> TAKE u, v \in Q
  <2> HAVE u # v
  <2>1. CASE u = q \/ v = q
    BY <2>1, <1>2
  <2>2. CASE u # q /\ v # q
    BY <2>2, <1>2 DEF Ranks
  <2> QED
    BY <2>1, <2>2
<1>5. ASSUME NEW u \in Q, NEW v \in Q, NEW w \in Q, <<u, v>> \in R, <<v, w>> \in R
      PROVE  <<u, w>> \in R
  <2>1. u # q /\ v # q
    BY <1>5, <1>2
  <2>2. CASE w = q
    BY <2>1, <2>2, <1>2
  <2>3. CASE w # q
    <3>1. <<u, v>> \in before /\ <<v, w>> \in before
      BY <2>1, <2>3, <1>2, <1>5
    <3> QED
      BY <3>1, <2>1, <2>3, <1>2 DEF Ranks
  <2> QED
    BY <2>2, <2>3
<1> QED
  BY <1>1, <1>3, <1>4, <1>5 DEF Ranks

\* A finite dictionary that is not empty has a first key: one whose predecessors
\* are the fewest.
LEMMA FirstExists ==
    ASSUME NEW S, IsFiniteSet(S), S # {}, NEW order, Ranks(order, S)
    PROVE  \E e \in S : \A f \in S : f.query # e.query => <<e.query, f.query>> \in order
<1> DEFINE Pred(e) == { f \in S : <<f.query, e.query>> \in order }
           T == { Pred(e) : e \in S }
<1>1. T \subseteq FiniteSubsetsOf(S) /\ T # {}
  <2>1. \A e \in S : Pred(e) \in SUBSET S /\ IsFiniteSet(Pred(e))
    BY FS_Subset
  <2> QED
    BY <2>1 DEF FiniteSubsetsOf
<1>2. PICK x \in T : \A y \in T : <<y, x>> \notin StrictSubsetOrdering(S)
  <2> HIDE DEF T
  <2> QED
    BY <1>1, FS_StrictSubsetOrderingWellFounded, WFMin
<1>3. PICK e \in S : x = Pred(e)
  BY <1>2
<1>4. ASSUME NEW f \in S, <<f.query, e.query>> \in order
      PROVE  FALSE
  <2>1. f.query \in QueriesOf(S) /\ e.query \in QueriesOf(S)
        /\ \A g \in S : g.query \in QueriesOf(S)
    BY DEF QueriesOf
  <2>2. Pred(f) \subseteq Pred(e)
    BY <2>1, <1>4 DEF Ranks
  <2>3. f \in Pred(e) /\ f \notin Pred(f)
    BY <2>1, <1>4 DEF Ranks
  <2>4. <<Pred(f), Pred(e)>> \in StrictSubsetOrdering(S)
    BY <2>2, <2>3 DEF StrictSubsetOrdering
  <2> QED
    BY <2>4, <1>2, <1>3
<1>5. \A f \in S : f.query # e.query => <<e.query, f.query>> \in order
  <2>1. \A f \in S : f.query \in QueriesOf(S)
    BY DEF QueriesOf
  <2> QED
    BY <2>1, <1>4 DEF Ranks
<1> QED
  BY <1>5

\* A matrix that is not empty has a most similar row: one that the fewest rows beat.
LEMMA BestExists ==
    ASSUME NEW S \in SUBSET Entry, IsFiniteSet(S), S # {}, NEW q \in Queries
    PROVE  BestMatches(S, q) # {}
<1> DEFINE sim(e) == Similarity[q][e.query]
           Better(e) == { f \in S : sim(f) > sim(e) }
           T == { Better(e) : e \in S }
<1>0. \A e \in S : sim(e) \in Nat
  BY CacheAssumption DEF Entry
<1>1. T \subseteq FiniteSubsetsOf(S) /\ T # {}
  <2>1. \A e \in S : Better(e) \in SUBSET S /\ IsFiniteSet(Better(e))
    BY FS_Subset
  <2> QED
    BY <2>1 DEF FiniteSubsetsOf
<1>2. PICK x \in T : \A y \in T : <<y, x>> \notin StrictSubsetOrdering(S)
  <2> HIDE DEF T
  <2> QED
    BY <1>1, FS_StrictSubsetOrderingWellFounded, WFMin
<1>3. PICK e \in S : x = Better(e)
  BY <1>2
<1>4. ASSUME NEW f \in S, sim(f) > sim(e)
      PROVE  FALSE
  <2> HIDE DEF sim
  <2>1. Better(f) \subseteq Better(e)
    BY <1>0, <1>4
  <2>2. f \in Better(e) /\ f \notin Better(f)
    BY <1>0, <1>4
  <2>3. <<Better(f), Better(e)>> \in StrictSubsetOrdering(S)
    BY <2>1, <2>2 DEF StrictSubsetOrdering
  <2> QED
    BY <2>3, <1>2, <1>3
<1>5. \A f \in S : sim(f) <= sim(e)
  BY <1>0, <1>4
<1> QED
  BY <1>5 DEF BestMatches

-----------------------------------------------------------------------------
(* The invariant *)

\* The invariant holds of a new cache.
LEMMA InitInv == Init => IInv
<1> SUFFICES ASSUME Init PROVE IInv
  OBVIOUS
<1>1. TypeOK
  BY DEF Init, TypeOK, Entry
<1>2. IsFiniteSet(l1) /\ Cardinality(l1) = 0
  BY FS_EmptySet DEF Init
<1>3. Bounded
  BY <1>2, CacheAssumption DEF Bounded
<1>4. CleanMatrix /\ Ranks(before, l1) /\ EvictionOrderIsUseOrder
  BY DEF Init, CleanMatrix, Ranks, QueriesOf, EvictionOrderIsUseOrder
<1> QED
  BY <1>1, <1>2, <1>3, <1>4 DEF IInv

\* What expires leaves a smaller dictionary.
LEMMA UnexpiredSmaller ==
    ASSUME IInv
    PROVE  /\ Unexpired(l1) \subseteq l1
           /\ IsFiniteSet(Unexpired(l1))
           /\ Cardinality(Unexpired(l1)) <= MaxEntries
<1>1. Unexpired(l1) \subseteq l1
  BY DEF Unexpired
<1>2. IsFiniteSet(Unexpired(l1)) /\ Cardinality(Unexpired(l1)) <= Cardinality(l1)
  BY <1>1, FS_Subset DEF IInv
<1>3. Cardinality(Unexpired(l1)) \in Nat /\ Cardinality(l1) \in Nat
  BY <1>2, FS_CardinalityType DEF IInv
<1> QED
  BY <1>1, <1>2, <1>3, CacheAssumption DEF IInv, Bounded

\* A clean matrix is the dictionary, and a dirty one is rebuilt from it.
LEMMA MatrixIsAlive ==
    ASSUME IInv
    PROVE  Matrix = Unexpired(l1)
<1>1. CASE dirty
  BY <1>1 DEF Matrix
<1>2. CASE ~ dirty /\ Unexpired(l1) = l1
  BY <1>2 DEF Matrix, IInv, CleanMatrix
<1>3. CASE Unexpired(l1) # l1
  BY <1>3 DEF Matrix
<1> QED
  BY <1>1, <1>2, <1>3

\* Both ways a get() can leave dictionary and matrix.
LEMMA GetLeaves ==
    ASSUME IInv, EvictExpired \/ RebuildMatrix
    PROVE  /\ l1' = Unexpired(l1) /\ l1' \subseteq l1
           /\ IsFiniteSet(l1') /\ Bounded' /\ CleanMatrix'
           /\ l1' \subseteq Entry /\ entries' \subseteq Entry /\ dirty' \in BOOLEAN
           /\ \A e, f \in l1' : e.query = f.query => e = f
<1>1. l1' = Unexpired(l1)
  BY DEF EvictExpired, RebuildMatrix
<1>2. l1' \subseteq l1 /\ IsFiniteSet(l1') /\ Bounded'
  BY <1>1, UnexpiredSmaller DEF Bounded
<1>3. CleanMatrix' /\ entries' \subseteq Entry /\ dirty' \in BOOLEAN
  <2>1. CASE EvictExpired
    BY <2>1 DEF EvictExpired, CleanMatrix, IInv, TypeOK
  <2>2. CASE RebuildMatrix
    BY <2>2, <1>1, <1>2, MatrixIsAlive DEF RebuildMatrix, CleanMatrix, IInv, TypeOK
  <2> QED
    BY <2>1, <2>2
<1> QED
  BY <1>1, <1>2, <1>3 DEF IInv, TypeOK

\* The clock and the entries being made do not matter to the cache.
LEMMA CacheUnchanged ==
    ASSUME IInv, TypeOK',
           l1' = l1 /\ before' = before /\ entries' = entries /\ dirty' = dirty /\ used' = used
    PROVE  IInv'
<1>1. IsFiniteSet(l1') /\ Bounded' /\ CleanMatrix'
  BY DEF IInv, Bounded, CleanMatrix
<1>2. Ranks(before', l1')
  BY DEF IInv, Ranks, QueriesOf
<1>3. EvictionOrderIsUseOrder'
  BY DEF IInv, EvictionOrderIsUseOrder, QueriesOf
<1> QED
  BY <1>1, <1>2, <1>3 DEF IInv

\* Every call of the cache preserves the invariant.
LEMMA NextInv == IInv /\ [Next]_vars => IInv'
<1> SUFFICES ASSUME IInv, [Next]_vars PROVE IInv'
  OBVIOUS
<1>1. ASSUME NEW q \in Queries, NEW e \in Answers(q), GetHit(q, e)
      PROVE  IInv'
  <2>1. EvictExpired \/ RebuildMatrix
    BY <1>1 DEF GetHit
  <2>2. e \in l1' /\ e.query \in QueriesOf(l1') /\ e.query \in Queries
    <3>1. e \in Unexpired(l1)
      BY MatrixIsAlive DEF Answers, BestMatches
    <3> QED
      BY <3>1, <2>1, GetLeaves DEF QueriesOf, Entry
  <2>3. QueriesOf(l1') \subseteq QueriesOf(l1) /\ QueriesOf(l1') \subseteq Queries
    BY <2>1, GetLeaves DEF QueriesOf, Entry
  <2>4. before' = AtEnd(l1', e.query)
        /\ used' = { u \in used : u[1] # e.query } \cup { <<p, e.query>> : p \in Queries \ {e.query} }
        /\ UNCHANGED <<now, pending>>
    BY <1>1 DEF GetHit, Use
  <2>5. Ranks(before', l1')
    <3>1. Ranks(before, l1)
      BY DEF IInv
    <3> QED
      BY <3>1, <2>2, <2>3, <2>4, RanksAtEnd
  <2>6. TypeOK'
    <3>1. before' \subseteq Queries \X Queries
      BY <2>5, <2>3 DEF Ranks
    <3>2. used' \subseteq Queries \X Queries
      BY <2>2, <2>4 DEF IInv, TypeOK
    <3> QED
      BY <3>1, <3>2, <2>1, <2>4, GetLeaves DEF IInv, TypeOK
  <2>7. EvictionOrderIsUseOrder'
    BY <2>2, <2>3, <2>4 DEF EvictionOrderIsUseOrder, AtEnd, OrderOn, IInv, TypeOK
  <2> QED
    BY <2>1, <2>5, <2>6, <2>7, GetLeaves DEF IInv
<1>2. ASSUME NEW q \in Queries, GetMiss(q)
      PROVE  IInv'
  <2>1. EvictExpired \/ RebuildMatrix
    BY <1>2 DEF GetMiss
  <2>2. before' = OrderOn(l1') /\ UNCHANGED <<now, pending, used>>
    BY <1>2 DEF GetMiss
  <2>3. Ranks(before', l1')
    <3>1. Ranks(before, l1) /\ l1' \subseteq l1
      BY <2>1, GetLeaves DEF IInv
    <3> QED
      BY <3>1, <2>2, RanksSubset DEF OrderOn
  <2>4. TypeOK'
    BY <2>1, <2>2, GetLeaves DEF IInv, TypeOK, OrderOn
  <2>5. EvictionOrderIsUseOrder'
    <3>1. QueriesOf(l1') \subseteq QueriesOf(l1)
      BY <2>1, GetLeaves DEF QueriesOf
    <3> QED
      BY <3>1, <2>2 DEF EvictionOrderIsUseOrder, OrderOn, IInv
  <2> QED
    BY <2>1, <2>3, <2>4, <2>5, GetLeaves DEF IInv
<1>3. ASSUME NEW t \in Threads, PutStore(t)
      PROVE  IInv'
  <2> DEFINE e     == pending[t]
             rest  == { f \in l1 : f.query # e.query }
             full  == rest \cup {e}
             order == AtEnd(full, e.query)
  <2>1. e \in Entry /\ e.query \in Queries
    BY <1>3 DEF PutStore, IInv, TypeOK, Entry
  <2>2. /\ l1' = full \ Evicted(full, order)
        /\ before' = { p \in order : p[1] \in QueriesOf(l1') /\ p[2] \in QueriesOf(l1') }
        /\ dirty' = TRUE
        /\ pending' = [pending EXCEPT ![t] = Nothing]
        /\ used' = { u \in used : u[1] # e.query } \cup { <<p, e.query>> : p \in Queries \ {e.query} }
        /\ UNCHANGED <<entries, now>>
    BY <1>3 DEF PutStore, Use
  <2>3. /\ l1' \subseteq full /\ full \subseteq Entry
        /\ e.query \in QueriesOf(full)
        /\ QueriesOf(full) \subseteq QueriesOf(l1) \cup {e.query}
        /\ QueriesOf(full) \subseteq Queries /\ QueriesOf(l1') \subseteq QueriesOf(full)
    <3>1. l1' \subseteq full /\ full \subseteq Entry
      BY <2>1, <2>2 DEF IInv, TypeOK
    <3> QED
      BY <3>1 DEF QueriesOf, Entry
  <2>4. Ranks(order, full)
    BY <2>3, RanksAtEnd DEF IInv
  <2>5. IsFiniteSet(full) /\ Cardinality(full) <= MaxEntries + 1
    <3>1. rest \in SUBSET l1
      OBVIOUS
    <3>2. IsFiniteSet(rest) /\ Cardinality(rest) <= Cardinality(l1)
      BY <3>1, FS_Subset DEF IInv
    <3>3. Cardinality(rest) \in Nat /\ Cardinality(l1) \in Nat
      BY <3>2, FS_CardinalityType DEF IInv
    <3>4. IsFiniteSet(full) /\ Cardinality(full) <= Cardinality(rest) + 1
      BY <3>2, <3>3, FS_AddElement
    <3>5. Cardinality(full) \in Nat
      BY <3>4, FS_CardinalityType
    <3> QED
      BY <3>2, <3>3, <3>4, <3>5, CacheAssumption DEF IInv, Bounded
  <2> HIDE DEF full, order
  <2>6. IsFiniteSet(l1') /\ Bounded'
    <3>1. IsFiniteSet(l1')
      BY <2>3, <2>5, FS_Subset
    <3>2. Cardinality(full) \in Nat /\ Cardinality(l1') \in Nat
      BY <3>1, <2>5, FS_CardinalityType
    <3>3. CASE Cardinality(full) <= MaxEntries
      <4>1. Cardinality(l1') <= Cardinality(full)
        BY <2>3, <2>5, FS_Subset
      <4> QED
        BY <4>1, <3>1, <3>2, <3>3, CacheAssumption DEF Bounded
    <3>4. CASE Cardinality(full) > MaxEntries
      <4>1. full # {}
        BY <2>3 DEF QueriesOf
      <4>2. PICK g \in full :
              \A f \in full : f.query # g.query => <<g.query, f.query>> \in order
        BY <4>1, <2>4, <2>5, FirstExists
      <4>3. g \in Evicted(full, order)
        BY <4>2, <3>4 DEF Evicted
      <4>4. l1' \in SUBSET (full \ {g})
        BY <4>3, <2>2
      <4>5. IsFiniteSet(full \ {g}) /\ Cardinality(full \ {g}) = Cardinality(full) - 1
        BY <4>2, <2>5, FS_RemoveElement
      <4>6. Cardinality(l1') <= Cardinality(full \ {g})
        BY <4>4, <4>5, FS_Subset
      <4> QED
        BY <4>5, <4>6, <3>1, <3>2, <2>5, CacheAssumption DEF Bounded
    <3> QED
      BY <3>2, <3>3, <3>4, CacheAssumption
  <2>7. Ranks(before', l1')
    <3>1. l1' \subseteq full
      BY <2>3
    <3>2. Ranks({ p \in order : p[1] \in QueriesOf(l1') /\ p[2] \in QueriesOf(l1') }, l1')
      BY <3>1, <2>4, RanksSubset
    <3> QED
      BY <3>2, <2>2
  <2>8. TypeOK'
    <3>0. before' \subseteq QueriesOf(l1') \X QueriesOf(l1')
      BY <2>7 DEF Ranks
    <3>1. before' \subseteq Queries \X Queries /\ used' \subseteq Queries \X Queries
      <4>1. QueriesOf(l1') \subseteq Queries
        BY <2>3
      <4>2. used \subseteq Queries \X Queries
        BY DEF IInv, TypeOK
      <4> QED
        BY <4>1, <4>2, <3>0, <2>1, <2>2
    <3>2. \A f, g \in l1' : f.query = g.query => f = g
      BY <2>3 DEF full, IInv, TypeOK
    <3>3. pending' \in [Threads -> Entry \cup {Nothing}]
      BY <2>2 DEF IInv, TypeOK
    <3> QED
      BY <3>1, <3>2, <3>3, <2>2, <2>3 DEF IInv, TypeOK
  <2>9. CleanMatrix'
    BY <2>2 DEF CleanMatrix
  <2>10. EvictionOrderIsUseOrder'
    <3>1. \A p, q \in QueriesOf(full) : <<p, q>> \in order <=>
             p # e.query /\ (q = e.query \/ <<p, q>> \in before)
      BY <2>3 DEF order, AtEnd, OrderOn, IInv, Ranks
    <3>2. \A p, q \in QueriesOf(l1') : <<p, q>> \in before' <=>
             p # e.query /\ (q = e.query \/ <<p, q>> \in before)
      BY <3>1, <2>2, <2>3
    <3>3. \A p, q \in QueriesOf(l1') : p # e.query /\ q # e.query =>
             p \in QueriesOf(l1) /\ q \in QueriesOf(l1)
      BY <2>3
    <3>4. \A p, q \in QueriesOf(l1') : <<p, q>> \in used' <=>
             p # e.query /\ (q = e.query \/ <<p, q>> \in used)
      BY <2>2, <2>3
    <3>5. \A p, q \in QueriesOf(l1') : <<p, q>> \in before' <=> <<p, q>> \in used'
      BY <3>2, <3>3, <3>4 DEF EvictionOrderIsUseOrder, IInv
    <3>6. before' \subseteq QueriesOf(l1') \X QueriesOf(l1') /\ used' \subseteq Queries \X Queries
      BY <2>7, <2>8 DEF Ranks, TypeOK
    <3> QED
      BY <3>5, <3>6 DEF EvictionOrderIsUseOrder
  <2> QED
    BY <2>6, <2>7, <2>8, <2>9, <2>10 DEF IInv
<1>4. ASSUME NEW Q \in SUBSET Queries, Invalidate(Q)
      PROVE  IInv'
  <2>1. /\ l1' = { e \in l1 : e.query \notin Q } /\ before' = OrderOn(l1')
        /\ dirty' = TRUE /\ UNCHANGED <<entries, now, pending, used>>
    BY <1>4 DEF Invalidate
  <2>2. l1' \in SUBSET l1 /\ QueriesOf(l1') \subseteq QueriesOf(l1)
    BY <2>1 DEF QueriesOf
  <2>3. IsFiniteSet(l1') /\ Cardinality(l1') <= Cardinality(l1)
    BY <2>2, FS_Subset DEF IInv
  <2>4. Bounded'
    BY <2>3, FS_CardinalityType, CacheAssumption DEF IInv, Bounded
  <2>5. Ranks(before', l1')
    BY <2>1, <2>2, RanksSubset DEF IInv, OrderOn
  <2>6. TypeOK' /\ CleanMatrix' /\ EvictionOrderIsUseOrder'
    BY <2>1, <2>2 DEF IInv, TypeOK, CleanMatrix, EvictionOrderIsUseOrder, OrderOn
  <2> QED
    BY <2>3, <2>4, <2>5, <2>6 DEF IInv
<1>5. ASSUME NEW t \in Threads, NEW q \in Queries, NEW r \in Results, PutStamp(t, q, r)
      PROVE  IInv'
  <2>1. [query |-> q, result |-> r, created |-> now] \in Entry
    BY DEF IInv, TypeOK, Entry
  <2>2. l1' = l1 /\ before' = before /\ entries' = entries /\ dirty' = dirty /\ used' = used
    BY <1>5 DEF PutStamp
  <2>3. TypeOK'
    BY <2>1, <2>2, <1>5 DEF PutStamp, IInv, TypeOK
  <2> QED
    BY <2>2, <2>3, CacheUnchanged
<1>6. CASE Tick
  <2>1. l1' = l1 /\ before' = before /\ entries' = entries /\ dirty' = dirty /\ used' = used
    BY <1>6 DEF Tick
  <2>2. TypeOK'
    BY <1>6 DEF Tick, IInv, TypeOK
  <2> QED
    BY <2>1, <2>2, CacheUnchanged
<1>7. CASE UNCHANGED vars
  <2>1. l1' = l1 /\ before' = before /\ entries' = entries /\ dirty' = dirty /\ used' = used
    BY <1>7 DEF vars
  <2>2. TypeOK'
    BY <1>7 DEF vars, IInv, TypeOK
  <2> QED
    BY <2>1, <2>2, CacheUnchanged
<1> QED
  BY <1>1, <1>2, <1>3, <1>4, <1>5, <1>6, <1>7 DEF Next

\* The inductive invariant holds throughout: types, bound, matrix and order.
THEOREM SpecInv == Spec => []IInv
  BY InitInv, NextInv, PTL DEF Spec

-----------------------------------------------------------------------------
(* The properties *)

\* Types, and one entry per key of the dictionary.
THEOREM CacheTypes == Spec => []TypeOK
<1>1. IInv => TypeOK
  BY DEF IInv
<1> QED
  BY <1>1, SpecInv, PTL

\* The dictionary never holds more than _max entries.
THEOREM CacheBounded == Spec => []Bounded
<1>1. IInv => Bounded
  BY DEF IInv
<1> QED
  BY <1>1, SpecInv, PTL

\* A matrix that is not dirty is the dictionary.
THEOREM MatrixCoherent == Spec => []CleanMatrix
<1>1. IInv => CleanMatrix
  BY DEF IInv
<1> QED
  BY <1>1, SpecInv, PTL

\* The key popped when the dictionary is full is the least recently used one.
THEOREM EvictsLeastRecent == Spec => []EvictionOrderIsUseOrder
<1>1. IInv => EvictionOrderIsUseOrder
  BY DEF IInv
<1> QED
  BY <1>1, SpecInv, PTL

\* Every answer is alive and the best one there is.
THEOREM AnswersAlive == Spec => []AnswersAreBest
<1>1. IInv => AnswersAreBest
  BY MatrixIsAlive DEF Answers, AnswersAreBest, BestMatches
<1> QED
  BY <1>1, SpecInv, PTL

\* A get() that returns None had no living entry to return.
THEOREM MissesJustified == Spec => []MissesAreReal
<1>1. IInv => MissesAreReal
  <2> SUFFICES ASSUME IInv, NEW q \in Queries, Answers(q) = {}, NEW e \in Unexpired(l1)
               PROVE  e.query # q /\ Similarity[q][e.query] < Threshold
    BY DEF MissesAreReal
  <2>1. q \notin QueriesOf(Unexpired(l1))
    BY DEF Answers, QueriesOf
  <2>2. e.query # q
    BY <2>1 DEF QueriesOf
  <2>3. /\ Matrix = Unexpired(l1) /\ IsFiniteSet(Unexpired(l1))
        /\ Unexpired(l1) \subseteq Entry /\ Unexpired(l1) # {}
    BY MatrixIsAlive, UnexpiredSmaller DEF IInv, TypeOK
  <2>4. PICK b \in Unexpired(l1) : b \in BestMatches(Unexpired(l1), q)
    BY <2>3, BestExists DEF BestMatches
  <2>5. ~(Similarity[q][b.query] >= Threshold)
    BY <2>1, <2>3, <2>4 DEF Answers
  <2>6. Similarity[q][e.query] <= Similarity[q][b.query]
    BY <2>4 DEF BestMatches
  <2>7. Similarity[q][e.query] \in Nat /\ Similarity[q][b.query] \in Nat /\ Threshold \in Nat
    BY <2>3, CacheAssumption DEF Entry
  <2> QED
    BY <2>2, <2>5, <2>6, <2>7
<1> QED
  BY <1>1, SpecInv, PTL

-----------------------------------------------------------------------------
(* The batcher *)

\* A batch has 1 .. MAX_BATCH_SIZE requests; a cancelled timer stays in place only
\* after stop().
BatcherInv ==
    /\ BatcherTypeOK
    /\ \A b \in batches : Len(b) \in 1 .. MAX_BATCH_SIZE
    /\ timer = "cancelled" => stopped
    /\ TimerWhenQueued

\* The part of the state a flush or an addition to the queue changes.
QueueInv ==
    /\ queue \in Seq(Requests)
    /\ timer \in {"none", "waiting", "fired"}
    /\ late \in Nat
    /\ batches \subseteq Seq(Requests)
    /\ \A b \in batches : Len(b) \in 1 .. MAX_BATCH_SIZE
    /\ queue # << >> <=> timer \in {"waiting", "fired"}

\* _flush_locked leaves a timer exactly when it leaves requests, and a batch within
\* the limit, whatever the queue and the timer were.
LEMMA FlushLockedCorrect ==
    ASSUME batches \subseteq Seq(Requests),
           \A b \in batches : Len(b) \in 1 .. MAX_BATCH_SIZE,
           NEW q \in Seq(Requests), NEW n \in Nat,
           q = << >> => queue = << >>,
           FlushLocked(q, n)
    PROVE  QueueInv'
<1> DEFINE size == IF Len(q) < MAX_BATCH_SIZE THEN Len(q) ELSE MAX_BATCH_SIZE
           rest == SubSeq(q, size + 1, Len(q))
<1>1. CASE q = << >>
  <2>1. queue' = << >> /\ batches' = batches /\ timer' = "none" /\ late' = n
    BY <1>1 DEF FlushLocked
  <2> QED
    BY <2>1 DEF QueueInv
<1>2. CASE q # << >>
  <2>1. /\ late' = n
        /\ batches' = batches \cup {SubSeq(q, 1, size)}
        /\ queue' = rest
        /\ timer' = IF rest = << >> THEN "none" ELSE "waiting"
    BY <1>2 DEF FlushLocked
  <2>2. Len(q) \in Nat \ {0} /\ size \in 1 .. MAX_BATCH_SIZE /\ size <= Len(q)
    BY <1>2, LenProperties, EmptySeq, BatcherAssumption
  <2>3. \A i \in 1 .. Len(q) : q[i] \in Requests
    BY ElementOfSeq
  <2>4. SubSeq(q, 1, size) \in Seq(Requests) /\ Len(SubSeq(q, 1, size)) = size
    BY <2>2, <2>3, SubSeqProperties
  <2>5. rest \in Seq(Requests)
    BY <2>2, <2>3, SubSeqProperties
  <2> HIDE DEF size, rest
  <2> QED
    BY <2>1, <2>2, <2>4, <2>5 DEF QueueInv
<1> QED
  BY <1>1, <1>2

\* submit() and submit_batch() leave a timer for what they leave in the queue.
LEMMA AddToQueueCorrect ==
    ASSUME BatcherInv, NEW q \in Seq(Requests), q # << >>, NEW start \in BOOLEAN,
           ~ stopped => (start <=> queue = << >>),
           AddToQueue(q, start)
    PROVE  /\ queue' \in Seq(Requests)
           /\ timer' \in {"none", "waiting", "fired", "cancelled"}
           /\ late' \in Nat
           /\ batches' \subseteq Seq(Requests)
           /\ \A b \in batches' : Len(b) \in 1 .. MAX_BATCH_SIZE
           /\ timer' = "cancelled" => timer = "cancelled"
           /\ ~ stopped => (queue' # << >> <=> timer' \in {"waiting", "fired"})
<1>1. CASE Len(q) >= MAX_BATCH_SIZE
  <2>1. FlushLocked(q, CallbacksAfterCancel(late)) /\ CallbacksAfterCancel(late) \in Nat
    BY <1>1, LenProperties, BatcherAssumption DEF AddToQueue, CallbacksAfterCancel, BatcherInv, BatcherTypeOK
  <2>2. QueueInv'
    BY <2>1, FlushLockedCorrect DEF BatcherInv, BatcherTypeOK
  <2> QED
    BY <2>2 DEF QueueInv
<1>2. CASE Len(q) < MAX_BATCH_SIZE
  <2>1. /\ queue' = q
        /\ timer' = IF start THEN "waiting" ELSE timer
        /\ UNCHANGED <<late, batches>>
    BY <1>2, LenProperties, BatcherAssumption DEF AddToQueue
  <2> QED
    BY <2>1 DEF BatcherInv, BatcherTypeOK, TimerWhenQueued
<1> QED
  BY <1>1, <1>2, LenProperties, BatcherAssumption

\* The invariant holds of a new batcher.
LEMMA InitBatcherInv == InitBatcher => BatcherInv
<1> SUFFICES ASSUME InitBatcher PROVE BatcherInv
  OBVIOUS
<1>1. BatcherTypeOK
  BY EmptySeq DEF InitBatcher, BatcherTypeOK
<1>2. ~ stopped /\ timer = "none" /\ queue = << >> /\ batches = {}
  BY DEF InitBatcher
<1> QED
  BY <1>1, <1>2 DEF BatcherInv, TimerWhenQueued

\* Every call, timer and batch thread preserves the invariant.
LEMMA NextBatcherInv == BatcherInv /\ [NextBatcher]_batcherVars => BatcherInv'
<1> SUFFICES ASSUME BatcherInv, [NextBatcher]_batcherVars PROVE BatcherInv'
  OBVIOUS
<1>1. ASSUME NEW r \in Requests, Submit(r)
      PROVE  BatcherInv'
  <2>1. /\ future' = [future EXCEPT ![r] = "pending"]
        /\ AddToQueue(Append(queue, r), queue = << >>)
        /\ stopped' = stopped
    BY <1>1 DEF Submit
  <2>2. Append(queue, r) \in Seq(Requests) /\ Append(queue, r) # << >>
    BY AppendProperties DEF BatcherInv, BatcherTypeOK
  <2>3. (queue = << >>) \in BOOLEAN
    OBVIOUS
  <2>4. /\ queue' \in Seq(Requests)
        /\ timer' \in {"none", "waiting", "fired", "cancelled"}
        /\ late' \in Nat
        /\ batches' \subseteq Seq(Requests)
        /\ \A b \in batches' : Len(b) \in 1 .. MAX_BATCH_SIZE
        /\ timer' = "cancelled" => timer = "cancelled"
        /\ ~ stopped => (queue' # << >> <=> timer' \in {"waiting", "fired"})
    BY <2>1, <2>2, <2>3, AddToQueueCorrect
  <2> QED
    BY <2>1, <2>2, <2>4 DEF BatcherInv, BatcherTypeOK, TimerWhenQueued
<1>2. ASSUME NEW s \in Bundles, SubmitBatch(s)
      PROVE  BatcherInv'
  <2>1. /\ future' = [r \in Requests |-> IF r \in ToSet(s) THEN "pending" ELSE future[r]]
        /\ AddToQueue(queue \o s, timer = "none")
        /\ stopped' = stopped
    BY <1>2 DEF SubmitBatch
  <2>2. queue \o s \in Seq(Requests) /\ queue \o s # << >>
    <3>1. s \in Seq(Requests) /\ Len(s) > 0 /\ Len(queue) \in Nat
      BY BatcherAssumption, EmptySeq, LenProperties DEF BatcherInv, BatcherTypeOK
    <3>2. queue \o s \in Seq(Requests) /\ Len(queue \o s) = Len(queue) + Len(s)
      BY <3>1, ConcatProperties DEF BatcherInv, BatcherTypeOK
    <3> QED
      BY <3>1, <3>2, EmptySeq, LenProperties
  <2>3. (timer = "none") \in BOOLEAN
    OBVIOUS
  <2>4. ~ stopped => (timer = "none" <=> queue = << >>)
    BY DEF BatcherInv, BatcherTypeOK, TimerWhenQueued
  <2>5. /\ queue' \in Seq(Requests)
        /\ timer' \in {"none", "waiting", "fired", "cancelled"}
        /\ late' \in Nat
        /\ batches' \subseteq Seq(Requests)
        /\ \A b \in batches' : Len(b) \in 1 .. MAX_BATCH_SIZE
        /\ timer' = "cancelled" => timer = "cancelled"
        /\ ~ stopped => (queue' # << >> <=> timer' \in {"waiting", "fired"})
    BY <2>1, <2>2, <2>3, <2>4, AddToQueueCorrect
  <2>6. future' \in [Requests -> {"none", "pending", "vector", "exception"}]
    BY <2>1 DEF BatcherInv, BatcherTypeOK
  <2> QED
    BY <2>1, <2>2, <2>5, <2>6 DEF BatcherInv, BatcherTypeOK, TimerWhenQueued
<1>3. CASE TimerFires
  BY <1>3 DEF TimerFires, BatcherInv, BatcherTypeOK, TimerWhenQueued
<1>4. CASE TimerCallback \/ LateCallback
  <2>1. PICK n \in Nat : FlushLocked(queue, n)
    <3>1. CASE TimerCallback
      BY <3>1 DEF TimerCallback, BatcherInv, BatcherTypeOK
    <3>2. CASE LateCallback
      <4>1. CallbacksAfterCancel(late - 1) \in Nat
        BY <3>2 DEF LateCallback, CallbacksAfterCancel, BatcherInv, BatcherTypeOK
      <4> QED
        BY <4>1, <3>2 DEF LateCallback
    <3> QED
      BY <1>4, <3>1, <3>2
  <2>2. QueueInv'
    BY <2>1, FlushLockedCorrect DEF BatcherInv, BatcherTypeOK
  <2>3. UNCHANGED <<future, stopped>>
    BY <1>4 DEF TimerCallback, LateCallback
  <2> QED
    BY <2>2, <2>3 DEF QueueInv, BatcherInv, BatcherTypeOK, TimerWhenQueued
<1>5. ASSUME NEW b \in batches, SetResult(b)
      PROVE  BatcherInv'
  <2>1. b \in Seq(Requests) /\ Len(b) \in 1 .. MAX_BATCH_SIZE /\ b # << >>
    BY EmptySeq DEF BatcherInv, BatcherTypeOK
  <2>2. Tail(b) \in Seq(Requests) /\ Len(Tail(b)) = Len(b) - 1
    BY <2>1, HeadTailProperties
  <2>3. /\ batches' = (batches \ {b}) \cup (IF Len(b) = 1 THEN {} ELSE {Tail(b)})
        /\ future' = [future EXCEPT ![Head(b)] = "vector"]
        /\ UNCHANGED <<queue, timer, late, stopped>>
    BY <1>5 DEF SetResult
  <2>4. batches' \subseteq Seq(Requests) /\ \A c \in batches' : Len(c) \in 1 .. MAX_BATCH_SIZE
    <3>1. CASE Len(b) = 1
      BY <3>1, <2>3 DEF BatcherInv, BatcherTypeOK
    <3>2. CASE Len(b) # 1
      <4>1. Len(Tail(b)) \in 1 .. MAX_BATCH_SIZE
        BY <3>2, <2>1, <2>2, BatcherAssumption
      <4>2. batches' = (batches \ {b}) \cup {Tail(b)}
        BY <3>2, <2>3
      <4> QED
        BY <4>1, <4>2, <2>2 DEF BatcherInv, BatcherTypeOK
    <3> QED
      BY <3>1, <3>2
  <2> QED
    BY <2>3, <2>4 DEF BatcherInv, BatcherTypeOK, TimerWhenQueued
<1>6. ASSUME NEW b \in batches, SetExceptions(b)
      PROVE  BatcherInv'
  BY <1>6 DEF SetExceptions, BatcherInv, BatcherTypeOK, TimerWhenQueued
<1>7. CASE Stop
  BY <1>7 DEF Stop, CallbacksAfterCancel, BatcherInv, BatcherTypeOK, TimerWhenQueued
<1>8. CASE UNCHANGED batcherVars
  BY <1>8 DEF batcherVars, BatcherInv, BatcherTypeOK, TimerWhenQueued
<1> QED
  BY <1>1, <1>2, <1>3, <1>4, <1>5, <1>6, <1>7, <1>8 DEF NextBatcher

\* The inductive invariant holds throughout: types, timer and batch size.
THEOREM BatcherInvariance == SpecBatcher => []BatcherInv
  BY InitBatcherInv, NextBatcherInv, PTL DEF SpecBatcher

\* Types, among them that no callback is counted that was not announced.
THEOREM BatcherTypes == SpecBatcher => []BatcherTypeOK
<1>1. BatcherInv => BatcherTypeOK
  BY DEF BatcherInv
<1> QED
  BY <1>1, BatcherInvariance, PTL

\* Until stop(), a timer is on its way exactly when something is queued.
THEOREM NoForgottenRequest == SpecBatcher => []TimerWhenQueued
<1>1. BatcherInv => TimerWhenQueued
  BY DEF BatcherInv
<1> QED
  BY <1>1, BatcherInvariance, PTL

\* No batch is larger than MAX_BATCH_SIZE.
THEOREM BatchesBounded == SpecBatcher => []BatchesFit
<1>1. BatcherInv => BatchesFit
  BY BatcherAssumption DEF BatcherInv, BatchesFit
<1> QED
  BY <1>1, BatcherInvariance, PTL

-----------------------------------------------------------------------------
(* The batcher's service *)

\* Every request of queue q and batches B stands there once, and its future f is open.
Held(q, B, f) ==
    /\ NoRepeats(q)
    /\ \A r \in ToSet(q) : f[r] = "pending"
    /\ \A b \in B :
        /\ NoRepeats(b)
        /\ ToSet(b) \cap ToSet(q) = {}
        /\ \A r \in ToSet(b) : f[r] = "pending"
    /\ \A b, c \in B : b # c => ToSet(b) \cap ToSet(c) = {}

\* Without that a batch thread could resolve a future a second time.
ServiceInv == BatcherInv /\ Held(queue, batches, future)

\* A batch and the rest of the queue share no request.
LEMMA CutApart ==
    ASSUME NEW q \in Seq(Requests), NoRepeats(q), NEW n \in 1 .. Len(q)
    PROVE  LET h == SubSeq(q, 1, n)
               t == SubSeq(q, n + 1, Len(q))
           IN  /\ NoRepeats(h) /\ NoRepeats(t)
               /\ ToSet(h) \subseteq ToSet(q) /\ ToSet(t) \subseteq ToSet(q)
               /\ ToSet(h) \cap ToSet(t) = {}
<1> DEFINE h == SubSeq(q, 1, n)
           t == SubSeq(q, n + 1, Len(q))
<1>1. Len(q) \in Nat /\ n \in Nat /\ n <= Len(q) /\ 1 <= n
  BY LenProperties
<1>2. \A i \in 1 .. Len(q) : q[i] \in Requests
  BY ElementOfSeq
<1>3. Len(h) = n /\ \A i \in 1 .. n : h[i] = q[i]
  BY <1>1, <1>2, SubSeqProperties
<1>4. Len(t) = Len(q) - n /\ \A i \in 1 .. Len(q) - n : t[i] = q[n + i]
  BY <1>1, <1>2, SubSeqProperties
<1> HIDE DEF h, t
<1>5. NoRepeats(h) /\ ToSet(h) \subseteq ToSet(q)
  BY <1>1, <1>3 DEF NoRepeats, ToSet
<1>6. \A i \in 1 .. Len(q) - n : n + i \in 1 .. Len(q)
  BY <1>1
<1>7. NoRepeats(t)
  <2> SUFFICES ASSUME NEW i \in 1 .. Len(q) - n, NEW j \in 1 .. Len(q) - n, t[i] = t[j]
               PROVE  i = j
    BY <1>4 DEF NoRepeats
  <2>1. n + i = n + j
    BY <1>4, <1>6 DEF NoRepeats
  <2> QED
    BY <2>1, <1>1
<1>8. ToSet(t) \subseteq ToSet(q)
  BY <1>4, <1>6 DEF ToSet
<1>9. ToSet(h) \cap ToSet(t) = {}
  <2> SUFFICES ASSUME NEW i \in 1 .. n, NEW j \in 1 .. Len(q) - n, h[i] = t[j]
               PROVE  FALSE
    BY <1>3, <1>4 DEF ToSet
  <2>1. i \in 1 .. Len(q) /\ n + j \in 1 .. Len(q) /\ i # n + j
    BY <1>1
  <2> QED
    BY <1>3, <1>4, <2>1 DEF NoRepeats
<1> QED
  BY <1>5, <1>7, <1>8, <1>9 DEF h, t

\* _flush_locked moves requests from the queue to a batch.
LEMMA FlushHolds ==
    ASSUME NEW q \in Seq(Requests), NEW f, NEW n, Held(q, batches, f),
           q = << >> => queue = << >>, FlushLocked(q, n)
    PROVE  Held(queue', batches', f)
<1> DEFINE size == IF Len(q) < MAX_BATCH_SIZE THEN Len(q) ELSE MAX_BATCH_SIZE
           h == SubSeq(q, 1, size)
           t == SubSeq(q, size + 1, Len(q))
<1>1. CASE q = << >>
  BY <1>1 DEF FlushLocked
<1>2. CASE q # << >>
  <2>1. batches' = batches \cup {h} /\ queue' = t
    BY <1>2 DEF FlushLocked
  <2>2. size \in 1 .. Len(q)
    BY <1>2, LenProperties, EmptySeq, BatcherAssumption
  <2> HIDE DEF size
  <2>3. /\ NoRepeats(h) /\ NoRepeats(t)
        /\ ToSet(h) \subseteq ToSet(q) /\ ToSet(t) \subseteq ToSet(q)
        /\ ToSet(h) \cap ToSet(t) = {}
    BY <2>2, CutApart DEF Held
  <2> HIDE DEF h, t
  <2> QED
    BY <2>1, <2>3 DEF Held
<1> QED
  BY <1>1, <1>2

\* submit() and submit_batch() add requests whose futures they open.
LEMMA AddHolds ==
    ASSUME NEW q \in Seq(Requests), q # << >>, NEW f, NEW start, Held(q, batches, f),
           AddToQueue(q, start)
    PROVE  Held(queue', batches', f)
BY FlushHolds DEF AddToQueue

\* What is new in the queue is in no batch.
LEMMA HeldGrows ==
    ASSUME ServiceInv, NEW s \in Seq(Requests), NoRepeats(s),
           \A r \in ToSet(s) : future[r] = "none",
           future' = [r \in Requests |-> IF r \in ToSet(s) THEN "pending" ELSE future[r]]
    PROVE  Held(queue \o s, batches, future')
<1> DEFINE q == queue \o s
<1>1. /\ queue \in Seq(Requests) /\ Len(queue) \in Nat /\ Len(s) \in Nat
      /\ Len(q) = Len(queue) + Len(s)
      /\ \A i \in 1 .. Len(q) : q[i] = IF i <= Len(queue) THEN queue[i] ELSE s[i - Len(queue)]
  BY ConcatProperties, LenProperties DEF ServiceInv, BatcherInv, BatcherTypeOK
<1>2. Held(queue, batches, future)
  BY DEF ServiceInv
<1>3. /\ ToSet(s) \subseteq Requests /\ ToSet(queue) \subseteq Requests
      /\ \A b \in batches : ToSet(b) \subseteq Requests
  <2>1. \A b \in Seq(Requests) : ToSet(b) \subseteq Requests
    BY ElementOfSeq DEF ToSet
  <2> QED
    BY <1>1, <2>1 DEF ServiceInv, BatcherInv, BatcherTypeOK
<1>4. ToSet(queue) \cap ToSet(s) = {} /\ \A b \in batches : ToSet(b) \cap ToSet(s) = {}
  BY <1>2 DEF Held
<1>5. \A i \in 1 .. Len(q) :
        \/ i \in 1 .. Len(queue) /\ q[i] = queue[i] /\ q[i] \in ToSet(queue)
        \/ /\ i - Len(queue) \in 1 .. Len(s) /\ ~(i <= Len(queue))
           /\ q[i] = s[i - Len(queue)] /\ q[i] \in ToSet(s)
  BY <1>1 DEF ToSet
<1> HIDE DEF q
<1>6. ToSet(q) \subseteq ToSet(queue) \cup ToSet(s)
  BY <1>5 DEF ToSet
<1>7. NoRepeats(q)
  <2> SUFFICES ASSUME NEW i \in 1 .. Len(q), NEW j \in 1 .. Len(q), q[i] = q[j]
               PROVE  i = j
    BY DEF NoRepeats
  <2>1. CASE i \in 1 .. Len(queue) /\ j \in 1 .. Len(queue)
    BY <1>1, <1>2, <2>1 DEF Held, NoRepeats
  <2>2. CASE ~(i \in 1 .. Len(queue)) /\ ~(j \in 1 .. Len(queue))
    <3>1. i - Len(queue) \in 1 .. Len(s) /\ j - Len(queue) \in 1 .. Len(s)
          /\ s[i - Len(queue)] = s[j - Len(queue)]
      BY <1>5, <2>2
    <3>2. i - Len(queue) = j - Len(queue)
      BY <3>1 DEF NoRepeats
    <3> QED
      BY <3>2, <1>1
  <2>3. CASE (i \in 1 .. Len(queue)) # (j \in 1 .. Len(queue))
    BY <1>4, <1>5, <2>3
  <2> QED
    BY <2>1, <2>2, <2>3
<1>8. /\ \A r \in ToSet(q) : future'[r] = "pending"
      /\ \A b \in batches : \A r \in ToSet(b) : future'[r] = "pending"
  BY <1>2, <1>3, <1>6 DEF Held
<1>9. Held(q, batches, future')
  BY <1>2, <1>4, <1>6, <1>7, <1>8 DEF Held
<1> QED
  BY <1>9 DEF q

\* A new batcher holds nothing.
LEMMA InitServiceInv == InitBatcher => ServiceInv
<1> SUFFICES ASSUME InitBatcher PROVE ServiceInv
  OBVIOUS
<1>1. queue = << >> /\ batches = {}
  BY DEF InitBatcher
<1>2. NoRepeats(queue) /\ ToSet(queue) = {}
  BY <1>1 DEF NoRepeats, ToSet
<1>3. Held(queue, batches, future)
  BY <1>1, <1>2 DEF Held
<1> QED
  BY <1>3, InitBatcherInv DEF ServiceInv

\* One request is a list of one.
LEMMA SubmitsOne ==
    ASSUME NEW r \in Requests
    PROVE  /\ <<r>> \in Seq(Requests) /\ NoRepeats(<<r>>) /\ ToSet(<<r>>) = {r}
           /\ \A q \in Seq(Requests) : Append(q, r) = q \o <<r>>
<1>1. <<r>> \in Seq(Requests) /\ Len(<<r>>) = 1 /\ <<r>>[1] = r
  OBVIOUS
<1>2. NoRepeats(<<r>>) /\ ToSet(<<r>>) = {r}
  BY <1>1 DEF NoRepeats, ToSet
<1> QED
  BY <1>1, <1>2, AppendIsConcat

\* The thread of batch b resolves the futures of S, and keeps none of them.
GivesUp(b, S) ==
    /\ S \subseteq ToSet(b)
    /\ \A r \in Requests \ S : future'[r] = future[r]
    /\ \A c \in batches' : \/ c \in batches /\ c # b
                           \/ NoRepeats(c) /\ ToSet(c) \subseteq ToSet(b) \ S
    /\ \A c, d \in batches' : c # d => ToSet(c) \cap ToSet(d) = {}

\* What is then in the batches is still open, and stands there once.
LEMMA ResolveHolds ==
    ASSUME ServiceInv, NEW b \in batches, NEW S, GivesUp(b, S)
    PROVE  Held(queue, batches', future')
<1>1. Held(queue, batches, future)
  BY DEF ServiceInv
<1>2. ToSet(queue) \subseteq Requests /\ \A c \in batches : ToSet(c) \subseteq Requests
  <2>1. \A c \in Seq(Requests) : ToSet(c) \subseteq Requests
    BY ElementOfSeq DEF ToSet
  <2> QED
    BY <2>1 DEF ServiceInv, BatcherInv, BatcherTypeOK
<1>4. ToSet(queue) \subseteq Requests \ S
  BY <1>1, <1>2 DEF Held, GivesUp
<1>5. ASSUME NEW c \in batches'
      PROVE  /\ NoRepeats(c) /\ ToSet(c) \cap ToSet(queue) = {}
             /\ ToSet(c) \subseteq Requests \ S
             /\ \A r \in ToSet(c) : future[r] = "pending"
  <2>1. CASE c \in batches /\ c # b
    <3>1. ToSet(c) \cap ToSet(b) = {} /\ S \subseteq ToSet(b)
      BY <1>1, <2>1 DEF Held, GivesUp
    <3> QED
      BY <1>1, <1>2, <2>1, <3>1 DEF Held
  <2>2. CASE NoRepeats(c) /\ ToSet(c) \subseteq ToSet(b) \ S
    BY <1>1, <1>2, <2>2 DEF Held
  <2>3. \/ c \in batches /\ c # b
        \/ NoRepeats(c) /\ ToSet(c) \subseteq ToSet(b) \ S
    BY <1>5 DEF GivesUp
  <2> QED
    BY <2>1, <2>2, <2>3
<1> QED
  BY <1>1, <1>4, <1>5 DEF Held, GivesUp

\* What a batch thread leaves of its batch.
LEMMA ResultTaken ==
    ASSUME ServiceInv, NEW b \in batches, SetResult(b)
    PROVE  /\ Held(queue, batches', future')
           /\ Head(b) \in ToSet(b)
           /\ future' = [r \in Requests |-> IF r \in {Head(b)} THEN "vector" ELSE future[r]]
<1> DEFINE left == IF Len(b) = 1 THEN {} ELSE {Tail(b)}
<1>1. b \in Seq(Requests) /\ Len(b) \in Nat \ {0} /\ b # << >>
  BY EmptySeq, BatcherAssumption DEF ServiceInv, BatcherInv, BatcherTypeOK
<1>2. /\ Head(b) = b[1] /\ Len(Tail(b)) = Len(b) - 1
      /\ \A i \in 1 .. Len(b) - 1 : Tail(b)[i] = b[i + 1]
  BY <1>1, HeadTailProperties
<1>3. Head(b) \in ToSet(b)
  BY <1>1, <1>2 DEF ToSet
<1>4. NoRepeats(b)
  BY DEF ServiceInv, Held
<1>5. NoRepeats(Tail(b)) /\ ToSet(Tail(b)) \subseteq ToSet(b) \ {Head(b)}
  <2>1. \A i \in 1 .. Len(b) - 1 : i + 1 \in 1 .. Len(b) /\ i + 1 # 1 /\ 1 \in 1 .. Len(b)
    BY <1>1
  <2>2. ToSet(Tail(b)) \subseteq ToSet(b) \ {Head(b)}
    BY <1>2, <1>4, <2>1 DEF ToSet, NoRepeats
  <2>3. ASSUME NEW i \in 1 .. Len(b) - 1, NEW j \in 1 .. Len(b) - 1, Tail(b)[i] = Tail(b)[j]
        PROVE  i = j
    <3>1. i + 1 = j + 1
      BY <1>2, <1>4, <2>1, <2>3 DEF NoRepeats
    <3> QED
      BY <3>1
  <2> QED
    BY <1>2, <2>2, <2>3 DEF NoRepeats
<1>6. /\ batches' = (batches \ {b}) \cup left
      /\ future' = [future EXCEPT ![Head(b)] = "vector"]
  BY DEF SetResult
<1>7. future' = [r \in Requests |-> IF r \in {Head(b)} THEN "vector" ELSE future[r]]
  BY <1>6 DEF ServiceInv, BatcherInv, BatcherTypeOK
<1>8. \A c \in left : c = Tail(b)
  OBVIOUS
<1> HIDE DEF left
<1>9. \A c \in batches' : \/ c \in batches /\ c # b
                          \/ NoRepeats(c) /\ ToSet(c) \subseteq ToSet(b) \ {Head(b)}
  BY <1>5, <1>6, <1>8
<1>10. \A c, d \in batches' : c # d => ToSet(c) \cap ToSet(d) = {}
  <2>1. \A c \in batches \ {b} : ToSet(c) \cap ToSet(b) = {}
    BY DEF ServiceInv, Held
  <2>2. \A c, d \in batches : c # d => ToSet(c) \cap ToSet(d) = {}
    BY DEF ServiceInv, Held
  <2> QED
    BY <1>5, <1>6, <1>8, <2>1, <2>2
<1>11. Held(queue, batches', future')
  <2>1. {Head(b)} \subseteq ToSet(b)
    BY <1>3
  <2>2. \A r \in Requests \ {Head(b)} : future'[r] = future[r]
    BY <1>7
  <2>3. GivesUp(b, {Head(b)})
    BY <2>1, <2>2, <1>9, <1>10 DEF GivesUp
  <2> QED
    BY <2>3, ResolveHolds
<1> QED
  BY <1>3, <1>7, <1>11

\* What a batch thread resolves when it fails: the rest of its batch.
LEMMA ExceptionsTaken ==
    ASSUME ServiceInv, NEW b \in batches, SetExceptions(b)
    PROVE  Held(queue, batches', future')
<1>1. /\ batches' = batches \ {b}
      /\ future' = [r \in Requests |-> IF r \in ToSet(b) THEN "exception" ELSE future[r]]
  BY DEF SetExceptions
<1>2. \A c, d \in batches' : c # d => ToSet(c) \cap ToSet(d) = {}
  BY <1>1 DEF ServiceInv, Held
<1>3. \A r \in Requests \ ToSet(b) : future'[r] = future[r]
  BY <1>1
<1>4. \A c \in batches' : c \in batches /\ c # b
  BY <1>1
<1>5. GivesUp(b, ToSet(b))
  BY <1>2, <1>3, <1>4 DEF GivesUp
<1> QED
  BY <1>5, ResolveHolds

\* However calls, timers and threads interleave, each open future stands in one place.
LEMMA NextServiceInv == ServiceInv /\ [NextBatcher]_batcherVars => ServiceInv'
<1> SUFFICES ASSUME ServiceInv, [NextBatcher]_batcherVars PROVE Held(queue, batches, future)'
  BY NextBatcherInv DEF ServiceInv
<1>0. BatcherInv /\ BatcherTypeOK /\ Held(queue, batches, future)
  BY DEF ServiceInv, BatcherInv
<1>1. ASSUME NEW r \in Requests, Submit(r)
      PROVE  Held(queue', batches', future')
  <2>1. /\ future' = [q \in Requests |-> IF q \in ToSet(<<r>>) THEN "pending" ELSE future[q]]
        /\ \A q \in ToSet(<<r>>) : future[q] = "none"
    BY <1>0, <1>1, SubmitsOne DEF Submit, BatcherTypeOK
  <2>2. Held(Append(queue, r), batches, future')
    BY <1>0, <2>1, SubmitsOne, HeldGrows DEF BatcherTypeOK
  <2>3. Append(queue, r) \in Seq(Requests) /\ Append(queue, r) # << >>
    BY <1>0, AppendProperties DEF BatcherTypeOK
  <2> QED
    BY <1>1, <2>2, <2>3, AddHolds DEF Submit
<1>2. ASSUME NEW s \in Bundles, SubmitBatch(s)
      PROVE  Held(queue', batches', future')
  <2>1. s \in Seq(Requests) /\ NoRepeats(s) /\ s # << >>
    BY BatcherAssumption
  <2>2. Held(queue \o s, batches, future')
    BY <1>2, <2>1, HeldGrows DEF SubmitBatch
  <2>3. queue \o s \in Seq(Requests) /\ queue \o s # << >>
    <3>1. Len(s) > 0 /\ Len(queue) \in Nat
      BY <1>0, <2>1, EmptySeq, LenProperties DEF BatcherTypeOK
    <3>2. queue \o s \in Seq(Requests) /\ Len(queue \o s) = Len(queue) + Len(s)
      BY <1>0, <2>1, ConcatProperties DEF BatcherTypeOK
    <3> QED
      BY <2>1, <3>1, <3>2, EmptySeq, LenProperties
  <2> QED
    BY <1>2, <2>2, <2>3, AddHolds DEF SubmitBatch
<1>3. CASE TimerCallback \/ LateCallback
  <2>1. PICK n : FlushLocked(queue, n)
    BY <1>3 DEF TimerCallback, LateCallback
  <2>2. future' = future
    BY <1>3 DEF TimerCallback, LateCallback
  <2>3. Held(queue', batches', future)
    BY <1>0, <2>1, FlushHolds DEF BatcherTypeOK
  <2> QED
    BY <2>2, <2>3
<1>4. ASSUME NEW b \in batches, SetResult(b)
      PROVE  Held(queue', batches', future')
  BY <1>4, ResultTaken DEF SetResult
<1>5. ASSUME NEW b \in batches, SetExceptions(b)
      PROVE  Held(queue', batches', future')
  BY <1>5, ExceptionsTaken DEF SetExceptions
<1>6. CASE TimerFires \/ Stop \/ UNCHANGED batcherVars
  BY <1>0, <1>6 DEF TimerFires, Stop, batcherVars
<1> QED
  BY <1>1, <1>2, <1>3, <1>4, <1>5, <1>6 DEF NextBatcher

\* Each future is in one place as long as it is open.
THEOREM HeldOnce == SpecBatcher => []ServiceInv
BY InitServiceInv, NextServiceInv, PTL DEF SpecBatcher

\* Every step of the batcher is one the service allows: the calls are its calls, a
\* batch thread resolves open futures and no other, timers do not show.
LEMMA ServiceStep == ServiceInv /\ [NextBatcher]_batcherVars => [Service!Next]_(Service!vars)
<1> SUFFICES ASSUME ServiceInv, [NextBatcher]_batcherVars PROVE [Service!Next]_(Service!vars)
  OBVIOUS
<1>0. BatcherTypeOK /\ \A b \in batches : ToSet(b) # {} /\ ToSet(b) \subseteq Requests
                              /\ \A r \in ToSet(b) : future[r] = "pending"
  <2>1. BatcherTypeOK /\ \A b \in batches : \A r \in ToSet(b) : future[r] = "pending"
    BY DEF ServiceInv, Held, BatcherInv
  <2>2. \A b \in batches : b \in Seq(Requests) /\ 1 \in 1 .. Len(b)
    BY BatcherAssumption DEF ServiceInv, BatcherInv, BatcherTypeOK
  <2> QED
    BY <2>1, <2>2, ElementOfSeq DEF ToSet
<1>1. ASSUME NEW S \in SUBSET Requests, S # {}, \A r \in S : future[r] = "none",
             future' = [r \in Requests |-> IF r \in S THEN "pending" ELSE future[r]],
             stopped' = stopped
      PROVE  Service!Next
  BY <1>1 DEF Service!Next, Service!Submit
<1>2. ASSUME NEW r \in Requests, Submit(r)
      PROVE  Service!Next
  <2>1. future' = [q \in Requests |-> IF q \in {r} THEN "pending" ELSE future[q]]
    BY <1>0, <1>2 DEF Submit, BatcherTypeOK
  <2> QED
    BY <1>1, <1>2, <2>1 DEF Submit
<1>3. ASSUME NEW s \in Bundles, SubmitBatch(s)
      PROVE  Service!Next
  <2>1. s \in Seq(Requests) /\ s # << >>
    BY BatcherAssumption
  <2>2. 1 \in 1 .. Len(s) /\ \A i \in 1 .. Len(s) : s[i] \in Requests
    BY <2>1, EmptySeq, LenProperties, ElementOfSeq
  <2>3. ToSet(s) \in SUBSET Requests /\ ToSet(s) # {}
    BY <2>2 DEF ToSet
  <2> QED
    BY <1>1, <1>3, <2>3 DEF SubmitBatch
<1>4. ASSUME NEW b \in batches, SetResult(b)
      PROVE  Service!Next
  <2>1. Head(b) \in ToSet(b)
    BY <1>4, ResultTaken
  <2>2. Head(b) \in Requests /\ future[Head(b)] = "pending"
    BY <1>0, <2>1
  <2>3. Service!Resolve({Head(b)})
    BY <1>4, <2>2, ResultTaken DEF Service!Resolve, SetResult
  <2>4. {Head(b)} \in (SUBSET Requests) \ {{}}
    BY <2>2
  <2> QED
    BY <2>3, <2>4 DEF Service!Next
<1>5. ASSUME NEW b \in batches, SetExceptions(b)
      PROVE  Service!Next
  <2>1. ToSet(b) \in (SUBSET Requests) \ {{}} /\ \A r \in ToSet(b) : future[r] = "pending"
    BY <1>0
  <2>2. Service!Resolve(ToSet(b))
    BY <1>5, <2>1 DEF Service!Resolve, SetExceptions
  <2> QED
    BY <2>1, <2>2 DEF Service!Next
<1>6. CASE Stop
  BY <1>6 DEF Stop, Service!Next, Service!Stop
<1>7. CASE TimerFires \/ TimerCallback \/ LateCallback \/ UNCHANGED batcherVars
  BY <1>7 DEF TimerFires, TimerCallback, LateCallback, batcherVars, Service!vars
<1> QED
  BY <1>2, <1>3, <1>4, <1>5, <1>6, <1>7 DEF NextBatcher

\* The batcher implements the service in all but the promise that an answer comes.
THEOREM BatcherImplementsService == SpecBatcher => Service!Init /\ [][Service!Next]_(Service!vars)
<1>1. InitBatcher => Service!Init
  BY DEF InitBatcher, Service!Init
<1> QED
  BY <1>1, HeldOnce, ServiceStep, PTL DEF SpecBatcher
=============================================================================
