-------------------------- MODULE AnswerFlowProofs --------------------------
(***************************************************************************)
(* Proofs about LiveFetch and AnswerFlow. Of the background queue: there   *)
(* is one worker at most, and a queued term always has somebody to fetch   *)
(* it, for any number of callers, terms and limits. Of the answer flow: it *)
(* drives that queue the way LiveFetch allows, so that the theorems hold   *)
(* of it, and what the search cache holds was searched for the query it is *)
(* under.                                                                  *)
(***************************************************************************)
EXTENDS AnswerFlow, FiniteSetTheorems, TLAPS

-----------------------------------------------------------------------------
(* The background queue *)

\* _bg_running says where the one worker is: nowhere, at the head of its loop,
\* fetching, or about to be started.
WorkerPlace ==
    \/ /\ ~ running
       /\ loops = 0 /\ fetching = {} /\ Starting = {}
    \/ /\ running
       /\ loops = 1 /\ fetching = {} /\ Starting = {}
    \/ /\ running
       /\ loops = 0 /\ Starting = {}
       /\ \E t \in fetching : fetching = {t}
    \/ /\ running
       /\ loops = 0 /\ fetching = {}
       /\ \E c \in Callers : Starting = {c}

\* The inductive invariant.
FetchInv ==
    /\ pc \in [Callers -> {"idle", "queued", "starting"}]
    /\ running \in BOOLEAN
    /\ WorkerPlace
    /\ QueueAttended

\* A caller is about to start a worker exactly when its pc says so.
LEMMA StartingPc == \A c \in Callers : c \in Starting <=> pc[c] = "starting"
BY DEF Starting

\* A step that leaves the callers that are starting a worker alone leaves the set
\* of them alone.
LEMMA StartingKept ==
    ASSUME NEW c \in Callers, pc \in [Callers -> {"idle", "queued", "starting"}],
           NEW v \in {"idle", "queued"}, pc[c] # "starting",
           pc' = [pc EXCEPT ![c] = v]
    PROVE  Starting' = Starting
<1>1. \A d \in Callers : pc'[d] = "starting" <=> pc[d] = "starting"
  OBVIOUS
<1>2. QED
  BY <1>1 DEF Starting

\* The invariant holds at first.
LEMMA InitFetchInv == InitFetch => FetchInv
<1>1. SUFFICES ASSUME InitFetch PROVE FetchInv
  OBVIOUS
<1>2. Starting = {}
  BY <1>1 DEF InitFetch, Starting
<1>3. QED
  BY <1>1, <1>2 DEF InitFetch, FetchInv, WorkerPlace, QueueAttended

\* Queueing terms preserves the invariant: the caller has still to decide.
LEMMA EnqueueInv ==
    ASSUME FetchInv, NEW c \in Callers, NEW ts \in TermLists, EnqueueRelated(c, ts)
    PROVE  FetchInv'
<1>1. pc \in [Callers -> {"idle", "queued", "starting"}] /\ running \in BOOLEAN
  BY DEF FetchInv
<1>2. /\ pc[c] = "idle" /\ pc' = [pc EXCEPT ![c] = "queued"]
      /\ running' = running /\ loops' = loops /\ fetching' = fetching
  BY DEF EnqueueRelated
<1>3. Starting' = Starting
  BY <1>1, <1>2, StartingKept
<1>4. WorkerPlace'
  BY <1>2, <1>3 DEF FetchInv, WorkerPlace
<1>5. pc'[c] = "queued" /\ pc' \in [Callers -> {"idle", "queued", "starting"}]
  BY <1>1, <1>2
<1>6. QED
  BY <1>1, <1>2, <1>4, <1>5 DEF FetchInv, QueueAttended

\* The decision of start_background_expansion preserves the invariant: a caller
\* that does not start a worker has seen one, or an empty queue.
LEMMA DecideInv ==
    ASSUME FetchInv, NEW c \in Callers, StartBackgroundExpansion(c)
    PROVE  FetchInv'
<1>1. pc \in [Callers -> {"idle", "queued", "starting"}] /\ running \in BOOLEAN
  BY DEF FetchInv
<1>2. /\ pc[c] = "queued"
      /\ queue' = queue /\ loops' = loops /\ fetching' = fetching
  BY DEF StartBackgroundExpansion
<1>3. CASE running \/ queue = << >>
  <2>1. pc' = [pc EXCEPT ![c] = "idle"] /\ running' = running
    BY <1>3 DEF StartBackgroundExpansion
  <2>2. Starting' = Starting
    BY <1>1, <1>2, <2>1, StartingKept
  <2>3. WorkerPlace'
    BY <1>2, <2>1, <2>2 DEF FetchInv, WorkerPlace
  <2>4. QueueAttended'
    <3>1. CASE queue = << >>
      BY <1>2, <3>1 DEF QueueAttended
    <3>2. CASE running
      <4>1. loops > 0 \/ fetching # {} \/ \E d \in Callers : d \in Starting
        BY <3>2 DEF FetchInv, WorkerPlace
      <4>2. \A d \in Callers : d \in Starting => pc'[d] = "starting"
        BY <1>1, <1>2, <2>1, StartingPc
      <4>3. QED
        BY <1>2, <4>1, <4>2 DEF QueueAttended
    <3>3. QED
      BY <1>3, <3>1, <3>2
  <2>5. QED
    BY <1>1, <2>1, <2>3, <2>4 DEF FetchInv
<1>4. CASE ~ running /\ queue # << >>
  <2>1. pc' = [pc EXCEPT ![c] = "starting"] /\ running' = TRUE
    BY <1>4 DEF StartBackgroundExpansion
  <2>2. loops = 0 /\ fetching = {} /\ Starting = {}
    BY <1>4 DEF FetchInv, WorkerPlace
  <2>3. pc' \in [Callers -> {"idle", "queued", "starting"}] /\ pc'[c] = "starting"
    BY <1>1, <2>1
  <2>4. Starting' = {c}
    <3>1. \A d \in Callers : pc'[d] = "starting" <=> d = c
      BY <1>1, <2>1, <2>2, StartingPc
    <3>2. QED
      BY <3>1 DEF Starting
  <2>5. QED
    BY <1>2, <2>1, <2>2, <2>3, <2>4 DEF FetchInv, WorkerPlace, QueueAttended
<1>5. QED
  BY <1>1, <1>3, <1>4

\* Thread.start() preserves the invariant.
LEMMA StartInv ==
    ASSUME FetchInv, NEW c \in Callers, StartThread(c) PROVE FetchInv'
<1>1. pc \in [Callers -> {"idle", "queued", "starting"}] /\ running \in BOOLEAN
  BY DEF FetchInv
<1>2. /\ pc[c] = "starting" /\ pc' = [pc EXCEPT ![c] = "idle"]
      /\ running' = running /\ loops' = loops + 1 /\ fetching' = fetching
  BY DEF StartThread
<1>3. c \in Starting
  BY <1>2, StartingPc
<1>4. running /\ loops = 0 /\ fetching = {} /\ Starting = {c}
  BY <1>3 DEF FetchInv, WorkerPlace
<1>5. Starting' = {}
  <2>1. \A d \in Callers : pc'[d] # "starting"
    BY <1>1, <1>2, <1>4, StartingPc
  <2>2. QED
    BY <2>1 DEF Starting
<1>6. QED
  BY <1>1, <1>2, <1>4, <1>5 DEF FetchInv, WorkerPlace, QueueAttended

\* A step of the worker preserves the invariant.
LEMMA WorkerInv ==
    ASSUME FetchInv, WorkerTakes \/ WorkerEnds \/ \E t \in Terms : WorkerContinues(t)
    PROVE  FetchInv'
<1>1. pc' = pc
  BY DEF WorkerTakes, WorkerEnds, WorkerContinues
<1>2. Starting' = Starting
  BY <1>1 DEF Starting
<1>3. CASE WorkerTakes
  <2>1. running /\ loops = 1 /\ fetching = {} /\ Starting = {}
    BY <1>3 DEF FetchInv, WorkerPlace, WorkerTakes
  <2>2. running' /\ loops' = 0 /\ fetching' = {Head(queue)}
    BY <1>3, <2>1 DEF WorkerTakes
  <2>3. QED
    BY <1>1, <1>2, <1>3, <2>1, <2>2 DEF FetchInv, WorkerPlace, QueueAttended, WorkerTakes
<1>4. CASE WorkerEnds
  <2>1. running /\ loops = 1 /\ fetching = {} /\ Starting = {}
    BY <1>4 DEF FetchInv, WorkerPlace, WorkerEnds
  <2>2. running' = FALSE /\ loops' = 0 /\ fetching' = {} /\ queue' = << >>
    BY <1>4, <2>1 DEF WorkerEnds
  <2>3. QED
    BY <1>1, <1>2, <2>1, <2>2 DEF FetchInv, WorkerPlace, QueueAttended
<1>5. CASE \E t \in Terms : WorkerContinues(t)
  <2>1. PICK t \in Terms : WorkerContinues(t)
    BY <1>5
  <2>2. running /\ loops = 0 /\ fetching = {t} /\ Starting = {}
    BY <2>1 DEF FetchInv, WorkerPlace, WorkerContinues
  <2>3. running' /\ loops' = 1 /\ fetching' = {}
    BY <2>1, <2>2 DEF WorkerContinues
  <2>4. QED
    BY <1>1, <1>2, <2>2, <2>3 DEF FetchInv, WorkerPlace, QueueAttended
<1>6. QED
  BY <1>3, <1>4, <1>5

\* Every step preserves the invariant.
LEMMA NextFetchInv == FetchInv /\ [NextFetch]_fetchVars => FetchInv'
<1>1. SUFFICES ASSUME FetchInv, [NextFetch]_fetchVars PROVE FetchInv'
  OBVIOUS
<1>2. CASE UNCHANGED fetchVars
  BY <1>1, <1>2 DEF fetchVars, FetchInv, WorkerPlace, QueueAttended, Starting
<1>3. CASE \E c \in Callers : \E ts \in TermLists : EnqueueRelated(c, ts)
  BY <1>1, <1>3, EnqueueInv
<1>4. CASE \E c \in Callers : StartBackgroundExpansion(c)
  BY <1>1, <1>4, DecideInv
<1>5. CASE \E c \in Callers : StartThread(c)
  BY <1>1, <1>5, StartInv
<1>6. CASE WorkerTakes \/ WorkerEnds \/ \E t \in Terms : WorkerContinues(t)
  BY <1>1, <1>6, WorkerInv
<1>7. QED
  BY <1>1, <1>2, <1>3, <1>4, <1>5, <1>6 DEF NextFetch

\* The invariant bounds the number of workers.
LEMMA PlaceIsOne == FetchInv => OneWorker
<1>1. SUFFICES ASSUME FetchInv PROVE OneWorker
  OBVIOUS
<1>2. Cardinality({}) = 0
  BY FS_EmptySet
<1>3. \A x : Cardinality({x}) = 1
  BY FS_Singleton
<1>4. CASE fetching = {} /\ Starting = {}
  <2>1. loops = 0 \/ loops = 1
    BY <1>1, <1>4 DEF FetchInv, WorkerPlace
  <2>2. QED
    BY <1>2, <1>4, <2>1 DEF OneWorker
<1>5. CASE loops = 0 /\ Starting = {} /\ \E t \in fetching : fetching = {t}
  <2>1. Cardinality(fetching) = 1
    BY <1>3, <1>5
  <2>2. QED
    BY <1>2, <1>5, <2>1 DEF OneWorker
<1>6. CASE loops = 0 /\ fetching = {} /\ \E c \in Callers : Starting = {c}
  <2>1. Cardinality(Starting) = 1
    BY <1>3, <1>6
  <2>2. QED
    BY <1>2, <1>6, <2>1 DEF OneWorker
<1>7. QED
  BY <1>1, <1>4, <1>5, <1>6 DEF FetchInv, WorkerPlace

-----------------------------------------------------------------------------
(* The theorems *)

\* The invariant holds of every behaviour of the queue.
THEOREM FetchInvariant == SpecFetch => []FetchInv
BY InitFetchInv, NextFetchInv, PTL DEF SpecFetch

\* However many threads answer questions at once, they start one background
\* worker: _bg_running is tested and set under one lock of live_fetch.py.
THEOREM AtMostOneWorker == SpecFetch => []OneWorker
BY FetchInvariant, PlaceIsOne, PTL

\* No wake-up is lost: queued terms have a worker, or a caller that will look
\* at _bg_running after them.
THEOREM NoTermForgotten == SpecFetch => []QueueAttended
<1>1. FetchInv => QueueAttended
  BY DEF FetchInv
<1>2. QED
  BY <1>1, FetchInvariant, PTL

-----------------------------------------------------------------------------
(* The answer flow *)


Places == {"idle", "get", "lookup", "stamp", "put", "judge", "fetch",
           "expand", "expanding", "answer"}

\* A caller that is in answer_text has a question.
HasQuery ==
    /\ at \in [Callers -> Places]
    /\ round \in [Callers -> {"first", "again", "context"}]
    /\ query \in [Callers -> Queries \cup {Nothing}]
    /\ \A c \in Callers : at[c] # "idle" => query[c] \in Queries

\* What a caller is about to put was looked up for its own query.
OwnHits ==
    /\ DOMAIN hits = Callers
    /\ \A c \in Callers : at[c] = "stamp" => hits[c] \subseteq Relevant[query[c]]

\* So was what it has stamped.
OwnPending ==
    /\ DOMAIN pending = Callers
    /\ \A c \in Callers :
          pending[c] # Nothing => pending[c].result \subseteq Relevant[pending[c].query]

\* The inductive invariant.
FlowInv == HasQuery /\ OwnHits /\ OwnPending /\ CachedForItsQuery

-----------------------------------------------------------------------------
(* The steps of the cache *)

\* get() removes entries at most, and no put is made or stored by it.
LEMMA GetKeeps ==
    ASSUME NEW q, NEW e, Cache!GetHit(q, e) \/ Cache!GetMiss(q)
    PROVE  l1' \subseteq l1 /\ pending' = pending
BY DEF Cache!GetHit, Cache!GetMiss, Cache!EvictExpired, Cache!RebuildMatrix, Cache!Unexpired

\* put() adds the entry it stamped at most.
LEMMA PutAdds ==
    ASSUME NEW c \in Callers, Cache!PutStore(c)
    PROVE  /\ pending[c] # Nothing
           /\ l1' \subseteq l1 \cup {pending[c]}
           /\ pending' = [pending EXCEPT ![c] = Nothing]
BY DEF Cache!PutStore

-----------------------------------------------------------------------------
(* The steps of answer_text *)

\* A step to another place of answer_text, other than that of a lookup just made,
\* keeps the question.
LEMMA NextPlace ==
    ASSUME HasQuery, NEW c \in Callers, at[c] # "idle",
           NEW v \in Places \ {"stamp"}, at' = [at EXCEPT ![c] = v],
           NEW r \in {"first", "again", "context"},
           round' = round \/ round' = [round EXCEPT ![c] = r],
           query' = query
    PROVE  /\ HasQuery'
           /\ \A d \in Callers : at'[d] = "stamp" => at[d] = "stamp"
<1>1. at' \in [Callers -> Places]
  BY DEF HasQuery
<1>2. round' \in [Callers -> {"first", "again", "context"}]
  BY DEF HasQuery
<1>3. \A d \in Callers : at'[d] # "idle" => at[d] # "idle"
  BY DEF HasQuery
<1>4. \A d \in Callers : at'[d] = "stamp" => at[d] = "stamp"
  BY DEF HasQuery
<1>5. QED
  BY <1>1, <1>2, <1>3, <1>4 DEF HasQuery

\* The end of a search is such a step.
LEMMA SearchDonePlace ==
    ASSUME HasQuery, NEW c \in Callers, SearchDone(c)
    PROVE  \E v \in Places \ {"stamp"} : at' = [at EXCEPT ![c] = v]
<1>1. round[c] \in {"first", "again", "context"}
  BY DEF HasQuery
<1>2. QED
  BY <1>1 DEF SearchDone, Places

\* So is the way to the context.
LEMMA ToContextPlace ==
    ASSUME NEW c \in Callers, ToContext(c)
    PROVE  /\ \E v \in Places \ {"stamp"} : at' = [at EXCEPT ![c] = v]
           /\ round' = round \/ round' = [round EXCEPT ![c] = "context"]
BY DEF ToContext, Places

\* A step that leaves hits, stamped entries and the cache alone, and takes nobody
\* to the place after a lookup, preserves the invariant.
LEMMA Quiet ==
    ASSUME FlowInv, HasQuery',
           hits' = hits, pending' = pending, l1' = l1,
           \A d \in Callers :
              at'[d] = "stamp" => at[d] = "stamp" /\ query'[d] = query[d]
    PROVE  FlowInv'
BY DEF FlowInv, OwnHits, OwnPending, CachedForItsQuery

\* A question preserves the invariant.
LEMMA AskInv ==
    ASSUME FlowInv, NEW c \in Callers, NEW q \in Queries, Ask(c, q) PROVE FlowInv'
<1>1. /\ at[c] = "idle"
      /\ at' = [at EXCEPT ![c] = "get"]
      /\ round' = [round EXCEPT ![c] = "first"]
      /\ query' = [query EXCEPT ![c] = q]
      /\ hits' = hits /\ pending' = pending /\ l1' = l1
  BY DEF Ask, cacheVars
<1>2. HasQuery
  BY DEF FlowInv
<1>3. HasQuery'
  <2>1. at' \in [Callers -> Places] /\ round' \in [Callers -> {"first", "again", "context"}]
    BY <1>1, <1>2 DEF HasQuery, Places
  <2>2. query' \in [Callers -> Queries \cup {Nothing}]
    BY <1>1, <1>2 DEF HasQuery
  <2>3. \A d \in Callers : at'[d] # "idle" => query'[d] \in Queries
    BY <1>1, <1>2 DEF HasQuery
  <2>4. QED
    BY <2>1, <2>2, <2>3 DEF HasQuery
<1>4. \A d \in Callers : at'[d] = "stamp" => at[d] = "stamp" /\ query'[d] = query[d]
  BY <1>1, <1>2 DEF HasQuery
<1>5. QED
  BY <1>1, <1>3, <1>4, Quiet

\* An answer of the cache preserves the invariant: it is not put again.
LEMMA CacheHitInv ==
    ASSUME FlowInv, NEW c \in Callers, CacheHit(c) PROVE FlowInv'
<1>1. PICK e \in Cache!Answers(query[c]) :
         /\ Cache!GetHit(query[c], e)
         /\ hits' = [hits EXCEPT ![c] = e.result]
  BY DEF CacheHit
<1>2. /\ at[c] = "get" /\ SearchDone(c)
      /\ round' = round /\ query' = query
  BY DEF CacheHit
<1>3. l1' \subseteq l1 /\ pending' = pending
  BY <1>1, GetKeeps
<1>4. HasQuery
  BY DEF FlowInv
<1>5. PICK v \in Places \ {"stamp"} : at' = [at EXCEPT ![c] = v]
  BY <1>2, <1>4, SearchDonePlace
<1>6. HasQuery' /\ \A d \in Callers : at'[d] = "stamp" => at[d] = "stamp"
  BY <1>2, <1>4, <1>5, NextPlace
<1>7. OwnHits'
  BY <1>1, <1>2, <1>5, <1>6 DEF FlowInv, OwnHits, HasQuery
<1>8. QED
  BY <1>3, <1>6, <1>7 DEF FlowInv, OwnPending, CachedForItsQuery

\* A miss preserves the invariant.
LEMMA CacheMissInv ==
    ASSUME FlowInv, NEW c \in Callers, CacheMiss(c) PROVE FlowInv'
<1>1. /\ Cache!GetMiss(query[c])
      /\ at[c] = "get" /\ at' = [at EXCEPT ![c] = "lookup"]
      /\ round' = round /\ query' = query /\ hits' = hits
  BY DEF CacheMiss
<1>2. l1' \subseteq l1 /\ pending' = pending
  BY <1>1, GetKeeps
<1>3. HasQuery' /\ \A d \in Callers : at'[d] = "stamp" => at[d] = "stamp"
  <2>1. "lookup" \in Places \ {"stamp"}
    BY DEF Places
  <2>2. QED
    BY <1>1, <2>1, NextPlace DEF FlowInv
<1>4. QED
  BY <1>1, <1>2, <1>3 DEF FlowInv, OwnHits, OwnPending, CachedForItsQuery

\* A lookup preserves the invariant: its hits are about the question.
LEMMA LookupInv ==
    ASSUME FlowInv, NEW c \in Callers, Lookup(c) PROVE FlowInv'
<1>1. /\ at[c] = "lookup" /\ at' = [at EXCEPT ![c] = "stamp"]
      /\ round' = round /\ query' = query /\ l1' = l1 /\ pending' = pending
  BY DEF Lookup, cacheVars
<1>2. PICK F \in SUBSET foreign :
         hits' = [hits EXCEPT ![c] = Relevant[query[c]] \cap (Known \cup F)]
  BY DEF Lookup
<1>3. HasQuery'
  BY <1>1 DEF FlowInv, HasQuery, Places
<1>4. OwnHits'
  <2>1. DOMAIN hits' = Callers
    BY <1>2 DEF FlowInv, OwnHits
  <2>2. hits'[c] \subseteq Relevant[query'[c]]
    BY <1>1, <1>2 DEF FlowInv, OwnHits
  <2>3. \A d \in Callers \ {c} : hits'[d] = hits[d] /\ at'[d] = at[d] /\ query'[d] = query[d]
    BY <1>1, <1>2 DEF FlowInv, OwnHits, HasQuery
  <2>4. QED
    BY <2>1, <2>2, <2>3 DEF FlowInv, OwnHits
<1>5. QED
  BY <1>1, <1>3, <1>4 DEF FlowInv, OwnPending, CachedForItsQuery

\* A stamp preserves the invariant: the entry is what was looked up.
LEMMA StampInv ==
    ASSUME FlowInv, NEW c \in Callers, StampResult(c) PROVE FlowInv'
<1>1. /\ at[c] = "stamp" /\ at' = [at EXCEPT ![c] = "put"]
      /\ round' = round /\ query' = query /\ hits' = hits /\ l1' = l1
      /\ pending' = [pending EXCEPT ![c] =
                        [query |-> query[c], result |-> hits[c], created |-> now]]
  BY DEF StampResult, Cache!PutStamp
<1>2. HasQuery' /\ \A d \in Callers : at'[d] = "stamp" => at[d] = "stamp"
  <2>1. "put" \in Places \ {"stamp"}
    BY DEF Places
  <2>2. QED
    BY <1>1, <2>1, NextPlace DEF FlowInv
<1>3. hits[c] \subseteq Relevant[query[c]]
  BY <1>1 DEF FlowInv, OwnHits
<1>4. OwnPending'
  BY <1>1, <1>3 DEF FlowInv, OwnPending
<1>5. QED
  BY <1>1, <1>2, <1>4 DEF FlowInv, OwnHits, CachedForItsQuery

\* The locked part of put() preserves the invariant.
LEMMA PutInv ==
    ASSUME FlowInv, NEW c \in Callers, PutResult(c) PROVE FlowInv'
<1>1. /\ at[c] = "put" /\ SearchDone(c) /\ Cache!PutStore(c)
      /\ round' = round /\ query' = query /\ hits' = hits
  BY DEF PutResult
<1>2. /\ pending[c] # Nothing
      /\ l1' \subseteq l1 \cup {pending[c]}
      /\ pending' = [pending EXCEPT ![c] = Nothing]
  BY <1>1, PutAdds
<1>3. HasQuery
  BY DEF FlowInv
<1>4. PICK v \in Places \ {"stamp"} : at' = [at EXCEPT ![c] = v]
  BY <1>1, <1>3, SearchDonePlace
<1>5. HasQuery' /\ \A d \in Callers : at'[d] = "stamp" => at[d] = "stamp"
  BY <1>1, <1>3, <1>4, NextPlace
<1>6. CachedForItsQuery'
  BY <1>2 DEF FlowInv, OwnPending, CachedForItsQuery
<1>7. OwnPending'
  BY <1>2 DEF FlowInv, OwnPending
<1>8. QED
  BY <1>1, <1>5, <1>6, <1>7 DEF FlowInv, OwnHits

\* Steps that go on to another place and touch neither hits nor cache.
LEMMA MoveInv ==
    ASSUME FlowInv, NEW c \in Callers,
           Judge(c) \/ Fetch(c) \/ FetchNothing(c) \/ FetchRaises(c)
              \/ Queue(c) \/ Expand(c) \/ Start(c)
    PROVE  FlowInv'
<1>1. /\ query' = query /\ hits' = hits /\ l1' = l1 /\ pending' = pending
      /\ at[c] # "idle"
  BY DEF Judge, Fetch, FetchNothing, FetchRaises, Queue, Expand, Start, cacheVars
<1>2. HasQuery
  BY DEF FlowInv
<1>3. CASE ToContext(c)
  <2>1. PICK v \in Places \ {"stamp"} : at' = [at EXCEPT ![c] = v]
    BY <1>3, ToContextPlace
  <2>2. round' = round \/ round' = [round EXCEPT ![c] = "context"]
    BY <1>3, ToContextPlace
  <2>3. HasQuery' /\ \A d \in Callers : at'[d] = "stamp" => at[d] = "stamp"
    BY <1>1, <1>2, <2>1, <2>2, NextPlace
  <2>4. QED
    BY <1>1, <2>3, Quiet
<1>4. CASE at' = at /\ round' = round
  BY <1>1, <1>2, <1>4, Quiet DEF HasQuery
<1>5. CASE /\ \E v \in {"fetch", "get", "expand", "expanding"} : at' = [at EXCEPT ![c] = v]
           /\ round' = round \/ round' = [round EXCEPT ![c] = "again"]
  <2>1. PICK v \in Places \ {"stamp"} : at' = [at EXCEPT ![c] = v]
    BY <1>5 DEF Places
  <2>2. HasQuery' /\ \A d \in Callers : at'[d] = "stamp" => at[d] = "stamp"
    BY <1>1, <1>2, <1>5, <2>1, NextPlace
  <2>3. QED
    BY <1>1, <2>2, Quiet
<1>6. \/ ToContext(c)
      \/ at' = at /\ round' = round
      \/ /\ \E v \in {"fetch", "get", "expand", "expanding"} : at' = [at EXCEPT ![c] = v]
         /\ round' = round \/ round' = [round EXCEPT ![c] = "again"]
  BY DEF Judge, Fetch, FetchNothing, FetchRaises, Queue, Expand, Start
<1>7. QED
  BY <1>3, <1>4, <1>5, <1>6

\* The end of an answer preserves the invariant.
LEMMA AnswerInv ==
    ASSUME FlowInv, NEW c \in Callers, Answer(c) PROVE FlowInv'
<1>1. /\ at' = [at EXCEPT ![c] = "idle"]
      /\ round' = [round EXCEPT ![c] = "first"]
      /\ query' = [query EXCEPT ![c] = Nothing]
      /\ hits' = [hits EXCEPT ![c] = {}]
      /\ l1' = l1 /\ pending' = pending
  BY DEF Answer, cacheVars
<1>2. HasQuery'
  BY <1>1 DEF FlowInv, HasQuery, Places
<1>3. OwnHits'
  BY <1>1 DEF FlowInv, HasQuery, OwnHits
<1>4. QED
  BY <1>1, <1>2, <1>3 DEF FlowInv, OwnPending, CachedForItsQuery

\* The background worker and the clock touch none of it.
LEMMA BackgroundInv ==
    ASSUME FlowInv, Take \/ End \/ Tick \/ \E t \in Terms : Continue(t)
    PROVE  FlowInv'
<1>1. /\ at' = at /\ round' = round /\ query' = query /\ hits' = hits
      /\ l1' = l1 /\ pending' = pending
  BY DEF Take, End, Tick, Continue, Cache!Tick, answerVars, cacheVars
<1>2. QED
  BY <1>1, Quiet DEF FlowInv, HasQuery

\* Every step preserves the invariant.
LEMMA NextFlowInv == FlowInv /\ [Next]_vars => FlowInv'
<1>1. SUFFICES ASSUME FlowInv, [Next]_vars PROVE FlowInv'
  OBVIOUS
<1>2. CASE UNCHANGED vars
  <2>1. /\ at' = at /\ round' = round /\ query' = query /\ hits' = hits
        /\ l1' = l1 /\ pending' = pending
    BY <1>2 DEF vars, answerVars, cacheVars
  <2>2. QED
    BY <1>1, <2>1, Quiet DEF FlowInv, HasQuery
<1>3. CASE \E c \in Callers : \E q \in Queries : Ask(c, q)
  BY <1>1, <1>3, AskInv
<1>4. CASE \E c \in Callers : Step(c)
  BY <1>1, <1>4, CacheHitInv, CacheMissInv, LookupInv, StampInv, PutInv, MoveInv,
     AnswerInv DEF Step
<1>5. CASE Take \/ End \/ Tick \/ \E t \in Terms : Continue(t)
  BY <1>1, <1>5, BackgroundInv
<1>6. QED
  BY <1>1, <1>2, <1>3, <1>4, <1>5 DEF Next

\* The invariant holds at first.
LEMMA InitFlowInv == Init => FlowInv
BY DEF Init, Cache!Init, FlowInv, HasQuery, OwnHits, OwnPending, CachedForItsQuery, Places

\* A step of the answer flow is a step of the background queue, or none.
LEMMA FlowStep == HasQuery /\ [Next]_vars => [NextFetch]_fetchVars
<1>1. SUFFICES ASSUME HasQuery, [Next]_vars PROVE [NextFetch]_fetchVars
  OBVIOUS
<1>2. CASE UNCHANGED vars
  BY <1>2 DEF vars
<1>3. CASE \E c \in Callers, q \in Queries : Ask(c, q)
  BY <1>3 DEF Ask
<1>4. CASE \E c \in Callers :
              \/ CacheHit(c) \/ CacheMiss(c) \/ Lookup(c) \/ StampResult(c) \/ PutResult(c)
              \/ Judge(c) \/ Fetch(c) \/ FetchNothing(c) \/ FetchRaises(c) \/ Answer(c)
  BY <1>4 DEF CacheHit, CacheMiss, Lookup, StampResult, PutResult, Judge, Fetch,
              FetchNothing, FetchRaises, Answer
<1>5. CASE \E c \in Callers : Queue(c)
  <2>1. PICK c \in Callers : Queue(c)
    BY <1>5
  <2>2. EnqueueRelated(c, TermsOf[query[c]]) /\ at[c] = "expand"
    BY <2>1 DEF Queue
  <2>3. TermsOf[query[c]] \in TermLists
    BY <1>1, <2>2, AnswerAssumption DEF HasQuery
  <2>4. QED
    BY <2>2, <2>3 DEF NextFetch
<1>6. CASE \E c \in Callers : Expand(c) \/ Start(c)
  BY <1>6 DEF Expand, Start, NextFetch
<1>7. CASE Take \/ End \/ \E t \in Terms : Continue(t)
  BY <1>7 DEF Take, End, Continue, NextFetch
<1>8. CASE Tick
  BY <1>8 DEF Tick
<1>9. QED
  BY <1>1, <1>2, <1>3, <1>4, <1>5, <1>6, <1>7, <1>8 DEF Next, Step

-----------------------------------------------------------------------------
(* The theorems *)

\* The invariant holds of every behaviour of the answer flow.
THEOREM FlowInvariant == Spec => []FlowInv
BY InitFlowInv, NextFlowInv, PTL DEF Spec

\* Whatever questions are asked and however their similarity is judged, a cached
\* result was searched for the query it is stored under: search() puts what it
\* looked up and never what the cache gave it.
THEOREM CachedOwnResults == Spec => []CachedForItsQuery
<1>1. FlowInv => CachedForItsQuery
  BY DEF FlowInv
<1>2. QED
  BY <1>1, FlowInvariant, PTL

\* answer_text implements LiveFetch: it queues, decides and starts in the order
\* that specification describes, whatever its searches and fetches do.
THEOREM FlowImplementsFetch == Spec => SpecFetch
<1>1. Init => InitFetch
  BY DEF Init
<1>2. FlowInv => HasQuery
  BY DEF FlowInv
<1>3. QED
  BY <1>1, <1>2, FlowInvariant, FlowStep, PTL DEF Spec, SpecFetch

\* So however many questions are answered at once, one background worker runs.
THEOREM FlowHasOneWorker == Spec => []OneWorker
BY FlowImplementsFetch, AtMostOneWorker, PTL

\* And the terms of every answered question are attended to.
THEOREM FlowForgetsNoTerm == Spec => []QueueAttended
BY FlowImplementsFetch, NoTermForgotten, PTL
=============================================================================
