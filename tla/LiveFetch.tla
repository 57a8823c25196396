----------------------------- MODULE LiveFetch -----------------------------
(***************************************************************************)
(* The background queue of rag_core/live_fetch.py: threads that answer a   *)
(* question put its terms into a global queue and start a worker if none   *)
(* is running; the worker fetches one term after the other and ends when   *)
(* it finds the queue empty.                                               *)
(*                                                                         *)
(* _bg_lock is held for each of: queueing, deciding to start, taking the   *)
(* next term or deciding to end. It is not held between queueing and       *)
(* deciding, nor between deciding and Thread.start(), which is assumed to  *)
(* succeed.                                                                *)
(***************************************************************************)
EXTENDS Naturals, Sequences, SequencesExt, FiniteSets

CONSTANTS
    Callers,      \* threads that answer questions
    Terms,        \* what the questions are about
    TermLists,    \* what _extract_search_terms makes of them
    MaxTerms,     \* max_terms, 5
    MaxQueue      \* length limit of the queue, 50

ASSUME LiveFetchAssumption ==
    /\ TermLists \subseteq Seq(Terms)
    /\ MaxTerms \in Nat
    /\ MaxQueue \in Nat

VARIABLES
    queue,        \* _background_queue
    running,      \* _bg_running
    loops,        \* worker threads at the head of their loop
    fetching,     \* the terms that workers are fetching
    pc            \* where each caller stands

fetchVars == <<queue, running, loops, fetching, pc>>

-----------------------------------------------------------------------------

\* One term of enqueue_related: not if it is queued, not beyond the limit.
AddTerm(q, t) == IF t \in ToSet(q) \/ Len(q) >= MaxQueue THEN q ELSE Append(q, t)

AddTerms(q, ts) ==
    FoldLeft(AddTerm, q, SubSeq(ts, 1, IF Len(ts) < MaxTerms THEN Len(ts) ELSE MaxTerms))

InitFetch ==
    /\ queue = << >>
    /\ running = FALSE
    /\ loops = 0
    /\ fetching = {}
    /\ pc = [c \in Callers |-> "idle"]

EnqueueRelated(c, ts) ==
    /\ pc[c] = "idle"
    /\ queue' = AddTerms(queue, ts)
    /\ pc' = [pc EXCEPT ![c] = "queued"]
    /\ UNCHANGED <<running, loops, fetching>>

StartBackgroundExpansion_NoCheck(c) ==
    /\ pc[c] = "queued"
    /\ IF queue = << >>
       THEN pc' = [pc EXCEPT ![c] = "idle"] /\ UNCHANGED running
       ELSE pc' = [pc EXCEPT ![c] = "starting"] /\ running' = TRUE
    /\ UNCHANGED <<queue, loops, fetching>>

\* start_background_expansion up to the end of its lock.
StartBackgroundExpansion(c) ==
    /\ pc[c] = "queued"
    /\ IF running \/ queue = << >>
       THEN pc' = [pc EXCEPT ![c] = "idle"] /\ UNCHANGED running
       ELSE pc' = [pc EXCEPT ![c] = "starting"] /\ running' = TRUE
    /\ UNCHANGED <<queue, loops, fetching>>

\* Its last line: Thread(...).start().
StartThread(c) ==
    /\ pc[c] = "starting"
    /\ loops' = loops + 1
    /\ pc' = [pc EXCEPT ![c] = "idle"]
    /\ UNCHANGED <<queue, running, fetching>>

\* _background_worker pops the next term and fetches it.
WorkerTakes ==
    /\ loops > 0
    /\ queue # << >>
    /\ queue' = Tail(queue)
    /\ loops' = loops - 1
    /\ fetching' = fetching \cup {Head(queue)}
    /\ UNCHANGED <<running, pc>>

\* fetch_and_index has returned or raised; after a sleep the loop goes on.
WorkerContinues(t) ==
    /\ t \in fetching
    /\ fetching' = fetching \ {t}
    /\ loops' = loops + 1
    /\ UNCHANGED <<queue, running, pc>>

WorkerEnds_RunningKept ==
    /\ loops > 0
    /\ queue = << >>
    /\ loops' = loops - 1
    /\ UNCHANGED <<queue, running, fetching, pc>>

\* It finds the queue empty: _bg_running = False, return.
WorkerEnds ==
    /\ loops > 0
    /\ queue = << >>
    /\ running' = FALSE
    /\ loops' = loops - 1
    /\ UNCHANGED <<queue, fetching, pc>>

NextFetch ==
    \/ \E c \in Callers :
        \/ \E ts \in TermLists : EnqueueRelated(c, ts)
        \/ StartBackgroundExpansion(c) \/ StartThread(c)
    \/ WorkerTakes \/ WorkerEnds
    \/ \E t \in Terms : WorkerContinues(t)

SpecFetch == InitFetch /\ [][NextFetch]_fetchVars

-----------------------------------------------------------------------------
(* Properties *)

\* Types of the variables; the queue is short and names no term twice.
FetchTypeOK ==
    /\ queue \in Seq(Terms)
    /\ Len(queue) <= MaxQueue
    /\ Cardinality(ToSet(queue)) = Len(queue)
    /\ running \in BOOLEAN
    /\ loops \in Nat
    /\ fetching \subseteq Terms
    /\ pc \in [Callers -> {"idle", "queued", "starting"}]

Starting == { c \in Callers : pc[c] = "starting" }

\* There is at most one worker, counting the one about to be started.
OneWorker == loops + Cardinality(fetching) + Cardinality(Starting) <= 1

\* Queued terms have somebody who will fetch them: a worker, or a caller that has
\* still to decide on one or to start it. So none is forgotten when a worker ends
\* while terms are being queued.
QueueAttended ==
    queue # << >> =>
        \/ loops > 0
        \/ fetching # {}
        \/ \E c \in Callers : pc[c] \in {"queued", "starting"}
=============================================================================
