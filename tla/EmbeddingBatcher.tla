-------------------------- MODULE EmbeddingBatcher --------------------------
(***************************************************************************)
(* EmbeddingBatcher of rag_core/batch_inference.py: requests collect in a  *)
(* queue until a timer fires or the queue is full, and each batch is       *)
(* computed by a thread of its own that resolves the futures.              *)
(*                                                                         *)
(* submit(), submit_batch(), _flush() and stop() hold _lock for all they   *)
(* do. A threading.Timer that has already woken up when it is cancelled    *)
(* still calls _flush(), as soon as it gets the lock: a late callback.     *)
(***************************************************************************)
EXTENDS Naturals, Sequences, FiniteSets

CONSTANTS
    Requests,        \* the requests ever submitted
    Bundles,         \* the lists submit_batch() is called with
    MAX_BATCH_SIZE

NoRepeats(s) == \A i, j \in 1 .. Len(s) : s[i] = s[j] => i = j

ASSUME BatcherAssumption ==
    /\ MAX_BATCH_SIZE \in Nat \ {0}
    /\ \A s \in Bundles : s \in Seq(Requests) /\ s # << >> /\ NoRepeats(s)

VARIABLES
    queue,      \* _queue
    timer,      \* _timer: none, waiting, fired (its callback wants the lock) or cancelled
    late,       \* how many callbacks of cancelled timers are still to come
    batches,    \* per batch thread, the requests it has still to resolve
    future,     \* the future of each request
    stopped     \* stop() was called

batcherVars == <<queue, timer, late, batches, future, stopped>>

ToSet(s) == { s[i] : i \in 1 .. Len(s) }

-----------------------------------------------------------------------------

InitBatcher ==
    /\ queue = << >>
    /\ timer = "none"
    /\ late = 0
    /\ batches = {}
    /\ future = [r \in Requests |-> "none"]
    /\ stopped = FALSE

\* Timer.cancel() has no effect on a timer that already fired.
CallbacksAfterCancel(n) == IF timer = "fired" THEN n + 1 ELSE n

FlushLocked_NoRearm(q, callbacks) ==
    LET size == IF Len(q) < MAX_BATCH_SIZE THEN Len(q) ELSE MAX_BATCH_SIZE
        rest == SubSeq(q, size + 1, Len(q))
    IN  /\ late' = callbacks
        /\ IF q = << >>
           THEN UNCHANGED <<queue, batches>>
           ELSE /\ batches' = batches \cup {SubSeq(q, 1, size)}
                /\ queue' = rest
        /\ timer' = "none"

\* _flush_locked on queue q: cancel the timer, start a thread for the first
\* MAX_BATCH_SIZE requests, and a new timer if some are left.
FlushLocked(q, callbacks) ==
    LET size == IF Len(q) < MAX_BATCH_SIZE THEN Len(q) ELSE MAX_BATCH_SIZE
        rest == SubSeq(q, size + 1, Len(q))
    IN  /\ late' = callbacks
        /\ IF q = << >>
           THEN UNCHANGED <<queue, batches>> /\ timer' = "none"
           ELSE /\ batches' = batches \cup {SubSeq(q, 1, size)}
                /\ queue' = rest
                /\ timer' = IF rest = << >> THEN "none" ELSE "waiting"

\* The queue has become q: flush it if it is full, else start a timer if start.
AddToQueue(q, start) ==
    \/ /\ Len(q) >= MAX_BATCH_SIZE
       /\ FlushLocked(q, CallbacksAfterCancel(late))
    \/ /\ Len(q) < MAX_BATCH_SIZE
       /\ queue' = q
       /\ timer' = IF start THEN "waiting" ELSE timer
       /\ UNCHANGED <<late, batches>>

\* submit(): the timer is started by the first request of a queue.
Submit(r) ==
    /\ future[r] = "none"
    /\ future' = [future EXCEPT ![r] = "pending"]
    /\ AddToQueue(Append(queue, r), queue = << >>)
    /\ UNCHANGED stopped

\* submit_batch(): the timer is started when there is none.
SubmitBatch(s) ==
    /\ \A r \in ToSet(s) : future[r] = "none"
    /\ future' = [r \in Requests |-> IF r \in ToSet(s) THEN "pending" ELSE future[r]]
    /\ AddToQueue(queue \o s, timer = "none")
    /\ UNCHANGED stopped

\* The timer's interval is over; it was not cancelled.
TimerFires ==
    /\ timer = "waiting"
    /\ timer' = "fired"
    /\ UNCHANGED <<queue, late, batches, future, stopped>>

\* _flush() called by the current timer.
TimerCallback ==
    /\ timer = "fired"
    /\ FlushLocked(queue, late)
    /\ UNCHANGED <<future, stopped>>

\* _flush() called by a timer that was cancelled too late. It flushes whatever
\* has been queued since, and cancels the timer of that.
LateCallback ==
    /\ late > 0
    /\ FlushLocked(queue, CallbacksAfterCancel(late - 1))
    /\ UNCHANGED <<future, stopped>>

\* A batch thread sets the result of its next request.
SetResult(b) ==
    /\ future' = [future EXCEPT ![Head(b)] = "vector"]
    /\ batches' = (batches \ {b}) \cup (IF Len(b) = 1 THEN {} ELSE {Tail(b)})
    /\ UNCHANGED <<queue, timer, late, stopped>>

\* The model raised, or returned too few vectors: what is not done fails.
SetExceptions(b) ==
    /\ future' = [r \in Requests |-> IF r \in ToSet(b) THEN "exception" ELSE future[r]]
    /\ batches' = batches \ {b}
    /\ UNCHANGED <<queue, timer, late, stopped>>

\* stop() cancels the timer and leaves it in place.
Stop ==
    /\ ~ stopped
    /\ stopped' = TRUE
    /\ late' = CallbacksAfterCancel(late)
    /\ timer' = IF timer = "none" THEN "none" ELSE "cancelled"
    /\ UNCHANGED <<queue, batches, future>>

NextBatcher ==
    \/ \E r \in Requests : Submit(r)
    \/ \E s \in Bundles : SubmitBatch(s)
    \/ TimerFires \/ TimerCallback \/ LateCallback \/ Stop
    \/ \E b \in batches : SetResult(b) \/ SetExceptions(b)

SpecBatcher == InitBatcher /\ [][NextBatcher]_batcherVars

\* Timers fire, callbacks get the lock, and the threads of batches run: all are
\* threads of the interpreter that wait for nothing but a lock held briefly.
FairSpec ==
    /\ SpecBatcher
    /\ WF_batcherVars(TimerFires)
    /\ WF_batcherVars(TimerCallback)
    /\ WF_batcherVars(LateCallback)
    /\ \A r \in Requests :
         WF_batcherVars(\E b \in batches : r \in ToSet(b) /\ (SetResult(b) \/ SetExceptions(b)))

-----------------------------------------------------------------------------
(* Properties *)

\* Types of the variables.
BatcherTypeOK ==
    /\ queue \in Seq(Requests)
    /\ timer \in {"none", "waiting", "fired", "cancelled"}
    /\ late \in Nat
    /\ batches \subseteq Seq(Requests)
    /\ future \in [Requests -> {"none", "pending", "vector", "exception"}]
    /\ stopped \in BOOLEAN

\* While the batcher is not stopped, a timer is on its way exactly when something
\* is queued: neither a request that nobody will flush nor a timer for nothing.
TimerWhenQueued ==
    ~ stopped => (queue # << >> <=> timer \in {"waiting", "fired"})

\* The queue waits below the size that makes submit() flush it, and a batch is
\* never larger than that, even for a longer submit_batch().
BatchesFit ==
    \A b \in batches : Len(b) <= MAX_BATCH_SIZE

\* What submit() promises: one outcome per future, and one for certain unless the
\* batcher is stopped.
Service == INSTANCE EmbeddingService
ServiceSpec == Service!Spec
=============================================================================
