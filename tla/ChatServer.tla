----------------------------- MODULE ChatServer -----------------------------
(***************************************************************************)
(* The HTTP servers. rag_server_async.py: one event loop that admits,      *)
(* routes and answers requests, a thread pool that computes the answers,   *)
(* the chat cache both use. rag_server.py: the same API on one thread, one *)
(* request after the other. Init says which of the two was started.        *)
(*                                                                         *)
(* On the event loop a handler runs undisturbed from one await to the      *)
(* next: an action is such a stretch. A cached answer is a dictionary that *)
(* the cache and the handlers share; it is named by the request that       *)
(* computed it, and flagged once its key "cached" has been set to True.    *)
(*                                                                         *)
(* A request is a name: its route and what its body holds are chosen where *)
(* the handler looks at them. Of a response only the first byte and the    *)
(* dictionary in it are kept. QueryCache models the cache itself: here a   *)
(* question finds its own entry or else one of a similar question, and     *)
(* entries vanish at any time. What searches, models and peers do inside a *)
(* job is left out: it returns or raises.                                  *)
(***************************************************************************)
EXTENDS Integers, FiniteSets, Sequences

CONSTANTS
    Requests,      \* requests, also the names of the dictionaries they compute
    IPs,           \* addresses of clients
    Questions,     \* what clients ask
    Asks,          \* those each request may hold
    About,         \* length and special characters of each question, and the forms of
                   \* it in which a blocked pattern is found
    Alike,         \* for each question those whose vectors are within the cache's
                   \* similarity_threshold of its own, 0.94
    MaxConcurrent, \* _max_concurrent, 200
    MaxWorkers,    \* MAX_WORKERS of the thread pool, 8
    RateMax,       \* _RATE_MAX, 10
    RateWindow,    \* _RATE_WINDOW, 60 seconds
    MaxTime,       \* bound on the clock
    Nothing        \* no entry

Forms == {"raw", "normalized", "compact"}

ASSUME QuestionsAssumption ==
    /\ About \in [Questions -> [length : Nat, special : Nat, blocked : SUBSET Forms]]
    /\ Asks \in [Requests -> SUBSET Questions]
    /\ Alike \in [Questions -> SUBSET Questions]

\* _is_safe_query: not too long, no blocked pattern in the text as it is, in the text
\* without accents and digits for letters, and in its letters alone, and not mostly
\* special characters.
IsSafeQuery(q) ==
    LET a == About[q] IN
    /\ a.length \in 1 .. 2000
    /\ a.blocked = {}
    /\ a.length > 20 => 100 * a.special <= 35 * a.length

Queries == {q \in Questions : IsSafeQuery(q)}

\* The questions in r that are answered.
Asked(r) == Queries \cap Asks[r]

\* What a job comes back with when it is no dictionary.
Outcomes == {"none", "value", "raised", "rejected", "failed"}

ASSUME ServerAssumption ==
    /\ IsFiniteSet(Requests)
    /\ MaxConcurrent \in Nat \ {0}
    /\ MaxWorkers \in Nat \ {0}
    /\ RateMax \in Nat \ {0}
    /\ RateWindow \in Nat \ {0}
    /\ MaxTime \in Nat
    /\ Nothing \notin Requests \cup Questions
    /\ Requests \cap Outcomes = {}

VARIABLES
    server,     \* "async" or "blocking"
    pc,         \* where the handler of each request stands
    text,       \* the question of each chat request, once the handler has read it
    active,     \* _active_requests
    queue,      \* requests whose job waits for a thread
    running,    \* requests whose job has a thread
    task,       \* the function of each request's job
    result,     \* what the job came back with
    cache,      \* the entry of each question in the chat cache
    flagged,    \* dictionaries that say "cached": True
    rate,       \* _rate_limits: the requests in accepted whose times are kept
    accepted,   \* history: when each address had a chat request accepted
    answer,     \* what each client has received
    now         \* the clock

loopVars == <<pc, active, answer>>
poolVars == <<queue, running, task, result>>
cacheVars == <<cache, flagged>>
rateVars == <<rate, accepted>>
vars == <<server, pc, text, active, queue, running, task, result, cache, flagged,
          rate, accepted, answer, now>>

\* The first byte is out, whose dictionary was sent, and what it said. The status
\* and the rest of the text are left out.
Answer == [started : BOOLEAN, by : Requests \cup {Nothing}, cached : BOOLEAN]
NoAnswer == [started |-> FALSE, by |-> Nothing, cached |-> FALSE]

Locations == {"none", "arrived", "body", "waiting", "resumed", "putting", "sending",
              "raised", "done"}
TaskNames == {"none", "call", "chat", "answer", "vector", "stream"}
InService == {"body", "waiting", "resumed", "putting", "sending", "raised"}

-----------------------------------------------------------------------------

Init ==
    /\ server \in {"async", "blocking"}
    /\ pc = [r \in Requests |-> "none"]
    /\ text = [r \in Requests |-> Nothing]
    /\ active = 0
    /\ queue = <<>>
    /\ running = {}
    /\ task = [r \in Requests |-> "none"]
    /\ result = [r \in Requests |-> "none"]
    /\ cache = [q \in Queries |-> Nothing]
    /\ flagged = {}
    /\ rate = [i \in IPs |-> {}]
    /\ accepted = [i \in IPs |-> <<>>]
    /\ answer = [r \in Requests |-> NoAnswer]
    /\ now = 0

\* A client connects: requests are named in the order they come in.
Connect ==
    /\ \E r \in Requests : pc[r] = "none"
    /\ pc' = [pc EXCEPT ![CHOOSE r \in Requests : pc[r] = "none"] = "arrived"]
    /\ UNCHANGED <<server, text, active, poolVars, cacheVars, rateVars, answer, now>>

\* What _check_rate(ip) keeps of the address's earlier requests.
Recent(i) == {n \in rate[i] : now - accepted[i][n] < RateWindow}

RateOK(i) == Cardinality(Recent(i)) < RateMax

\* The time is appended to what is kept.
Accept(i) ==
    /\ rate' = [rate EXCEPT ![i] = Recent(i) \cup {Len(accepted[i]) + 1}]
    /\ accepted' = [accepted EXCEPT ![i] = Append(@, now)]

RateAccepts_OneTooMany(i) ==
    /\ Cardinality(Recent(i)) <= RateMax
    /\ Accept(i)

\* _check_rate(ip): True, and the request counts.
RateAccepts(i) ==
    /\ RateOK(i)
    /\ Accept(i)

\* _check_rate(ip): False.
RateRefuses(i) ==
    /\ ~RateOK(i)
    /\ rate' = [rate EXCEPT ![i] = Recent(i)]
    /\ UNCHANGED accepted

\* A response without a dictionary of the cache.
Respond(r) == answer' = [answer EXCEPT ![r].started = TRUE]

\* _send_json of dictionary o: json.dumps reads its flag now, the two sends follow.
RespondWith(r, o) ==
    answer' = [answer EXCEPT ![r] =
        [started |-> TRUE, by |-> o, cached |-> o \in flagged]]

Goto(r, l) == pc' = [pc EXCEPT ![r] = l]

\* await _run_in_thread(f)
Submit(r, f) ==
    /\ queue' = Append(queue, r)
    /\ task' = [task EXCEPT ![r] = f]
    /\ result' = [result EXCEPT ![r] = "none"]
    /\ Goto(r, "waiting")
    /\ UNCHANGED running

-----------------------------------------------------------------------------
\* The event loop of the asynchronous server.

\* OPTIONS is answered before requests are counted.
Preflight(r) ==
    /\ server = "async" /\ pc[r] = "arrived"
    /\ Goto(r, "done")
    /\ Respond(r)
    /\ UNCHANGED <<server, text, active, poolVars, cacheVars, rateVars, now>>

Overload(r) ==
    /\ server = "async" /\ pc[r] = "arrived"
    /\ active >= MaxConcurrent
    /\ Goto(r, "done")
    /\ Respond(r)
    /\ UNCHANGED <<server, text, active, poolVars, cacheVars, rateVars, now>>

\* handle_request counts the request and goes on to its first await: the body of a
\* POST, the answer to GET /metrics or a wrong route, the job of GET /health or /peers.
Admit(r) ==
    /\ server = "async" /\ pc[r] = "arrived"
    /\ active < MaxConcurrent
    /\ active' = active + 1
    /\ \/ Goto(r, "body") /\ UNCHANGED <<answer, poolVars>>
       \/ Goto(r, "sending") /\ Respond(r) /\ UNCHANGED poolVars
       \/ Submit(r, "call") /\ UNCHANGED answer
    /\ UNCHANGED <<server, text, cacheVars, rateVars, now>>

\* _read_body has the body of /search, /machine-query or /distributed-search, or of a
\* wrong route.
ReadPost(r) ==
    /\ pc[r] = "body"
    /\ \/ Submit(r, "call") /\ UNCHANGED answer
       \/ Goto(r, "sending") /\ Respond(r) /\ UNCHANGED poolVars
    /\ UNCHANGED <<server, text, active, cacheVars, rateVars, now>>

\* _handle_chat and _handle_chat_stream: the rate comes first.
ReadRefused(r) ==
    /\ pc[r] = "body"
    /\ \E i \in IPs : RateRefuses(i)
    /\ Goto(r, "sending")
    /\ Respond(r)
    /\ UNCHANGED <<server, text, active, poolVars, cacheVars, now>>

ReadChat(r) ==
    /\ pc[r] = "body"
    /\ \E i \in IPs : RateAccepts(i)
    /\ Submit(r, "chat")
    /\ UNCHANGED <<server, text, active, answer, cacheVars, now>>

\* _handle_chat_stream looks at the question before it uses a thread: a body that is
\* no object makes it raise, an empty or unsafe question is refused.
ReadStream(r) ==
    /\ pc[r] = "body"
    /\ \E i \in IPs : RateAccepts(i)
    /\ \/ Goto(r, "raised") /\ UNCHANGED <<text, answer, poolVars>>
       \/ Goto(r, "sending") /\ Respond(r) /\ UNCHANGED <<text, poolVars>>
       \/ /\ \E q \in Asked(r) : text' = [text EXCEPT ![r] = q]
          /\ Submit(r, "vector")
          /\ UNCHANGED answer
    /\ UNCHANGED <<server, active, cacheVars, now>>

\* What chat_cache.get(q, vector) may find: the entry of q itself, and without it that
\* of the most similar question, if it is similar enough (any of them here).
CacheFinds(q) ==
    IF cache[q] # Nothing THEN {cache[q]}
    ELSE {cache[s] : s \in {t \in Queries : t \in Alike[q] /\ cache[t] # Nothing}}

-----------------------------------------------------------------------------
\* The thread pool.

\* A thread takes the oldest job.
StartJob ==
    /\ queue # <<>>
    /\ Cardinality(running) < MaxWorkers
    /\ queue' = Tail(queue)
    /\ running' = running \cup {Head(queue)}
    /\ UNCHANGED <<server, loopVars, text, task, result, cacheVars, rateVars, now>>

EndJob_KeepsThread(r, x) ==
    /\ result' = [result EXCEPT ![r] = x]
    /\ Goto(r, "resumed")
    /\ UNCHANGED <<queue, task, running>>

\* A job ends with x; the event loop is told.
EndJob(r, x) ==
    /\ running' = running \ {r}
    /\ result' = [result EXCEPT ![r] = x]
    /\ Goto(r, "resumed")
    /\ UNCHANGED <<queue, task>>

\* _sync_health, _sync_search and the like, embed_query, and the model's answer to
\* a stream: they return or raise.
RunCall(r) ==
    /\ r \in running /\ task[r] \in {"call", "vector", "stream"}
    /\ \E x \in {"value", "raised"} : EndJob(r, x)
    /\ UNCHANGED <<server, text, active, answer, cacheVars, rateVars, now>>

\* _sync_chat up to the cache: no object, or embed_query, which stands outside the
\* try block, raises; an empty or unsafe question is refused.
ChatRejects(r) ==
    /\ r \in running /\ task[r] = "chat"
    /\ \E x \in {"raised", "rejected"} : EndJob(r, x)
    /\ UNCHANGED <<server, text, active, answer, cacheVars, rateVars, now>>

ChatHit_NotFlagged(r) ==
    /\ r \in running /\ task[r] = "chat"
    /\ \E q \in Asked(r) : \E o \in CacheFinds(q) :
        /\ text' = [text EXCEPT ![r] = q]
        /\ EndJob(r, o)
    /\ UNCHANGED <<server, active, answer, cacheVars, rateVars, now>>

\* chat_cache.get finds a dictionary, whose flag the thread sets in place.
ChatHit(r) ==
    /\ r \in running /\ task[r] = "chat"
    /\ \E q \in Asked(r) : \E o \in CacheFinds(q) :
        /\ text' = [text EXCEPT ![r] = q]
        /\ flagged' = flagged \cup {o}
        /\ EndJob(r, o)
    /\ UNCHANGED <<server, active, answer, cache, rateVars, now>>

ChatMiss(r) ==
    /\ r \in running /\ task[r] = "chat"
    /\ \E q \in Asked(r) :
        /\ CacheFinds(q) = {}
        /\ text' = [text EXCEPT ![r] = q]
    /\ task' = [task EXCEPT ![r] = "answer"]
    /\ UNCHANGED <<server, loopVars, queue, running, result, cacheVars, rateVars, now>>

\* answer_text returns, the new dictionary goes to the cache and to the loop.
ChatAnswers(r) ==
    /\ r \in running /\ task[r] = "answer"
    /\ cache' = [cache EXCEPT ![text[r]] = r]
    /\ EndJob(r, r)
    /\ UNCHANGED <<server, text, active, answer, flagged, rateVars, now>>

\* An exception in answer_text becomes an answer with status 500.
ChatFails(r) ==
    /\ r \in running /\ task[r] = "answer"
    /\ EndJob(r, "failed")
    /\ UNCHANGED <<server, text, active, answer, cacheVars, rateVars, now>>

-----------------------------------------------------------------------------
\* Back on the event loop.

\* The exception of a job leaves the handler.
ResumeRaised(r) ==
    /\ pc[r] = "resumed" /\ result[r] = "raised"
    /\ Goto(r, "raised")
    /\ UNCHANGED <<server, text, active, answer, poolVars, cacheVars, rateVars, now>>

\* _send_json of a job's status.
ResumeStatus(r) ==
    /\ pc[r] = "resumed"
    /\ \/ /\ task[r] = "call" /\ result[r] = "value"
          /\ Respond(r)
       \/ /\ result[r] = "rejected"
          /\ Respond(r)
       \/ /\ result[r] = "failed"
          /\ Respond(r)
    /\ Goto(r, "sending")
    /\ UNCHANGED <<server, text, active, poolVars, cacheVars, rateVars, now>>

\* _send_json of a chat answer, computed or cached.
ResumeChat(r) ==
    /\ pc[r] = "resumed" /\ result[r] \in Requests
    /\ RespondWith(r, result[r])
    /\ Goto(r, "sending")
    /\ UNCHANGED <<server, text, active, poolVars, cacheVars, rateVars, now>>

\* The vector is there: a hit is sent as a stream of one event, after a miss the
\* stream begins and the answer is computed.
ResumeVector(r) ==
    /\ pc[r] = "resumed" /\ task[r] = "vector" /\ result[r] = "value"
    /\ \/ /\ \E o \in CacheFinds(text[r]) :
                answer' = [answer EXCEPT ![r] = [started |-> TRUE, by |-> o, cached |-> TRUE]]
          /\ Goto(r, "sending")
          /\ UNCHANGED poolVars
       \/ /\ CacheFinds(text[r]) = {}
          /\ Respond(r)
          /\ Submit(r, "stream")
    /\ UNCHANGED <<server, text, active, cacheVars, rateVars, now>>

\* The answer is there: one event with all of it.
ResumeStream(r) ==
    /\ pc[r] = "resumed" /\ task[r] = "stream" /\ result[r] = "value"
    /\ answer' = [answer EXCEPT ![r].by = r]
    /\ Goto(r, "putting")
    /\ UNCHANGED <<server, text, active, poolVars, cacheVars, rateVars, now>>

\* chat_cache.put, then the last event.
StreamPut(r) ==
    /\ pc[r] = "putting"
    /\ cache' = [cache EXCEPT ![text[r]] = r]
    /\ Goto(r, "sending")
    /\ UNCHANGED <<server, text, active, answer, poolVars, flagged, rateVars, now>>

Finally_NotOnError(r) ==
    /\ pc[r] \in {"sending", "raised"}
    /\ active' = IF pc[r] = "sending" THEN active - 1 ELSE active
    /\ Goto(r, "done")
    /\ answer' = [answer EXCEPT ![r].started = TRUE]
    /\ UNCHANGED <<server, text, poolVars, cacheVars, rateVars, now>>

\* The handler ends, the finally block gives its place back. An exception before
\* the first byte makes uvicorn answer 500, later it cuts the stream off.
Finally(r) ==
    /\ pc[r] \in {"sending", "raised"}
    /\ active' = active - 1
    /\ Goto(r, "done")
    /\ Respond(r)
    /\ task' = [task EXCEPT ![r] = "none"]
    /\ result' = [result EXCEPT ![r] = "none"]
    /\ UNCHANGED <<server, text, queue, running, cacheVars, rateVars, now>>

-----------------------------------------------------------------------------
\* The blocking server: one thread takes the next connection when the handler of
\* the last one is done, so a handler is one action. An exception that leaves it
\* closes the connection without an answer.

\* do_OPTIONS, do_GET and the handlers of the other POST requests.
SyncServe(r) ==
    /\ server = "blocking" /\ pc[r] = "arrived"
    /\ Respond(r) \/ UNCHANGED answer
    /\ Goto(r, "done")
    /\ UNCHANGED <<server, text, active, poolVars, cacheVars, rateVars, now>>

\* RAGHandler._handle_chat: the rate, a body that raises, a refused question.
SyncRefused(r) ==
    /\ server = "blocking" /\ pc[r] = "arrived"
    /\ \E i \in IPs :
        \/ RateRefuses(i) /\ Respond(r)
        \/ RateAccepts(i) /\ (Respond(r) \/ UNCHANGED answer)
    /\ Goto(r, "done")
    /\ UNCHANGED <<server, text, active, poolVars, cacheVars, now>>

\* RAGHandler._handle_chat from the cache on: a hit, a new answer, an exception.
SyncChat(r) ==
    /\ server = "blocking" /\ pc[r] = "arrived"
    /\ \E i \in IPs : RateAccepts(i)
    /\ \E q \in Asked(r) :
        /\ text' = [text EXCEPT ![r] = q]
        /\ \/ /\ \E o \in CacheFinds(q) :
                    /\ flagged' = flagged \cup {o}
                    /\ answer' = [answer EXCEPT ![r] =
                          [started |-> TRUE, by |-> o, cached |-> TRUE]]
              /\ UNCHANGED cache
           \/ /\ CacheFinds(q) = {}
              /\ cache' = [cache EXCEPT ![q] = r]
              /\ answer' = [answer EXCEPT ![r] =
                    [started |-> TRUE, by |-> r, cached |-> FALSE]]
              /\ UNCHANGED flagged
           \/ CacheFinds(q) = {} /\ Respond(r) /\ UNCHANGED cacheVars
    /\ Goto(r, "done")
    /\ UNCHANGED <<server, active, poolVars, now>>

-----------------------------------------------------------------------------

\* An entry expires or is evicted.
Forget(q) ==
    /\ cache[q] # Nothing
    /\ cache' = [cache EXCEPT ![q] = Nothing]
    /\ UNCHANGED <<server, loopVars, text, poolVars, flagged, rateVars, now>>

Tick ==
    /\ now < MaxTime
    /\ now' = now + 1
    /\ UNCHANGED <<server, loopVars, text, poolVars, cacheVars, rateVars>>

Loop(r) ==
    \/ Preflight(r) \/ Overload(r) \/ Admit(r)
    \/ ReadPost(r) \/ ReadRefused(r) \/ ReadChat(r) \/ ReadStream(r)
    \/ ResumeRaised(r) \/ ResumeStatus(r) \/ ResumeChat(r) \/ ResumeVector(r)
    \/ ResumeStream(r) \/ StreamPut(r) \/ Finally(r)

Job(r) ==
    \/ RunCall(r) \/ ChatRejects(r) \/ ChatHit(r) \/ ChatMiss(r)
    \/ ChatAnswers(r) \/ ChatFails(r)

Sync(r) == SyncServe(r) \/ SyncRefused(r) \/ SyncChat(r)

Next ==
    \/ Connect
    \/ \E r \in Requests : Loop(r) \/ Job(r) \/ Sync(r)
    \/ StartJob
    \/ \E q \in Queries : Forget(q)
    \/ Tick

\* The loop and the threads go on, jobs return or raise, and clients send the body
\* they announced or close. Nobody has to connect, entries need not vanish.
Fairness ==
    /\ WF_vars(StartJob)
    /\ \A r \in Requests : WF_vars(Loop(r)) /\ WF_vars(Job(r)) /\ WF_vars(Sync(r))

Spec == Init /\ [][Next]_vars /\ Fairness

-----------------------------------------------------------------------------

TypeOK ==
    /\ server \in {"async", "blocking"}
    /\ pc \in [Requests -> Locations]
    /\ text \in [Requests -> Queries \cup {Nothing}]
    /\ active \in 0 .. MaxConcurrent
    /\ queue \in Seq(Requests)
    /\ running \subseteq Requests
    /\ task \in [Requests -> TaskNames]
    /\ result \in [Requests -> Requests \cup Outcomes]
    /\ cache \in [Queries -> Requests \cup {Nothing}]
    /\ flagged \subseteq Requests
    /\ rate \in [IPs -> SUBSET (Nat \ {0})]
    /\ accepted \in [IPs -> Seq(0 .. MaxTime)]
    /\ answer \in [Requests -> Answer]
    /\ now \in 0 .. MaxTime

\* The admission counter is the number of requests between their admission and the
\* end of their finally block, whichever way they leave (_active_requests), and no
\* more than _max_concurrent are admitted.
PlacesGivenBack ==
    /\ active = Cardinality({r \in Requests : pc[r] \in InService})
    /\ active <= MaxConcurrent

\* _check_rate: in no stretch of _RATE_WINDOW seconds does an address have more than
\* _RATE_MAX chat requests accepted, although it keeps only the recent times.
RateKept ==
    \A i \in IPs : \A t \in 0 .. MaxTime :
        Cardinality({n \in DOMAIN accepted[i] :
                        accepted[i][n] <= t /\ t - accepted[i][n] < RateWindow}) <= RateMax

\* A client that is told "cached": False got an answer that was computed for its own
\* request, and every answer was computed for the client's question or for one similar to
\* it, never for one similar to a similar one: dictionaries are shared between cache,
\* threads and loop, the flag is set in place, and what a similar question found is not
\* put under the new one.
AnswersTellTheirOrigin ==
    \A r \in Requests : answer[r].by # Nothing =>
        /\ text[answer[r].by] = text[r] \/ text[answer[r].by] \in Alike[text[r]]
        /\ ~answer[r].cached => answer[r].by = r

\* Every request ends, with one answer or a closed connection.
EveryRequestEnds == \A r \in Requests : pc[r] = "arrived" ~> pc[r] = "done"

=============================================================================
