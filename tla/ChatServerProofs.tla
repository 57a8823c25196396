-------------------------- MODULE ChatServerProofs --------------------------
(***************************************************************************)
(* What the two HTTP servers guarantee for any number of requests,         *)
(* clients, questions, places and threads, and for any rate limit.         *)
(***************************************************************************)
EXTENDS ChatServer, FiniteSetTheorems, SequenceTheorems, TLAPS

\* The handler, or the job it waits for, may still write the request's question.
Unread(r) ==
    \/ pc[r] \in {"none", "arrived", "body"}
    \/ pc[r] = "waiting" /\ task[r] = "chat"

\* A job is in the queue or has a thread, once, and then its handler waits for it.
JobsAwaited ==
    /\ \A r \in running : pc[r] = "waiting"
    /\ \A m \in 1 .. Len(queue) : pc[queue[m]] = "waiting" /\ queue[m] \notin running
    /\ \A m, n \in 1 .. Len(queue) : queue[m] = queue[n] => m = n

\* Requests have no job before they are read, and those that compute an answer or
\* look one up have their question.
TasksHaveText ==
    \A r \in Requests :
        /\ pc[r] \in {"none", "arrived", "body"} => task[r] = "none"
        /\ task[r] \in {"answer", "vector", "stream"} => text[r] \in Queries
        /\ pc[r] = "putting" => text[r] \in Queries

\* An answer to question p serves for q.
Serves(p, q) == p = q \/ p \in Alike[q]

\* A dictionary in the cache, on its way to a handler or sent was computed for a
\* question that nobody writes any more.
Origins ==
    /\ \A q \in Queries : cache[q] # Nothing =>
        ~Unread(cache[q]) /\ text[cache[q]] = q
    /\ \A r \in Requests : result[r] \in Requests =>
        /\ ~Unread(r) /\ ~Unread(result[r])
        /\ Serves(text[result[r]], text[r])
        /\ result[r] = r \/ result[r] \in flagged
    /\ \A r \in Requests : answer[r].by # Nothing =>
        ~Unread(r) /\ ~Unread(answer[r].by)

\* What _check_rate has dropped is old, and no accepted request is in the future.
DroppedAreOld ==
    \A i \in IPs :
        /\ rate[i] \subseteq 1 .. Len(accepted[i])
        /\ \A n \in 1 .. Len(accepted[i]) :
            /\ accepted[i][n] <= now
            /\ n \notin rate[i] => now - accepted[i][n] >= RateWindow

IInv ==
    /\ TypeOK
    /\ PlacesGivenBack
    /\ JobsAwaited
    /\ TasksHaveText
    /\ Origins
    /\ AnswersTellTheirOrigin
    /\ DroppedAreOld
    /\ RateKept

-----------------------------------------------------------------------------
(* Types *)

\* What the cache finds is a dictionary,
LEMMA FindsType ==
    ASSUME TypeOK, NEW q \in Queries, NEW o \in CacheFinds(q)
    PROVE  o \in Requests
  BY DEF TypeOK, CacheFinds

LEMMA InitType == Init => TypeOK
<1> SUFFICES ASSUME Init PROVE TypeOK
  OBVIOUS
<1>1. active \in 0 .. MaxConcurrent /\ now \in 0 .. MaxTime
  BY ServerAssumption DEF Init
<1>2. queue \in Seq(Requests) /\ rate \in [IPs -> SUBSET (Nat \ {0})]
      /\ accepted \in [IPs -> Seq(0 .. MaxTime)]
  BY DEF Init
<1> QED
  BY <1>1, <1>2 DEF Init, TypeOK, Locations, TaskNames, Outcomes, Answer, NoAnswer

\* A request in service holds one of the places counted.
LEMMA PlaceHeld ==
    ASSUME PlacesGivenBack, NEW r \in Requests, pc[r] \in InService
    PROVE  active \in Nat /\ active > 0
<1> DEFINE S == {x \in Requests : pc[x] \in InService}
<1>1. IsFiniteSet(S)
  BY ServerAssumption, FS_Subset
<1>2. S # {}
  OBVIOUS
<1>3. Cardinality(S) \in Nat /\ Cardinality(S) # 0
  BY <1>1, <1>2, FS_CardinalityType, FS_EmptySet
<1> QED
  BY <1>3 DEF PlacesGivenBack

\* _check_rate keeps and records times.
LEMMA RateType ==
    ASSUME TypeOK, NEW i \in IPs, RateAccepts(i) \/ RateRefuses(i)
    PROVE  /\ rate' \in [IPs -> SUBSET (Nat \ {0})]
           /\ accepted' \in [IPs -> Seq(0 .. MaxTime)]
<1>1. Recent(i) \subseteq Nat \ {0}
  BY DEF TypeOK, Recent
<1>2. Len(accepted[i]) + 1 \in Nat \ {0}
  BY DEF TypeOK
<1>3. Append(accepted[i], now) \in Seq(0 .. MaxTime)
  BY DEF TypeOK
<1> QED
  BY <1>1, <1>2, <1>3 DEF TypeOK, RateAccepts, RateRefuses, Accept

\* Putting a job in the queue.
LEMMA SubmitType ==
    ASSUME TypeOK, NEW r \in Requests, NEW f \in {"call", "chat", "vector", "stream"},
           Submit(r, f)
    PROVE  /\ pc' \in [Requests -> Locations]
           /\ queue' \in Seq(Requests)
           /\ running' \subseteq Requests
           /\ task' \in [Requests -> TaskNames]
           /\ result' \in [Requests -> Requests \cup Outcomes]
BY DEF TypeOK, Submit, Goto, Locations, TaskNames, Outcomes

\* The end of a job.
LEMMA EndJobType ==
    ASSUME TypeOK, NEW r \in Requests, NEW x \in Requests \cup Outcomes, EndJob(r, x)
    PROVE  /\ pc' \in [Requests -> Locations]
           /\ queue' \in Seq(Requests)
           /\ running' \subseteq Requests
           /\ task' \in [Requests -> TaskNames]
           /\ result' \in [Requests -> Requests \cup Outcomes]
BY DEF TypeOK, EndJob, Goto, Locations

\* A response starts, or goes on.
LEMMA RespondType ==
    ASSUME TypeOK, NEW r \in Requests,
           \/ Respond(r)
           \/ answer' = [answer EXCEPT ![r].by = r]
           \/ \E o \in Requests, c \in BOOLEAN :
                answer' = [answer EXCEPT ![r] = [started |-> TRUE, by |-> o, cached |-> c]]
    PROVE  answer' \in [Requests -> Answer]
<1> DEFINE a == answer[r]
<1>0. a \in Answer
  BY DEF TypeOK
<1>1. CASE Respond(r)
  <2>1. [a EXCEPT !.started = TRUE] \in Answer
    BY <1>0 DEF Answer
  <2>2. answer' = [answer EXCEPT ![r] = [a EXCEPT !.started = TRUE]]
    BY <1>1 DEF Respond
  <2> QED
    BY <2>1, <2>2 DEF TypeOK
<1>2. CASE answer' = [answer EXCEPT ![r].by = r]
  <2>1. [a EXCEPT !.by = r] \in Answer
    BY <1>0 DEF Answer
  <2>2. answer' = [answer EXCEPT ![r] = [a EXCEPT !.by = r]]
    BY <1>2
  <2> QED
    BY <2>1, <2>2 DEF TypeOK
<1>3. ASSUME NEW o \in Requests, NEW c \in BOOLEAN,
             answer' = [answer EXCEPT ![r] = [started |-> TRUE, by |-> o, cached |-> c]]
      PROVE  answer' \in [Requests -> Answer]
  <2>1. [started |-> TRUE, by |-> o, cached |-> c] \in Answer
    BY DEF Answer
  <2> QED
    BY <1>3, <2>1 DEF TypeOK
<1> QED
  BY <1>1, <1>2, <1>3

LEMMA GotoType ==
    ASSUME TypeOK, NEW r \in Requests, NEW l \in Locations, Goto(r, l)
    PROVE  pc' \in [Requests -> Locations]
BY DEF TypeOK, Goto

LEMMA LoopType ==
    ASSUME TypeOK, PlacesGivenBack, Origins, TasksHaveText, NEW r \in Requests, Loop(r)
    PROVE  TypeOK'
<1> USE DEF Locations
<1>1. CASE Preflight(r) \/ Overload(r)
  BY <1>1, GotoType, RespondType DEF Preflight, Overload, TypeOK, poolVars, cacheVars, rateVars
<1>2. CASE Admit(r)
  <2>1. active' \in 0 .. MaxConcurrent
    BY <1>2, ServerAssumption DEF Admit, TypeOK
  <2>2. /\ pc' \in [Requests -> Locations]
        /\ queue' \in Seq(Requests)
        /\ running' \subseteq Requests
        /\ task' \in [Requests -> TaskNames]
        /\ result' \in [Requests -> Requests \cup Outcomes]
    BY <1>2, SubmitType, GotoType DEF Admit, TypeOK, poolVars
  <2>3. answer' \in [Requests -> Answer]
    BY <1>2, RespondType DEF Admit, TypeOK
  <2> QED
    BY <1>2, <2>1, <2>2, <2>3 DEF Admit, TypeOK, cacheVars, rateVars
<1>3. CASE ReadPost(r)
  <2>2. /\ pc' \in [Requests -> Locations]
        /\ queue' \in Seq(Requests)
        /\ running' \subseteq Requests
        /\ task' \in [Requests -> TaskNames]
        /\ result' \in [Requests -> Requests \cup Outcomes]
    BY <1>3, SubmitType, GotoType DEF ReadPost, TypeOK, poolVars
  <2>3. answer' \in [Requests -> Answer]
    BY <1>3, RespondType DEF ReadPost, TypeOK
  <2> QED
    BY <1>3, <2>2, <2>3 DEF ReadPost, TypeOK, cacheVars, rateVars
<1>4. CASE ReadRefused(r)
  BY <1>4, RateType, GotoType, RespondType DEF ReadRefused, TypeOK, poolVars, cacheVars
<1>5. CASE ReadChat(r)
  BY <1>5, RateType, SubmitType DEF ReadChat, TypeOK, cacheVars
<1>6. CASE ReadStream(r)
  <2>1. /\ pc' \in [Requests -> Locations]
        /\ queue' \in Seq(Requests)
        /\ running' \subseteq Requests
        /\ task' \in [Requests -> TaskNames]
        /\ result' \in [Requests -> Requests \cup Outcomes]
    BY <1>6, SubmitType, GotoType DEF ReadStream, TypeOK, poolVars
  <2>2. answer' \in [Requests -> Answer] /\ text' \in [Requests -> Queries \cup {Nothing}]
    BY <1>6, RespondType DEF ReadStream, Asked, TypeOK
  <2>3. rate' \in [IPs -> SUBSET (Nat \ {0})] /\ accepted' \in [IPs -> Seq(0 .. MaxTime)]
    BY <1>6, RateType DEF ReadStream
  <2> QED
    BY <1>6, <2>1, <2>2, <2>3 DEF ReadStream, TypeOK, cacheVars
<1>7. CASE ResumeRaised(r)
  BY <1>7, GotoType DEF ResumeRaised, TypeOK, poolVars, cacheVars, rateVars
<1>8. CASE ResumeStatus(r)
  BY <1>8, GotoType, RespondType DEF ResumeStatus, TypeOK, poolVars, cacheVars, rateVars
<1>9. CASE ResumeChat(r)
  <2> DEFINE c == result[r] \in flagged
  <2>1. c \in BOOLEAN /\ result[r] \in Requests
    BY <1>9 DEF ResumeChat
  <2>2. answer' = [answer EXCEPT ![r] =
            [started |-> TRUE, by |-> result[r], cached |-> c]]
    BY <1>9 DEF ResumeChat, RespondWith
  <2> HIDE DEF c
  <2>3. answer' \in [Requests -> Answer]
    BY <2>1, <2>2, RespondType
  <2> QED
    BY <1>9, <2>3, GotoType DEF ResumeChat, TypeOK, poolVars, cacheVars, rateVars
<1>10. CASE ResumeVector(r)
  <2>1. text[r] \in Queries
    BY <1>10 DEF ResumeVector, TypeOK, TasksHaveText
  <2>2. answer' \in [Requests -> Answer]
    BY <1>10, <2>1, FindsType, RespondType DEF ResumeVector
  <2>3. /\ pc' \in [Requests -> Locations]
        /\ queue' \in Seq(Requests)
        /\ running' \subseteq Requests
        /\ task' \in [Requests -> TaskNames]
        /\ result' \in [Requests -> Requests \cup Outcomes]
    BY <1>10, SubmitType, GotoType DEF ResumeVector, TypeOK, poolVars
  <2> QED
    BY <1>10, <2>2, <2>3 DEF ResumeVector, TypeOK, cacheVars, rateVars
<1>11. CASE ResumeStream(r)
  BY <1>11, GotoType, RespondType DEF ResumeStream, TypeOK, poolVars, cacheVars, rateVars
<1>12. CASE StreamPut(r)
  <2>1. cache' \in [Queries -> Requests \cup {Nothing}]
    BY <1>12 DEF StreamPut, TypeOK
  <2> QED
    BY <1>12, <2>1, GotoType DEF StreamPut, TypeOK, poolVars, rateVars
<1>13. CASE Finally(r)
  <2>1. active' \in 0 .. MaxConcurrent
    BY <1>13, PlaceHeld, ServerAssumption DEF Finally, TypeOK, InService
  <2>2. task' \in [Requests -> TaskNames]
        /\ result' \in [Requests -> Requests \cup Outcomes]
    BY <1>13 DEF Finally, TypeOK, TaskNames, Outcomes
  <2> QED
    BY <1>13, <2>1, <2>2, GotoType, RespondType DEF Finally, TypeOK, cacheVars, rateVars
<1> QED
  BY <1>1, <1>2, <1>3, <1>4, <1>5, <1>6, <1>7, <1>8, <1>9, <1>10, <1>11, <1>12, <1>13
  DEF Loop

LEMMA JobType ==
    ASSUME TypeOK, TasksHaveText, NEW r \in Requests, Job(r)
    PROVE  TypeOK'
<1>1. CASE RunCall(r)
  BY <1>1, EndJobType DEF RunCall, TypeOK, cacheVars, rateVars, Outcomes
<1>2. CASE ChatRejects(r)
  BY <1>2, EndJobType DEF ChatRejects, TypeOK, cacheVars, rateVars, Outcomes
<1>3. CASE ChatHit(r)
  <2>1. PICK q \in Queries : \E o \in CacheFinds(q) :
            /\ text' = [text EXCEPT ![r] = q]
            /\ flagged' = flagged \cup {o}
            /\ EndJob(r, o)
    BY <1>3 DEF ChatHit, Asked
  <2>2. CacheFinds(q) \subseteq Requests
    BY FindsType
  <2> QED
    BY <1>3, <2>1, <2>2, EndJobType DEF ChatHit, TypeOK, rateVars
<1>4. CASE ChatMiss(r)
  BY <1>4 DEF ChatMiss, Asked, TypeOK, TaskNames, loopVars, cacheVars, rateVars
<1>5. CASE ChatAnswers(r)
  <2>1. cache' \in [Queries -> Requests \cup {Nothing}]
    BY <1>5 DEF ChatAnswers, TypeOK
  <2> QED
    BY <1>5, <2>1, EndJobType DEF ChatAnswers, TypeOK, rateVars
<1>6. CASE ChatFails(r)
  BY <1>6, EndJobType DEF ChatFails, TypeOK, cacheVars, rateVars, Outcomes
<1> QED
  BY <1>1, <1>2, <1>3, <1>4, <1>5, <1>6 DEF Job

LEMMA SyncType ==
    ASSUME TypeOK, NEW r \in Requests, Sync(r)
    PROVE  TypeOK'
<1> USE DEF Locations
<1>1. CASE SyncServe(r)
  BY <1>1, GotoType, RespondType DEF SyncServe, TypeOK, poolVars, cacheVars, rateVars
<1>2. CASE SyncRefused(r)
  <2>1. rate' \in [IPs -> SUBSET (Nat \ {0})] /\ accepted' \in [IPs -> Seq(0 .. MaxTime)]
    BY <1>2, RateType DEF SyncRefused
  <2>2. answer' \in [Requests -> Answer]
    BY <1>2, RespondType DEF SyncRefused, TypeOK
  <2> QED
    BY <1>2, <2>1, <2>2, GotoType DEF SyncRefused, TypeOK, poolVars, cacheVars
<1>3. CASE SyncChat(r)
  <2>1. PICK q \in Queries :
        /\ text' = [text EXCEPT ![r] = q]
        /\ \/ /\ \E o \in CacheFinds(q) :
                    /\ flagged' = flagged \cup {o}
                    /\ answer' = [answer EXCEPT ![r] =
                          [started |-> TRUE, by |-> o, cached |-> TRUE]]
              /\ UNCHANGED cache
           \/ /\ CacheFinds(q) = {}
              /\ cache' = [cache EXCEPT ![q] = r]
              /\ answer' = [answer EXCEPT ![r] =
                    [started |-> TRUE, by |-> r, cached |-> FALSE]]
              /\ UNCHANGED flagged
           \/ CacheFinds(q) = {} /\ Respond(r) /\ UNCHANGED cacheVars
    BY <1>3 DEF SyncChat, Asked
  <2>2. rate' \in [IPs -> SUBSET (Nat \ {0})] /\ accepted' \in [IPs -> Seq(0 .. MaxTime)]
    BY <1>3, RateType DEF SyncChat
  <2>3. answer' \in [Requests -> Answer]
    BY <2>1, FindsType, RespondType DEF TypeOK
  <2>4. /\ text' \in [Requests -> Queries \cup {Nothing}]
        /\ cache' \in [Queries -> Requests \cup {Nothing}]
        /\ flagged' \subseteq Requests
    BY <2>1, FindsType DEF TypeOK, cacheVars
  <2> QED
    BY <1>3, <2>2, <2>3, <2>4, GotoType DEF SyncChat, TypeOK, poolVars
<1> QED
  BY <1>1, <1>2, <1>3 DEF Sync

LEMMA NextType ==
    ASSUME TypeOK, PlacesGivenBack, Origins, TasksHaveText, [Next]_vars
    PROVE  TypeOK'
<1>1. CASE Connect
  BY <1>1 DEF Connect, TypeOK, Locations, poolVars, cacheVars, rateVars
<1>2. CASE \E r \in Requests : Loop(r) \/ Job(r) \/ Sync(r)
  BY <1>2, LoopType, JobType, SyncType
<1>3. CASE StartJob
  <2>1. Head(queue) \in Requests /\ Tail(queue) \in Seq(Requests)
    BY <1>3, HeadTailProperties DEF StartJob, TypeOK
  <2> QED
    BY <1>3, <2>1 DEF StartJob, TypeOK, loopVars, cacheVars, rateVars
<1>4. CASE \E q \in Queries : Forget(q)
  BY <1>4 DEF Forget, TypeOK, loopVars, poolVars, rateVars
<1>5. CASE Tick
  <2>1. now' \in 0 .. MaxTime
    BY <1>5, ServerAssumption DEF Tick, TypeOK
  <2> QED
    BY <1>5, <2>1 DEF Tick, TypeOK, loopVars, poolVars, cacheVars, rateVars
<1>6. CASE UNCHANGED vars
  BY <1>6 DEF vars, TypeOK
<1> QED
  BY <1>1, <1>2, <1>3, <1>4, <1>5, <1>6 DEF Next

-----------------------------------------------------------------------------
(* Places and jobs *)

\* Nobody enters or leaves.
LEMMA SameInService ==
    ASSUME PlacesGivenBack, active' = active,
           \A x \in Requests : pc'[x] \in InService <=> pc[x] \in InService
    PROVE  PlacesGivenBack'
<1>1. {x \in Requests : pc'[x] \in InService} = {x \in Requests : pc[x] \in InService}
  OBVIOUS
<1> QED
  BY <1>1 DEF PlacesGivenBack

\* A handler goes from one place to another.
LEMMA MovesInService ==
    ASSUME TypeOK, PlacesGivenBack, active' = active, NEW r \in Requests, NEW l,
           Goto(r, l), l \in InService <=> pc[r] \in InService
    PROVE  PlacesGivenBack'
BY SameInService DEF TypeOK, Goto

\* One request is admitted.
LEMMA EntersService ==
    ASSUME TypeOK, PlacesGivenBack, NEW r \in Requests, NEW l \in InService, Goto(r, l),
           pc[r] \notin InService, active < MaxConcurrent, active' = active + 1
    PROVE  PlacesGivenBack'
<1> DEFINE S == {x \in Requests : pc[x] \in InService}
           T == {x \in Requests : pc'[x] \in InService}
<1>1. T = S \cup {r} /\ r \notin S
  BY DEF TypeOK, Goto
<1>2. IsFiniteSet(S)
  BY ServerAssumption, FS_Subset
<1>3. Cardinality(T) = Cardinality(S) + 1
  BY <1>1, <1>2, FS_AddElement
<1>4. active + 1 <= MaxConcurrent
  BY ServerAssumption DEF TypeOK
<1> QED
  BY <1>3, <1>4 DEF PlacesGivenBack

\* One request is done.
LEMMA LeavesService ==
    ASSUME TypeOK, PlacesGivenBack, NEW r \in Requests, Goto(r, "done"),
           pc[r] \in InService, active' = active - 1
    PROVE  PlacesGivenBack'
<1> DEFINE S == {x \in Requests : pc[x] \in InService}
           T == {x \in Requests : pc'[x] \in InService}
<1>1. T = S \ {r} /\ r \in S
  BY DEF TypeOK, Goto, InService
<1>2. IsFiniteSet(S)
  BY ServerAssumption, FS_Subset
<1>3. Cardinality(T) = Cardinality(S) - 1
  BY <1>1, <1>2, FS_RemoveElement
<1>4. active - 1 <= MaxConcurrent
  BY ServerAssumption DEF TypeOK
<1> QED
  BY <1>3, <1>4 DEF PlacesGivenBack

\* A handler that waits for no job goes on.
LEMMA GoesOn ==
    ASSUME TypeOK, JobsAwaited, NEW r \in Requests, pc[r] # "waiting", NEW l, Goto(r, l),
           UNCHANGED <<queue, running>>
    PROVE  JobsAwaited'
<1>1. \A m \in 1 .. Len(queue) : queue[m] \in Requests /\ queue[m] # r
  BY DEF TypeOK, JobsAwaited
<1>2. r \notin running /\ running \subseteq Requests
  BY DEF TypeOK, JobsAwaited
<1> QED
  BY <1>1, <1>2 DEF TypeOK, JobsAwaited, Goto

\* A handler hands a job to the pool and waits.
LEMMA HandsOver ==
    ASSUME TypeOK, JobsAwaited, NEW r \in Requests, pc[r] # "waiting", NEW f, Submit(r, f)
    PROVE  JobsAwaited'
<1>1. \A m \in 1 .. Len(queue) : queue[m] \in Requests /\ queue[m] # r
  BY DEF TypeOK, JobsAwaited
<1>2. r \notin running /\ running \subseteq Requests
  BY DEF TypeOK, JobsAwaited
<1>3. /\ Len(queue') = Len(queue) + 1
      /\ \A m \in 1 .. Len(queue) : queue'[m] = queue[m]
      /\ queue'[Len(queue) + 1] = r
      /\ Len(queue) \in Nat
  BY AppendProperties DEF Submit, TypeOK
<1>4. /\ running' = running
      /\ pc'[r] = "waiting"
      /\ \A x \in Requests : x # r => pc'[x] = pc[x]
  BY DEF Submit, Goto, TypeOK
<1>5. \A m \in 1 .. Len(queue') : m \in 1 .. Len(queue) \/ m = Len(queue) + 1
  BY <1>3
<1>6. \A m \in 1 .. Len(queue') : pc'[queue'[m]] = "waiting" /\ queue'[m] \notin running'
  BY <1>1, <1>2, <1>3, <1>4, <1>5 DEF JobsAwaited
<1>7. \A m, n \in 1 .. Len(queue') : queue'[m] = queue'[n] => m = n
  BY <1>1, <1>3, <1>5 DEF JobsAwaited
<1>8. \A x \in running' : pc'[x] = "waiting"
  BY <1>2, <1>4 DEF JobsAwaited
<1> QED
  BY <1>6, <1>7, <1>8 DEF JobsAwaited

\* A job ends; no other handler waited for it.
LEMMA ComesBack ==
    ASSUME TypeOK, JobsAwaited, NEW r \in running, NEW x, EndJob(r, x)
    PROVE  JobsAwaited'
<1>1. \A m \in 1 .. Len(queue) : queue[m] \in Requests /\ queue[m] # r
  BY DEF TypeOK, JobsAwaited
<1>2. running' = running \ {r} /\ running \subseteq Requests /\ queue' = queue
  BY DEF TypeOK, EndJob
<1>3. \A y \in Requests : y # r => pc'[y] = pc[y]
  BY DEF EndJob, Goto, TypeOK
<1> QED
  BY <1>1, <1>2, <1>3 DEF JobsAwaited

\* A thread takes a job.
LEMMA ThreadTakes ==
    ASSUME TypeOK, JobsAwaited, StartJob
    PROVE  JobsAwaited'
<1>1. /\ queue \in Seq(Requests) /\ queue # <<>>
      /\ queue' = Tail(queue)
      /\ running' = running \cup {Head(queue)}
      /\ pc' = pc
  BY DEF StartJob, TypeOK, loopVars
<1>2. /\ Head(queue) = queue[1]
      /\ 1 \in 1 .. Len(queue)
      /\ Len(queue') = Len(queue) - 1
      /\ Len(queue) \in Nat
      /\ \A m \in 1 .. Len(queue') : queue'[m] = queue[m + 1] /\ m + 1 \in 1 .. Len(queue)
  BY <1>1, HeadTailProperties
<1>3. \A m \in 1 .. Len(queue') : pc'[queue'[m]] = "waiting" /\ queue'[m] \notin running'
  BY <1>1, <1>2 DEF JobsAwaited
<1>4. \A m, n \in 1 .. Len(queue') : queue'[m] = queue'[n] => m = n
  BY <1>1, <1>2 DEF JobsAwaited
<1>5. \A x \in running' : pc'[x] = "waiting"
  BY <1>1, <1>2 DEF JobsAwaited
<1> QED
  BY <1>3, <1>4, <1>5 DEF JobsAwaited

\* Every step keeps the count of places and the order of the jobs.
LEMMA NextPlaces ==
    ASSUME TypeOK, PlacesGivenBack, JobsAwaited, [Next]_vars
    PROVE  PlacesGivenBack' /\ JobsAwaited'
<1> USE DEF InService
<1>1. CASE Connect
  <2> DEFINE r == CHOOSE x \in Requests : pc[x] = "none"
  <2>1. r \in Requests /\ pc[r] = "none" /\ Goto(r, "arrived")
    BY <1>1 DEF Connect, Goto
  <2> HIDE DEF r
  <2> QED
    BY <1>1, <2>1, MovesInService, GoesOn DEF Connect, poolVars
<1>2. ASSUME NEW r \in Requests, Loop(r)
      PROVE  PlacesGivenBack' /\ JobsAwaited'
  <2>1. CASE Preflight(r) \/ Overload(r)
    BY <2>1, MovesInService, GoesOn DEF Preflight, Overload, poolVars
  <2>2. CASE Admit(r)
    <3>1. PICK l \in {"body", "sending", "waiting"} : Goto(r, l)
      BY <2>2 DEF Admit, Submit
    <3>2. PlacesGivenBack'
      BY <2>2, <3>1, EntersService DEF Admit
    <3>3. JobsAwaited'
      BY <2>2, HandsOver, GoesOn DEF Admit, poolVars
    <3> QED
      BY <3>2, <3>3
  <2>3. CASE ReadPost(r)
    <3>1. PICK l \in {"sending", "waiting"} : Goto(r, l)
      BY <2>3 DEF ReadPost, Submit
    <3>2. PlacesGivenBack'
      BY <2>3, <3>1, MovesInService DEF ReadPost
    <3>3. JobsAwaited'
      BY <2>3, HandsOver, GoesOn DEF ReadPost, poolVars
    <3> QED
      BY <3>2, <3>3
  <2>4. CASE ReadRefused(r)
    BY <2>4, MovesInService, GoesOn DEF ReadRefused, poolVars
  <2>5. CASE ReadChat(r)
    <3>1. PlacesGivenBack'
      BY <2>5, MovesInService DEF ReadChat, Submit
    <3>2. JobsAwaited'
      BY <2>5, HandsOver DEF ReadChat
    <3> QED
      BY <3>1, <3>2
  <2>6. CASE ReadStream(r)
    <3>1. PICK l \in {"raised", "sending", "waiting"} : Goto(r, l)
      BY <2>6 DEF ReadStream, Submit
    <3>2. PlacesGivenBack'
      BY <2>6, <3>1, MovesInService DEF ReadStream
    <3>3. JobsAwaited'
      BY <2>6, HandsOver, GoesOn DEF ReadStream, poolVars
    <3> QED
      BY <3>2, <3>3
  <2>7. CASE ResumeRaised(r) \/ ResumeStatus(r) \/ ResumeChat(r)
             \/ ResumeStream(r) \/ StreamPut(r)
    BY <2>7, MovesInService, GoesOn
    DEF ResumeRaised, ResumeStatus, ResumeChat, ResumeStream, StreamPut, poolVars
  <2>8. CASE ResumeVector(r)
    <3>1. PICK l \in {"sending", "waiting"} : Goto(r, l)
      BY <2>8 DEF ResumeVector, Submit
    <3>2. PlacesGivenBack'
      BY <2>8, <3>1, MovesInService DEF ResumeVector
    <3>3. JobsAwaited'
      BY <2>8, HandsOver, GoesOn DEF ResumeVector, poolVars
    <3> QED
      BY <3>2, <3>3
  <2>9. CASE Finally(r)
    BY <2>9, LeavesService, GoesOn DEF Finally
  <2> QED
    BY <1>2, <2>1, <2>2, <2>3, <2>4, <2>5, <2>6, <2>7, <2>8, <2>9 DEF Loop
<1>3. ASSUME NEW r \in Requests, Job(r)
      PROVE  PlacesGivenBack' /\ JobsAwaited'
  <2>1. r \in running /\ pc[r] = "waiting" /\ active' = active
    BY <1>3 DEF Job, RunCall, ChatRejects, ChatHit, ChatMiss, ChatAnswers, ChatFails,
                loopVars, JobsAwaited
  <2>2. CASE ChatMiss(r)
    BY <2>2, SameInService DEF ChatMiss, loopVars, JobsAwaited
  <2>3. CASE \E x \in Requests \cup Outcomes \cup {Nothing} : EndJob(r, x)
    <3>1. Goto(r, "resumed")
      BY <2>3 DEF EndJob
    <3> QED
      BY <2>1, <2>3, <3>1, MovesInService, ComesBack
  <2>4. ChatMiss(r) \/ \E x \in Requests \cup Outcomes \cup {Nothing} : EndJob(r, x)
    <3>1. CASE ChatHit(r)
      <4>1. \A q \in Queries : \A o \in CacheFinds(q) : o \in Requests
        BY FindsType
      <4> QED
        BY <3>1, <4>1 DEF ChatHit, Asked
    <3> QED
      BY <1>3, <3>1 DEF Job, RunCall, ChatRejects, ChatAnswers, ChatFails, Outcomes
  <2> QED
    BY <2>2, <2>3, <2>4
<1>4. ASSUME NEW r \in Requests, Sync(r)
      PROVE  PlacesGivenBack' /\ JobsAwaited'
  <2>1. pc[r] = "arrived" /\ Goto(r, "done") /\ UNCHANGED <<active, queue, running>>
    BY <1>4 DEF Sync, SyncServe, SyncRefused, SyncChat, poolVars
  <2> QED
    BY <2>1, MovesInService, GoesOn
<1>5. CASE StartJob
  BY <1>5, SameInService, ThreadTakes DEF StartJob, loopVars
<1>6. CASE (\E q \in Queries : Forget(q)) \/ Tick \/ UNCHANGED vars
  <2>1. UNCHANGED <<pc, active, queue, running>>
    BY <1>6 DEF Forget, Tick, vars, loopVars, poolVars
  <2> QED
    BY <2>1, SameInService DEF JobsAwaited
<1> QED
  BY <1>1, <1>2, <1>3, <1>4, <1>5, <1>6 DEF Next

-----------------------------------------------------------------------------
(* Whose answer it is *)

\* What a step of request r may do to the dictionaries and their questions.
\* The step touches nothing of the other requests,
OthersKept(r) ==
    \A x \in Requests \ {r} :
        /\ pc'[x] = pc[x] /\ task'[x] = task[x] /\ text'[x] = text[x]
        /\ result'[x] = result[x] /\ answer'[x] = answer[x]

\* never writes a question that has been read,
QuestionKept(r) == ~Unread(r) => ~Unread(r)' /\ text'[r] = text[r]

\* puts nothing but the request's own dictionary under its own question,
PutsItsOwn(r) ==
    /\ flagged \subseteq flagged'
    /\ \A q \in Queries :
        \/ cache'[q] \in {cache[q], Nothing}
        \/ cache'[q] = r /\ text'[r] = q /\ ~Unread(r)'

\* ends a job with that dictionary or with one the cache finds for its question,
ReturnsItsOwn(r) ==
    result'[r] \in Requests =>
        \/ result'[r] = result[r]
        \/ result'[r] = r /\ ~Unread(r)'
        \/ /\ ~Unread(r)' /\ result'[r] \in flagged'
           /\ text'[r] \in Queries /\ result'[r] \in CacheFinds(text'[r])

\* and sends the one its job returned, or the one found.
SendsItsOwn(r) ==
    answer'[r].by # Nothing =>
        \/ answer'[r].by = answer[r].by /\ answer'[r].cached = answer[r].cached
        \/ answer'[r].by = r /\ ~Unread(r)'
        \/ /\ ~Unread(r)' /\ answer'[r].cached
           /\ text'[r] \in Queries /\ answer'[r].by \in CacheFinds(text'[r])
        \/ /\ answer'[r].by = result[r] /\ result[r] \in Requests
           /\ answer'[r].cached <=> result[r] \in flagged

StepOf(r) ==
    OthersKept(r) /\ QuestionKept(r) /\ PutsItsOwn(r) /\ ReturnsItsOwn(r) /\ SendsItsOwn(r)

\* What the cache finds serves for the question.
LEMMA FoundServes ==
    ASSUME TypeOK, Origins, NEW q \in Queries, NEW o \in CacheFinds(q)
    PROVE  o \in Requests /\ ~Unread(o) /\ Serves(text[o], q)
<1>1. CASE cache[q] # Nothing
  BY <1>1 DEF TypeOK, Origins, CacheFinds, Serves
<1>2. CASE cache[q] = Nothing
  <2>1. PICK p \in Queries : p \in Alike[q] /\ cache[p] # Nothing /\ o = cache[p]
    BY <1>2 DEF CacheFinds
  <2> QED
    BY <2>1 DEF TypeOK, Origins, Serves
<1> QED
  BY <1>1, <1>2

\* Such a step keeps the origin of every answer.
LEMMA OriginsKept ==
    ASSUME TypeOK, TypeOK', Origins, AnswersTellTheirOrigin, NEW r \in Requests, StepOf(r)
    PROVE  Origins' /\ AnswersTellTheirOrigin'
<1>1. \A x \in Requests : ~Unread(x) => ~Unread(x)' /\ text'[x] = text[x]
  BY DEF StepOf, OthersKept, QuestionKept, Unread
<1>2. \A q \in Queries : cache'[q] # Nothing =>
        (~Unread(cache[q]))' /\ text'[cache'[q]] = q
  <2> SUFFICES ASSUME NEW q \in Queries, cache'[q] # Nothing
               PROVE  (~Unread(cache[q]))' /\ text'[cache'[q]] = q
    OBVIOUS
  <2>1. CASE cache'[q] = cache[q]
    <3>1. cache[q] \in Requests /\ ~Unread(cache[q]) /\ text[cache[q]] = q
      BY <2>1 DEF TypeOK, Origins
    <3> DEFINE o == cache[q]
    <3>2. ~Unread(o)' /\ text'[o] = q /\ o = cache'[q]
      BY <1>1, <2>1, <3>1
    <3> QED
      BY <3>2, <2>1 DEF Unread
  <2>2. CASE cache'[q] = r /\ text'[r] = q /\ ~Unread(r)'
    BY <2>2 DEF Unread
  <2> QED
    BY <2>1, <2>2 DEF StepOf, PutsItsOwn
<1>3. \A q \in Queries : \A o \in CacheFinds(q) :
        o \in Requests /\ ~Unread(o) /\ Serves(text[o], q)
  BY FoundServes
<1>4. ASSUME NEW x \in Requests, result'[x] \in Requests
      PROVE  /\ ~Unread(x)' /\ (~Unread(result[x]))'
             /\ Serves(text'[result'[x]], text'[x])
             /\ result'[x] = x \/ result'[x] \in flagged'
  <2> DEFINE o == result'[x]
  <2>1. CASE o = result[x]
    <3>1. /\ ~Unread(x) /\ ~Unread(o) /\ o \in Requests
          /\ Serves(text[o], text[x])
          /\ o = x \/ o \in flagged
      BY <1>4, <2>1 DEF Origins
    <3> QED
      BY <1>1, <3>1 DEF StepOf, PutsItsOwn, Unread
  <2>2. CASE x = r /\ o = r /\ ~Unread(r)'
    BY <2>2 DEF Unread, Serves
  <2>3. CASE /\ x = r /\ ~Unread(r)' /\ o \in flagged'
             /\ text'[r] \in Queries /\ o \in CacheFinds(text'[r])
    <3>1. o \in Requests /\ ~Unread(o) /\ Serves(text[o], text'[r])
      BY <1>3, <1>4, <2>3, ServerAssumption
    <3> QED
      BY <1>1, <2>3, <3>1 DEF Unread
  <2> QED
    BY <1>4, <2>1, <2>2, <2>3 DEF StepOf, ReturnsItsOwn, OthersKept
<1>5. ASSUME NEW x \in Requests, answer'[x].by # Nothing
      PROVE  /\ ~Unread(x)' /\ (~Unread(answer[x].by))'
             /\ Serves(text'[answer'[x].by], text'[x])
             /\ ~answer'[x].cached => answer'[x].by = x
  <2> DEFINE o == answer'[x].by
  <2>0. o \in Requests
    BY <1>5 DEF TypeOK, Answer
  <2>1. CASE o = answer[x].by /\ answer'[x].cached = answer[x].cached
    <3>1. /\ ~Unread(x) /\ ~Unread(o) /\ Serves(text[o], text[x])
          /\ ~answer[x].cached => o = x
      BY <1>5, <2>1 DEF Origins, AnswersTellTheirOrigin, Serves
    <3> QED
      BY <1>1, <2>0, <2>1, <3>1 DEF Unread
  <2>2. CASE x = r /\ o = r /\ ~Unread(r)'
    BY <2>2 DEF Unread, Serves
  <2>3. CASE /\ x = r /\ ~Unread(r)' /\ answer'[r].cached
             /\ text'[r] \in Queries /\ o \in CacheFinds(text'[r])
    <3>1. ~Unread(o) /\ Serves(text[o], text'[r])
      BY <1>3, <1>5, <2>3
    <3> QED
      BY <1>1, <2>0, <2>3, <3>1 DEF Unread
  <2>4. CASE x = r /\ o = result[r] /\ (answer'[r].cached <=> result[r] \in flagged)
    <3>1. /\ ~Unread(r) /\ ~Unread(o) /\ Serves(text[o], text[r])
          /\ o = r \/ o \in flagged
      BY <2>0, <2>4 DEF Origins
    <3> QED
      BY <1>1, <2>0, <2>4, <3>1 DEF Unread
  <2> QED
    BY <1>5, <2>1, <2>2, <2>3, <2>4 DEF StepOf, SendsItsOwn, OthersKept
<1>6. Origins'
  BY <1>2, <1>4, <1>5 DEF Origins
<1>7. AnswersTellTheirOrigin'
  BY <1>5 DEF AnswersTellTheirOrigin, Serves
<1> QED
  BY <1>6, <1>7

\* The part of TasksHaveText that is about one request.
HasText(r) ==
    /\ pc[r] \in {"none", "arrived", "body"} => task[r] = "none"
    /\ task[r] \in {"answer", "vector", "stream"} => text[r] \in Queries
    /\ pc[r] = "putting" => text[r] \in Queries

LEMMA LoopSteps ==
    ASSUME TypeOK, TypeOK', TasksHaveText, Origins, NEW r \in Requests, Loop(r)
    PROVE  StepOf(r) /\ HasText(r)'
<1> USE DEF StepOf, OthersKept, QuestionKept, PutsItsOwn, ReturnsItsOwn, SendsItsOwn,
            HasText, Unread, Goto
<1>0. /\ pc \in [Requests -> Locations] /\ task \in [Requests -> TaskNames]
      /\ text \in [Requests -> Queries \cup {Nothing}]
      /\ result \in [Requests -> Requests \cup Outcomes]
      /\ answer \in [Requests -> Answer]
      /\ "none" \notin Requests
      /\ HasText(r)
  BY ServerAssumption DEF TypeOK, TasksHaveText, Outcomes, TaskNames
<1>1. CASE Preflight(r) \/ Overload(r)
  BY <1>0, <1>1 DEF Preflight, Overload, Respond, poolVars, cacheVars, Answer
<1>2. CASE Admit(r)
  <2>1. CASE Goto(r, "body") /\ UNCHANGED <<answer, poolVars>>
    BY <1>0, <1>2, <2>1 DEF Admit, poolVars, cacheVars
  <2>2. CASE Goto(r, "sending") /\ Respond(r) /\ UNCHANGED poolVars
    BY <1>0, <1>2, <2>2 DEF Admit, Respond, poolVars, cacheVars, Answer
  <2>3. CASE Submit(r, "call") /\ UNCHANGED answer
    BY <1>0, <1>2, <2>3 DEF Admit, Submit, cacheVars
  <2> QED
    BY <1>2, <2>1, <2>2, <2>3 DEF Admit
<1>3. CASE ReadPost(r)
  <2>1. CASE Goto(r, "sending") /\ Respond(r) /\ UNCHANGED poolVars
    BY <1>0, <1>3, <2>1 DEF ReadPost, Respond, poolVars, cacheVars, Answer
  <2>2. CASE Submit(r, "call") /\ UNCHANGED answer
    BY <1>0, <1>3, <2>2 DEF ReadPost, Submit, cacheVars
  <2> QED
    BY <1>3, <2>1, <2>2 DEF ReadPost
<1>4. CASE ReadRefused(r)
  BY <1>0, <1>4 DEF ReadRefused, Respond, poolVars, cacheVars, Answer
<1>5. CASE ReadChat(r)
  BY <1>0, <1>5 DEF ReadChat, Submit, cacheVars
<1>6. CASE ReadStream(r)
  <2>1. CASE Goto(r, "raised") /\ UNCHANGED <<text, answer, poolVars>>
    BY <1>0, <1>6, <2>1 DEF ReadStream, poolVars, cacheVars
  <2>2. CASE Goto(r, "sending") /\ Respond(r) /\ UNCHANGED <<text, poolVars>>
    BY <1>0, <1>6, <2>2 DEF ReadStream, Respond, poolVars, cacheVars, Answer
  <2>3. CASE /\ \E q \in Asked(r) : text' = [text EXCEPT ![r] = q]
             /\ Submit(r, "vector")
             /\ UNCHANGED answer
    BY <1>0, <1>6, <2>3 DEF ReadStream, Asked, Submit, cacheVars
  <2> QED
    BY <1>6, <2>1, <2>2, <2>3 DEF ReadStream
<1>7. CASE ResumeRaised(r)
  BY <1>0, <1>7 DEF ResumeRaised, poolVars, cacheVars
<1>8. CASE ResumeStatus(r)
  BY <1>0, <1>8 DEF ResumeStatus, Respond, poolVars, cacheVars, Answer
<1>9. CASE ResumeChat(r)
  BY <1>0, <1>9 DEF ResumeChat, RespondWith, poolVars, cacheVars, Answer
<1>10. CASE ResumeVector(r)
  <2>1. CASE /\ \E o \in CacheFinds(text[r]) :
                    answer' = [answer EXCEPT ![r] =
                        [started |-> TRUE, by |-> o, cached |-> TRUE]]
             /\ Goto(r, "sending")
             /\ UNCHANGED poolVars
    <3>1. PICK o \in CacheFinds(text[r]) :
                answer' = [answer EXCEPT ![r] = [started |-> TRUE, by |-> o, cached |-> TRUE]]
      BY <2>1
    <3>2. /\ task[r] = "vector" /\ pc' = [pc EXCEPT ![r] = "sending"]
          /\ UNCHANGED <<text, task, result, cache, flagged>>
      BY <1>10, <2>1 DEF ResumeVector, poolVars, cacheVars
    <3>3. text'[r] = text[r] /\ text[r] \in Queries
      BY <1>0, <3>2
    <3>4. /\ answer'[r].by = o /\ answer'[r].cached
          /\ \A x \in Requests \ {r} : answer'[x] = answer[x]
      BY <1>0, <3>1
    <3>5. SendsItsOwn(r)
      BY <1>0, <3>2, <3>3, <3>4
    <3>6. OthersKept(r) /\ QuestionKept(r) /\ HasText(r)'
      BY <1>0, <3>2, <3>3, <3>4
    <3>7. PutsItsOwn(r) /\ ReturnsItsOwn(r)
      BY <3>2
    <3> QED
      BY <3>5, <3>6, <3>7
  <2>2. CASE CacheFinds(text[r]) = {} /\ Respond(r) /\ Submit(r, "stream")
    BY <1>0, <1>10, <2>2 DEF ResumeVector, Respond, Submit, cacheVars, Answer
  <2> QED
    BY <1>10, <2>1, <2>2 DEF ResumeVector
<1>11. CASE ResumeStream(r)
  BY <1>0, <1>11 DEF ResumeStream, poolVars, cacheVars, Answer
<1>12. CASE StreamPut(r)
  <2>1. cache \in [Queries -> Requests \cup {Nothing}]
    BY DEF TypeOK
  <2> QED
    BY <1>0, <1>12, <2>1 DEF StreamPut, poolVars
<1>13. CASE Finally(r)
  BY <1>0, <1>13 DEF Finally, Respond, cacheVars, Answer
<1> QED
  BY <1>1, <1>2, <1>3, <1>4, <1>5, <1>6, <1>7, <1>8, <1>9, <1>10, <1>11, <1>12, <1>13
  DEF Loop

LEMMA JobSteps ==
    ASSUME TypeOK, TypeOK', TasksHaveText, Origins, JobsAwaited, NEW r \in Requests, Job(r)
    PROVE  StepOf(r) /\ HasText(r)'
<1> USE DEF StepOf, OthersKept, QuestionKept, PutsItsOwn, ReturnsItsOwn, SendsItsOwn,
            HasText, Unread, Goto
<1>0. /\ pc \in [Requests -> Locations] /\ task \in [Requests -> TaskNames]
      /\ text \in [Requests -> Queries \cup {Nothing}]
      /\ result \in [Requests -> Requests \cup Outcomes]
      /\ cache \in [Queries -> Requests \cup {Nothing}]
      /\ Requests \cap Outcomes = {}
      /\ HasText(r)
      /\ r \in running => pc[r] = "waiting"
  BY ServerAssumption DEF TypeOK, TasksHaveText, JobsAwaited, TaskNames
<1>1. CASE RunCall(r)
  <2>1. PICK x \in {"value", "raised"} : EndJob(r, x)
    BY <1>1 DEF RunCall
  <2>2. x \notin Requests
    BY <1>0, <2>1 DEF Outcomes
  <2> QED
    BY <1>0, <1>1, <2>1, <2>2 DEF RunCall, EndJob, cacheVars
<1>2. CASE ChatRejects(r)
  <2>1. PICK x \in {"raised", "rejected"} : EndJob(r, x)
    BY <1>2 DEF ChatRejects
  <2>2. x \notin Requests
    BY <1>0, <2>1 DEF Outcomes
  <2> QED
    BY <1>0, <1>2, <2>1, <2>2 DEF ChatRejects, EndJob, cacheVars
<1>3. CASE ChatHit(r)
  <2>1. PICK q \in Queries : \E o \in CacheFinds(q) :
            /\ text' = [text EXCEPT ![r] = q]
            /\ flagged' = flagged \cup {o}
            /\ EndJob(r, o)
    BY <1>3 DEF ChatHit, Asked
  <2> QED
    BY <1>0, <1>3, <2>1 DEF ChatHit, EndJob
<1>4. CASE ChatMiss(r)
  BY <1>0, <1>4 DEF ChatMiss, Asked, loopVars, cacheVars
<1>5. CASE ChatAnswers(r)
  BY <1>0, <1>5 DEF ChatAnswers, EndJob
<1>6. CASE ChatFails(r)
  <2>1. "failed" \notin Requests
    BY <1>0 DEF Outcomes
  <2> QED
    BY <1>0, <1>6, <2>1 DEF ChatFails, EndJob, cacheVars
<1> QED
  BY <1>1, <1>2, <1>3, <1>4, <1>5, <1>6 DEF Job

LEMMA SyncSteps ==
    ASSUME TypeOK, TypeOK', TasksHaveText, NEW r \in Requests, Sync(r)
    PROVE  StepOf(r) /\ HasText(r)'
<1> USE DEF StepOf, OthersKept, QuestionKept, PutsItsOwn, ReturnsItsOwn, SendsItsOwn,
            HasText, Unread, Goto
<1>0. /\ pc \in [Requests -> Locations] /\ task \in [Requests -> TaskNames]
      /\ text \in [Requests -> Queries \cup {Nothing}]
      /\ answer \in [Requests -> Answer]
      /\ cache \in [Queries -> Requests \cup {Nothing}]
      /\ HasText(r)
  BY DEF TypeOK, TasksHaveText, TaskNames
<1>1. CASE SyncServe(r)
  BY <1>0, <1>1 DEF SyncServe, Respond, poolVars, cacheVars, Answer
<1>2. CASE SyncRefused(r)
  BY <1>0, <1>2 DEF SyncRefused, Respond, poolVars, cacheVars, Answer
<1>3. CASE SyncChat(r)
  <2>1. PICK q \in Queries :
        /\ text' = [text EXCEPT ![r] = q]
        /\ \/ /\ \E o \in CacheFinds(q) :
                    /\ flagged' = flagged \cup {o}
                    /\ answer' = [answer EXCEPT ![r] =
                          [started |-> TRUE, by |-> o, cached |-> TRUE]]
              /\ UNCHANGED cache
           \/ /\ CacheFinds(q) = {}
              /\ cache' = [cache EXCEPT ![q] = r]
              /\ answer' = [answer EXCEPT ![r] =
                    [started |-> TRUE, by |-> r, cached |-> FALSE]]
              /\ UNCHANGED flagged
           \/ CacheFinds(q) = {} /\ Respond(r) /\ UNCHANGED cacheVars
    BY <1>3 DEF SyncChat, Asked
  <2>2. /\ pc[r] = "arrived" /\ pc' = [pc EXCEPT ![r] = "done"]
        /\ UNCHANGED <<task, result>>
    BY <1>3 DEF SyncChat, poolVars
  <2>3. OthersKept(r)
    BY <1>0, <2>1, <2>2 DEF Respond, Answer
  <2>4. QuestionKept(r) /\ ReturnsItsOwn(r) /\ HasText(r)' /\ ~Unread(r)'
    BY <1>0, <2>1, <2>2
  <2>5. PutsItsOwn(r)
    BY <1>0, <2>1, <2>2 DEF cacheVars
  <2>6. SendsItsOwn(r)
    BY <1>0, <2>1, <2>2, <2>4 DEF Respond, Answer
  <2> QED
    BY <2>3, <2>4, <2>5, <2>6
<1> QED
  BY <1>1, <1>2, <1>3 DEF Sync

\* Every step keeps the questions of the jobs and the origin of the answers.
LEMMA NextOrigins ==
    ASSUME TypeOK, TypeOK', JobsAwaited, TasksHaveText, Origins, AnswersTellTheirOrigin,
           [Next]_vars
    PROVE  TasksHaveText' /\ Origins' /\ AnswersTellTheirOrigin'
<1>1. CASE \E r \in Requests : Loop(r) \/ Job(r) \/ Sync(r)
  <2>1. PICK r \in Requests : Loop(r) \/ Job(r) \/ Sync(r)
    BY <1>1
  <2>2. StepOf(r) /\ HasText(r)'
    BY <2>1, LoopSteps, JobSteps, SyncSteps
  <2>3. TasksHaveText'
    BY <2>2 DEF TasksHaveText, HasText, StepOf, OthersKept
  <2> QED
    BY <2>2, <2>3, OriginsKept
<1>2. CASE Connect
  <2> DEFINE r == CHOOSE x \in Requests : pc[x] = "none"
  <2>1. r \in Requests /\ pc[r] = "none" /\ pc' = [pc EXCEPT ![r] = "arrived"]
    BY <1>2 DEF Connect
  <2> HIDE DEF r
  <2>2. UNCHANGED <<text, task, result, cache, flagged, answer>>
    BY <1>2 DEF Connect, poolVars, cacheVars
  <2>3. \A x \in Requests : Unread(x)' <=> Unread(x)
    BY <2>1, <2>2 DEF Unread, TypeOK
  <2>4. TasksHaveText'
    BY <2>1, <2>2 DEF TasksHaveText, TypeOK
  <2>5. Origins' /\ AnswersTellTheirOrigin'
    BY <2>2, <2>3 DEF Origins, AnswersTellTheirOrigin, TypeOK, Answer, Unread
  <2> QED
    BY <2>4, <2>5
<1>3. CASE \E q \in Queries : Forget(q)
  <2>1. UNCHANGED <<pc, text, task, result, flagged, answer>>
        /\ \A q \in Queries : cache'[q] \in {cache[q], Nothing}
    BY <1>3 DEF Forget, loopVars, poolVars, TypeOK
  <2> QED
    BY <2>1 DEF TasksHaveText, Origins, AnswersTellTheirOrigin, Unread
<1>4. CASE StartJob \/ Tick \/ UNCHANGED vars
  <2>1. UNCHANGED <<pc, text, task, result, cache, flagged, answer>>
    BY <1>4 DEF StartJob, Tick, vars, loopVars, poolVars, cacheVars
  <2> QED
    BY <2>1 DEF TasksHaveText, Origins, AnswersTellTheirOrigin, Unread
<1> QED
  BY <1>1, <1>2, <1>3, <1>4 DEF Next

-----------------------------------------------------------------------------
(* The rate *)

\* What is kept is a finite set, so it can be counted.
LEMMA KeptCounted ==
    ASSUME TypeOK, DroppedAreOld, NEW i \in IPs
    PROVE  IsFiniteSet(Recent(i)) /\ Cardinality(Recent(i)) \in Nat
<1>1. Recent(i) \subseteq 1 .. Len(accepted[i]) /\ Len(accepted[i]) \in Nat
  BY DEF Recent, DroppedAreOld, TypeOK
<1>2. IsFiniteSet(1 .. Len(accepted[i]))
  BY <1>1, FS_Interval
<1> QED
  BY <1>1, <1>2, FS_Subset, FS_CardinalityType

\* An accepted request comes after at most _RATE_MAX - 1 recent ones; what has been
\* dropped no window that is still open can hold.
LEMMA AcceptKeepsRate ==
    ASSUME TypeOK, DroppedAreOld, RateKept, NEW i \in IPs, RateAccepts(i), now' = now
    PROVE  DroppedAreOld' /\ RateKept'
<1> DEFINE a == accepted[i]
           n1 == Len(a) + 1
           K == Recent(i) \cup {n1}
<1>1. /\ a \in Seq(0 .. MaxTime) /\ Len(a) \in Nat
      /\ now \in Int /\ RateWindow \in Nat \ {0} /\ RateMax \in Nat
      /\ \A n \in 1 .. Len(a) : a[n] \in Int
  BY ServerAssumption DEF TypeOK
<1>2. /\ accepted'[i] = Append(a, now) /\ rate'[i] = K
      /\ \A j \in IPs : j # i => accepted'[j] = accepted[j] /\ rate'[j] = rate[j]
  BY DEF RateAccepts, Accept, TypeOK
<1>3. /\ Len(accepted'[i]) = n1 /\ accepted'[i][n1] = now
      /\ \A n \in 1 .. Len(a) : accepted'[i][n] = a[n]
  BY <1>1, <1>2, AppendProperties
<1>4. Recent(i) \subseteq 1 .. Len(a)
      /\ \A n \in 1 .. Len(a) : a[n] <= now /\ (n \notin Recent(i) => now - a[n] >= RateWindow)
  BY <1>1 DEF Recent, DroppedAreOld
<1>5. DroppedAreOld'
  <2>1. rate'[i] \subseteq 1 .. Len(accepted'[i])
    BY <1>1, <1>2, <1>3, <1>4
  <2>2. \A n \in 1 .. Len(accepted'[i]) :
            accepted'[i][n] <= now /\ (n \notin rate'[i] => now - accepted'[i][n] >= RateWindow)
    <3> SUFFICES ASSUME NEW n \in 1 .. Len(accepted'[i])
                 PROVE  accepted'[i][n] <= now
                        /\ (n \notin rate'[i] => now - accepted'[i][n] >= RateWindow)
      OBVIOUS
    <3>1. n \in 1 .. Len(a) \/ n = n1
      BY <1>1, <1>3
    <3> QED
      BY <1>1, <1>2, <1>3, <1>4, <3>1
  <2> QED
    BY <1>2, <2>1, <2>2 DEF DroppedAreOld
<1>6. ASSUME NEW t \in 0 .. MaxTime
      PROVE  Cardinality({n \in DOMAIN accepted'[i] :
                accepted'[i][n] <= t /\ t - accepted'[i][n] < RateWindow}) <= RateMax
  <2> DEFINE W == {n \in DOMAIN accepted'[i] :
                accepted'[i][n] <= t /\ t - accepted'[i][n] < RateWindow}
             V == {n \in DOMAIN a : a[n] <= t /\ t - a[n] < RateWindow}
  <2>0. DOMAIN accepted'[i] = 1 .. n1 /\ DOMAIN a = 1 .. Len(a) /\ t \in Int
    BY <1>1, <1>2, <1>3
  <2>1. CASE t < now
    <3>1. W = V
      BY <1>1, <1>3, <2>0, <2>1
    <3>2. Cardinality(V) <= RateMax
      BY DEF RateKept
    <3> QED
      BY <3>1, <3>2
  <2>2. CASE t >= now
    <3>1. W \subseteq K
      <4> SUFFICES ASSUME NEW n \in W, n # n1 PROVE n \in Recent(i)
        OBVIOUS
      <4>1. n \in 1 .. Len(a) /\ t - a[n] < RateWindow
        BY <1>1, <1>3, <2>0
      <4> QED
        BY <1>1, <1>4, <2>0, <2>2, <4>1
    <3>2. IsFiniteSet(K) /\ Cardinality(K) = Cardinality(Recent(i)) + 1
      <4>1. n1 \notin Recent(i)
        BY <1>1, <1>4
      <4>2. IsFiniteSet(Recent(i))
        BY KeptCounted
      <4> QED
        BY <4>1, <4>2, FS_AddElement
    <3>3. Cardinality(W) <= Cardinality(K) /\ IsFiniteSet(W)
      BY <3>1, <3>2, FS_Subset
    <3>4. Cardinality(K) <= RateMax
      BY <1>1, <3>2, KeptCounted DEF RateAccepts, RateOK
    <3>5. Cardinality(W) \in Nat /\ Cardinality(K) \in Nat
      BY <3>2, <3>3, FS_CardinalityType
    <3>6. Cardinality(W) <= RateMax
      <4> HIDE DEF W, K
      <4> QED
        BY <1>1, <3>3, <3>4, <3>5
    <3> QED
      BY <3>6
  <2> QED
    BY <1>1, <2>0, <2>1, <2>2
<1>7. RateKept'
  BY <1>2, <1>6 DEF RateKept
<1> QED
  BY <1>5, <1>7

\* A refusal drops what is old.
LEMMA RefusalKeepsRate ==
    ASSUME TypeOK, DroppedAreOld, RateKept, NEW i \in IPs, RateRefuses(i), now' = now
    PROVE  DroppedAreOld' /\ RateKept'
<1>1. /\ accepted' = accepted
      /\ \A j \in IPs : rate'[j] = IF j = i THEN Recent(i) ELSE rate[j]
  BY DEF RateRefuses, TypeOK
<1>2. \A n \in 1 .. Len(accepted[i]) : n \notin Recent(i) => now - accepted[i][n] >= RateWindow
  <2>1. \A n \in 1 .. Len(accepted[i]) : accepted[i][n] \in Int /\ now \in Int
    BY ServerAssumption DEF TypeOK
  <2> QED
    BY <2>1, ServerAssumption DEF Recent, DroppedAreOld
<1>3. Recent(i) \subseteq rate[i]
  BY DEF Recent
<1>4. DroppedAreOld'
  BY <1>1, <1>2, <1>3 DEF DroppedAreOld
<1>5. RateKept'
  BY <1>1 DEF RateKept
<1> QED
  BY <1>4, <1>5

\* Every step keeps the rate.
LEMMA NextRate ==
    ASSUME TypeOK, DroppedAreOld, RateKept, [Next]_vars
    PROVE  DroppedAreOld' /\ RateKept'
<1>1. CASE \E i \in IPs : (RateAccepts(i) \/ RateRefuses(i)) /\ now' = now
  BY <1>1, AcceptKeepsRate, RefusalKeepsRate
<1>2. CASE UNCHANGED <<rateVars, now>>
  BY <1>2 DEF rateVars, DroppedAreOld, RateKept
<1>3. CASE Tick
  <2>1. /\ rate' = rate /\ accepted' = accepted /\ now' = now + 1
        /\ now \in Int /\ RateWindow \in Int
        /\ \A i \in IPs : \A n \in 1 .. Len(accepted[i]) : accepted[i][n] \in Int
    BY <1>3, ServerAssumption DEF Tick, rateVars, TypeOK
  <2>2. DroppedAreOld'
    <3> SUFFICES ASSUME NEW i \in IPs, NEW n \in 1 .. Len(accepted[i])
                 PROVE  /\ accepted[i][n] <= now + 1
                        /\ n \notin rate[i] => now + 1 - accepted[i][n] >= RateWindow
      BY <2>1 DEF DroppedAreOld
    <3>1. accepted[i][n] <= now /\ (n \notin rate[i] => now - accepted[i][n] >= RateWindow)
      BY DEF DroppedAreOld
    <3> QED
      BY <2>1, <3>1
  <2>3. RateKept'
    BY <2>1 DEF RateKept
  <2> QED
    BY <2>2, <2>3
<1>4. ASSUME NEW r \in Requests, Loop(r)
      PROVE  UNCHANGED <<rateVars, now>>
             \/ \E i \in IPs : (RateAccepts(i) \/ RateRefuses(i)) /\ now' = now
  BY <1>4 DEF Loop, Preflight, Overload, Admit, ReadPost, ReadRefused, ReadChat, ReadStream,
     ResumeRaised, ResumeStatus, ResumeChat, ResumeVector, ResumeStream, StreamPut, Finally
<1>5. ASSUME NEW r \in Requests, Job(r)
      PROVE  UNCHANGED <<rateVars, now>>
  BY <1>5 DEF Job, RunCall, ChatRejects, ChatHit, ChatMiss, ChatAnswers, ChatFails
<1>6. ASSUME NEW r \in Requests, Sync(r)
      PROVE  UNCHANGED <<rateVars, now>>
             \/ \E i \in IPs : (RateAccepts(i) \/ RateRefuses(i)) /\ now' = now
  BY <1>6 DEF Sync, SyncServe, SyncRefused, SyncChat
<1>7. Connect \/ StartJob \/ (\E q \in Queries : Forget(q)) \/ UNCHANGED vars
        => UNCHANGED <<rateVars, now>>
  BY DEF Connect, StartJob, Forget, vars, rateVars
<1> QED
  BY <1>1, <1>2, <1>3, <1>4, <1>5, <1>6, <1>7 DEF Next

-----------------------------------------------------------------------------

LEMMA InitInv == Init => IInv
<1> SUFFICES ASSUME Init PROVE IInv
  OBVIOUS
<1>1. TypeOK
  BY InitType
<1>2. PlacesGivenBack
  <2>1. {r \in Requests : pc[r] \in InService} = {}
    BY DEF Init, InService
  <2>2. Cardinality({r \in Requests : pc[r] \in InService}) = 0
    BY <2>1, FS_EmptySet
  <2>3. active = 0 /\ 0 <= MaxConcurrent
    BY ServerAssumption DEF Init
  <2> QED
    BY <2>2, <2>3 DEF PlacesGivenBack
<1>3. JobsAwaited /\ TasksHaveText
  BY DEF Init, JobsAwaited, TasksHaveText
<1>4. Origins /\ AnswersTellTheirOrigin
  BY ServerAssumption DEF Init, Origins, AnswersTellTheirOrigin, NoAnswer, Outcomes
<1>5. DroppedAreOld
  BY DEF Init, DroppedAreOld
<1>6. RateKept
  <2> SUFFICES ASSUME NEW i \in IPs, NEW t \in 0 .. MaxTime
               PROVE  Cardinality({n \in DOMAIN accepted[i] :
                        accepted[i][n] <= t /\ t - accepted[i][n] < RateWindow}) <= RateMax
    BY DEF RateKept
  <2>1. {n \in DOMAIN accepted[i] :
            accepted[i][n] <= t /\ t - accepted[i][n] < RateWindow} = {}
    BY DEF Init
  <2> QED
    BY <2>1, FS_EmptySet, ServerAssumption
<1> QED
  BY <1>1, <1>2, <1>3, <1>4, <1>5, <1>6 DEF IInv

\* The invariant of the two servers.
THEOREM Invariance == Spec => []IInv
<1>1. IInv /\ [Next]_vars => IInv'
  <2> SUFFICES ASSUME IInv, [Next]_vars PROVE IInv'
    OBVIOUS
  <2>1. TypeOK'
    BY NextType DEF IInv
  <2>2. PlacesGivenBack' /\ JobsAwaited'
    BY NextPlaces DEF IInv
  <2>3. TasksHaveText' /\ Origins' /\ AnswersTellTheirOrigin'
    BY <2>1, NextOrigins DEF IInv
  <2>4. DroppedAreOld' /\ RateKept'
    BY NextRate DEF IInv
  <2> QED
    BY <2>1, <2>2, <2>3, <2>4 DEF IInv
<1> QED
  BY <1>1, InitInv, PTL DEF Spec

\* Every place that was counted in is given back, however the request ended, and never
\* are there more than _max_concurrent.
THEOREM AllPlacesGivenBack == Spec => []PlacesGivenBack
<1>1. IInv => PlacesGivenBack
  BY DEF IInv
<1> QED
  BY <1>1, Invariance, PTL

\* No window of _RATE_WINDOW seconds holds more than _RATE_MAX accepted requests of one
\* address, whatever _check_rate dropped in between.
THEOREM RateAlwaysKept == Spec => []RateKept
<1>1. IInv => RateKept
  BY DEF IInv
<1> QED
  BY <1>1, Invariance, PTL

\* Nobody is sent the answer to a question he did not ask, and no shared dictionary is
\* sent as if it had been computed for the request.
THEOREM OriginTold == Spec => []AnswersTellTheirOrigin
<1>1. IInv => AnswersTellTheirOrigin
  BY DEF IInv
<1> QED
  BY <1>1, Invariance, PTL
=============================================================================
