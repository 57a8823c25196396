----------------------------- MODULE AnswerFlow -----------------------------
(***************************************************************************)
(* How rag_core/assistant.py answers a question: search through the cache  *)
(* (rag_core/retrieval.py), a live fetch when the hits are poor, a second  *)
(* search, the background queue, and the search that makes the context of  *)
(* the model. It composes QueryCache, as the search cache, and LiveFetch.  *)
(*                                                                         *)
(* Hits are the documents about the query asked; none of them means hits   *)
(* too distant to use. The chat window passes no mesh node, the servers    *)
(* always do (Meshed): a mesh node's hits carry no "_distance", so they    *)
(* always look poor, and they make the context without another search.     *)
(* Peers are left out.                                                     *)
(***************************************************************************)
EXTENDS LiveFetch

CONSTANTS
    Queries,       \* questions
    Docs,          \* articles
    Relevant,      \* the articles about each question
    TermsOf,       \* _extract_search_terms of each question
    Pages,         \* what each title leads to in the German and the English Wikipedia
    Suggested,     \* the titles each of them suggests for some terms
    Meshed,        \* answer_text runs with a mesh node
    MaxEntries, TTL, Similarity, Threshold, MaxTime, Nothing    \* see QueryCache

ASSUME AnswerAssumption ==
    /\ Relevant \in [Queries -> SUBSET Docs]
    /\ TermsOf \in [Queries -> TermLists]
    /\ DOMAIN Pages = {"de", "en"} /\ DOMAIN Suggested = {"de", "en"}
    /\ \A l \in {"de", "en"} : \A title \in DOMAIN Pages[l] : Pages[l][title] \in Docs
    /\ Meshed \in BOOLEAN

VARIABLES
    table,         \* the articles in the table
    foreign,       \* articles another handle added since this one last wrote
    at,            \* where each caller stands in answer_text
    round,         \* which search it is in, or was in last
    query, hits,   \* its question, and the hits it holds
    l1, before, entries, dirty, now, pending, used              \* see QueryCache

cacheVars == <<l1, before, entries, dirty, now, pending, used>>
answerVars == <<at, round, query, hits>>
tableVars == <<table, foreign>>
vars == <<fetchVars, tableVars, answerVars, cacheVars>>

Cache == INSTANCE QueryCache WITH Threads <- Callers, Results <- SUBSET Docs

-----------------------------------------------------------------------------

\* What the retriever's table handle is certain to see.
Known == table \ foreign

\* table.add() of _micro_index: all of an article, or nothing of any.
AddArticles(S) == table' = table \cup S

First(n, s) == SubSeq(s, 1, IF Len(s) < n THEN Len(s) ELSE n)

\* The article under a title, if there is one and it is not too short.
Page(lang, title) ==
    IF title \in DOMAIN Pages[lang] THEN <<Pages[lang][title]>> ELSE << >>

\* A term is made of itself only; a question may have none and is then its own title.
SearchTerms(x) == IF x \in Terms THEN <<x>> ELSE TermsOf[x]
Title(x) == IF SearchTerms(x) = << >> THEN x ELSE First(4, SearchTerms(x))

\* What _wiki_search may find: the page of all terms, else those of single terms, else
\* those suggested. A request that fails ends it with nothing, or with the suggested
\* pages it has read.
WikiSearch(x, lang, most) ==
    LET terms == SearchTerms(x)
        direct == Page(lang, Title(x))
        single == FlattenSeq([i \in 1..Len(First(3, terms)) |-> Page(lang, <<terms[i]>>)])
        titles == First(most, Suggested[lang][First(3, terms)])
        others == FlattenSeq([i \in 1..Len(titles) |-> Page(lang, titles[i])])
    IN  { {} } \cup
        CASE direct # << >> -> { ToSet(direct) }
          [] direct = << >> /\ single # << >> -> { ToSet(First(most, single)) }
          [] OTHER -> IF Len(terms) < 2 THEN {}
                      ELSE { ToSet(SubSeq(others, 1, n)) : n \in 0..Len(others) }

\* fetch_and_index: in German, and in English when that finds nothing.
Found(x, most) == WikiSearch(x, "de", most) \cup WikiSearch(x, "en", most)

Init ==
    /\ InitFetch
    /\ Cache!Init
    /\ table = {}
    /\ foreign = {}
    /\ at = [c \in Callers |-> "idle"]
    /\ round = [c \in Callers |-> "first"]
    /\ query = [c \in Callers |-> Nothing]
    /\ hits = [c \in Callers |-> {}]

\* answer_text(q): the first search begins.
Ask(c, q) ==
    /\ at[c] = "idle"
    /\ at' = [at EXCEPT ![c] = "get"]
    /\ round' = [round EXCEPT ![c] = "first"]
    /\ query' = [query EXCEPT ![c] = q]
    /\ UNCHANGED <<hits, tableVars, fetchVars, cacheVars>>

\* search() has returned: look at the first hits, queue terms after the second
\* search, and answer with the third.
SearchDone(c) ==
    at' = [at EXCEPT ![c] = CASE round[c] = "first" -> "judge"
                              [] round[c] = "again" -> "expand"
                              [] round[c] = "context" -> "answer"]

\* get_messages_for_ollama searches again, the mesh uses the hits it has.
ToContext(c) ==
    IF Meshed
    THEN at' = [at EXCEPT ![c] = "answer"] /\ UNCHANGED round
    ELSE /\ at' = [at EXCEPT ![c] = "get"]
         /\ round' = [round EXCEPT ![c] = "context"]

CacheHit_PutsAgain(c) ==
    /\ at[c] = "get"
    /\ \E e \in Cache!Answers(query[c]) :
        /\ Cache!GetHit(query[c], e)
        /\ hits' = [hits EXCEPT ![c] = e.result]
    /\ at' = [at EXCEPT ![c] = "stamp"]
    /\ UNCHANGED <<round, query, tableVars, fetchVars>>

\* search(): the cache answers.
CacheHit(c) ==
    /\ at[c] = "get"
    /\ \E e \in Cache!Answers(query[c]) :
        /\ Cache!GetHit(query[c], e)
        /\ hits' = [hits EXCEPT ![c] = e.result]
    /\ SearchDone(c)
    /\ UNCHANGED <<round, query, tableVars, fetchVars>>

\* search(): it does not.
CacheMiss(c) ==
    /\ at[c] = "get"
    /\ Cache!GetMiss(query[c])
    /\ at' = [at EXCEPT ![c] = "lookup"]
    /\ UNCHANGED <<round, query, hits, tableVars, fetchVars>>

\* _do_search and the ranking. Whether a handle sees what other handles added
\* since is left to the table library.
Lookup(c) ==
    /\ at[c] = "lookup"
    /\ \E F \in SUBSET foreign :
        hits' = [hits EXCEPT ![c] = Relevant[query[c]] \cap (Known \cup F)]
    /\ at' = [at EXCEPT ![c] = "stamp"]
    /\ UNCHANGED <<round, query, tableVars, fetchVars, cacheVars>>

\* _cache.put: the result, poor or not, in the two steps of QueryCache.
StampResult(c) ==
    /\ at[c] = "stamp"
    /\ Cache!PutStamp(c, query[c], hits[c])
    /\ at' = [at EXCEPT ![c] = "put"]
    /\ UNCHANGED <<round, query, hits, tableVars, fetchVars>>

PutResult(c) ==
    /\ at[c] = "put"
    /\ Cache!PutStore(c)
    /\ SearchDone(c)
    /\ UNCHANGED <<round, query, hits, tableVars, fetchVars>>

\* should_live_fetch.
Judge(c) ==
    /\ at[c] = "judge"
    /\ IF Meshed \/ hits[c] = {}
       THEN at' = [at EXCEPT ![c] = "fetch"] /\ UNCHANGED round
       ELSE ToContext(c)
    /\ UNCHANGED <<query, hits, tableVars, fetchVars, cacheVars>>

\* fetch_and_index adds articles through the retriever's handle, then the same
\* search runs again.
Fetch(c) ==
    /\ at[c] = "fetch"
    /\ \E S \in Found(query[c], 3) \ {{}} : AddArticles(S)
    /\ foreign' = {}
    /\ at' = [at EXCEPT ![c] = "get"]
    /\ round' = [round EXCEPT ![c] = "again"]
    /\ UNCHANGED <<query, hits, fetchVars, cacheVars>>

\* It indexes nothing: no article found, no vectors, or an add that failed.
FetchNothing(c) ==
    /\ at[c] = "fetch"
    /\ at' = [at EXCEPT ![c] = "expand"]
    /\ UNCHANGED <<round, query, hits, tableVars, fetchVars, cacheVars>>

\* It raises: the except of answer_text skips the second search and the queue.
FetchRaises(c) ==
    /\ at[c] = "fetch"
    /\ ToContext(c)
    /\ UNCHANGED <<query, hits, tableVars, fetchVars, cacheVars>>

Queue(c) ==
    /\ at[c] = "expand"
    /\ EnqueueRelated(c, TermsOf[query[c]])
    /\ at' = [at EXCEPT ![c] = "expanding"]
    /\ UNCHANGED <<round, query, hits, tableVars, cacheVars>>

Expand(c) ==
    /\ at[c] = "expanding"
    /\ StartBackgroundExpansion(c)
    /\ IF pc'[c] = "idle" THEN ToContext(c) ELSE UNCHANGED <<at, round>>
    /\ UNCHANGED <<query, hits, tableVars, cacheVars>>

Start(c) ==
    /\ at[c] = "expanding"
    /\ StartThread(c)
    /\ ToContext(c)
    /\ UNCHANGED <<query, hits, tableVars, cacheVars>>

\* The model answers from the context.
Answer(c) ==
    /\ at[c] = "answer"
    /\ at' = [at EXCEPT ![c] = "idle"]
    /\ round' = [round EXCEPT ![c] = "first"]
    /\ query' = [query EXCEPT ![c] = Nothing]
    /\ hits' = [hits EXCEPT ![c] = {}]
    /\ UNCHANGED <<tableVars, fetchVars, cacheVars>>

\* The background worker: its fetch_and_index opens a handle of its own and may
\* index articles or not.
Take == WorkerTakes /\ UNCHANGED <<tableVars, answerVars, cacheVars>>

Continue(t) ==
    /\ WorkerContinues(t)
    /\ \E S \in Found(t, 1) :
        /\ AddArticles(S)
        /\ foreign' = foreign \cup (S \ table)
    /\ UNCHANGED <<answerVars, cacheVars>>

End == WorkerEnds /\ UNCHANGED <<tableVars, answerVars, cacheVars>>

Tick == Cache!Tick /\ UNCHANGED <<tableVars, answerVars, fetchVars>>

Step(c) ==
    \/ CacheHit(c) \/ CacheMiss(c) \/ Lookup(c) \/ StampResult(c) \/ PutResult(c)
    \/ Judge(c) \/ Fetch(c) \/ FetchNothing(c) \/ FetchRaises(c)
    \/ Queue(c) \/ Expand(c) \/ Start(c) \/ Answer(c)

Next ==
    \/ \E c \in Callers : Step(c) \/ \E q \in Queries : Ask(c, q)
    \/ Take \/ End \/ \E t \in Terms : Continue(t)
    \/ Tick

Spec == Init /\ [][Next]_vars

-----------------------------------------------------------------------------
(* Properties *)

\* Types of the variables.
TypeOK ==
    /\ FetchTypeOK
    /\ Cache!TypeOK
    /\ table \subseteq Docs
    /\ foreign \subseteq Docs
    /\ at \in [Callers -> {"idle", "get", "lookup", "stamp", "put", "judge", "fetch",
                           "expand", "expanding", "answer"}]
    /\ round \in [Callers -> {"first", "again", "context"}]
    /\ query \in [Callers -> Queries \cup {Nothing}]
    /\ hits \in [Callers -> SUBSET Docs]

\* Every cached result was searched for its own query: the hits a similar query
\* answered with are never put again, so they cannot outlive their time or pass
\* from question to question.
CachedForItsQuery ==
    \A e \in l1 : e.result \subseteq Relevant[e.query]

=============================================================================
