-------------------------- MODULE EmbeddingService --------------------------
(***************************************************************************)
(* What submit() of an embedding batcher promises its callers: the future  *)
(* it returns gets a vector or an exception, exactly once, and gets it     *)
(* for certain unless the batcher was stopped.                             *)
(***************************************************************************)
CONSTANTS Requests

VARIABLES
    future,    \* per request: not submitted, pending, or how it was resolved
    stopped    \* stop() was called

vars == <<future, stopped>>

Init == future = [r \in Requests |-> "none"] /\ stopped = FALSE

\* One call submits one or several requests.
Submit ==
    \E S \in SUBSET Requests :
        /\ S # {}
        /\ \A r \in S : future[r] = "none"
        /\ future' = [r \in Requests |-> IF r \in S THEN "pending" ELSE future[r]]
        /\ UNCHANGED stopped

\* Pending futures get their outcome; an exception may reach several at once.
Resolve(S) ==
    /\ \A r \in S : future[r] = "pending"
    /\ \E outcome \in {"vector", "exception"} :
         future' = [r \in Requests |-> IF r \in S THEN outcome ELSE future[r]]
    /\ UNCHANGED stopped

Stop == stopped' = TRUE /\ UNCHANGED future

Next == Submit \/ Stop \/ \E S \in (SUBSET Requests) \ {{}} : Resolve(S)

ResolveInTime(r) == ~ stopped /\ \E S \in SUBSET Requests : r \in S /\ Resolve(S)

Spec == Init /\ [][Next]_vars /\ \A r \in Requests : WF_vars(ResolveInTime(r))
=============================================================================
