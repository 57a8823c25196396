----------------------------- MODULE ChatWindow -----------------------------
(***************************************************************************)
(* The chat window, gui_chat.py: a GTK main loop, a thread for every       *)
(* question (_answer_worker) and one for every table that is loaded        *)
(* (_init_worker). Only the main loop touches widgets; the threads hand it *)
(* callbacks with GLib.idle_add, which it runs one by one in their order.  *)
(* The user's clicks come between two callbacks. The flags _busy and       *)
(* _cancel_requested and the field _assistant belong to the window: the    *)
(* threads read them whenever they get there.                              *)
(*                                                                         *)
(* An assistant is named by the table its retriever has opened, which need *)
(* not be the one that was asked for: KnowledgeRetriever._connect takes    *)
(* the next of its list when a table is not there, and creates a table it  *)
(* cannot open anew, empty. What a callback writes is left out, only the   *)
(* question it belongs to is kept; what a thread hands over without a look *)
(* at the window in between is one text. The mode, the attachment and the  *)
(* status line are left out.                                               *)
(***************************************************************************)
EXTENDS Integers, FiniteSets, Sequences

CONSTANTS
    Tables,        \* tables the combo box offers, or _connect looks for
    Preferred,     \* those _connect looks for by itself, in order; TABLE_NAME first
    NoTable,       \* no assistant
    NoData,        \* an assistant whose retriever has no table
    MaxQuestions,  \* bound on the questions sent
    MaxLoads,      \* bound on the tables loaded, the first one included
    MaxStops,      \* bound on the clicks on Stop
    MaxTokens      \* bound on the pieces of an answer

ASSUME WindowAssumption ==
    /\ Preferred \in Seq(Tables) /\ Preferred # <<>>
    /\ NoTable \notin Tables /\ NoData \notin Tables /\ NoTable # NoData
    /\ MaxQuestions \in Nat \ {0}
    /\ MaxLoads \in Nat \ {0}
    /\ MaxStops \in Nat
    /\ MaxTokens \in Nat

VARIABLES
    busy,       \* _busy, and with it which of Send and Stop can be clicked
    cancel,     \* _cancel_requested
    stopping,   \* the main loop is inside _on_stop
    assistant,  \* the table of _assistant
    queue,      \* the callbacks the main loop has still to run
    pc,         \* where the thread of each question stands
    tokens,     \* how many pieces of the answer each thread has handed over
    uses,       \* the table a thread answers from
    loads,      \* what each thread of _init_worker loads, NoTable once it has ended
    sent,       \* how many questions were sent
    started,    \* how many loads were started
    stops,      \* how often Stop was clicked
    calm        \* history: the table of a question sent with no load under way

flags == <<busy, cancel, stopping, stops>>
workers == <<pc, tokens, uses, sent, calm>>
loaders == <<loads, started>>
vars == <<flags, assistant, queue, workers, loaders>>

Questions == 1..MaxQuestions
LoadIds == 1..MaxLoads

Texts == [kind : {"text"}, of : Questions]
Dones == [kind : {"done"}, of : Questions]
Assistants == Tables \cup {NoData}
Readies == [kind : {"ready"}, of : Assistants \cup {NoTable}]
Callbacks == Texts \cup Dones \cup Readies

Text(i) == [kind |-> "text", of |-> i]
Done(i) == [kind |-> "done", of |-> i]
Ready(t) == [kind |-> "ready", of |-> t]

Alive(l) == l \notin {"none", "ended"}

-----------------------------------------------------------------------------

Init ==
    /\ busy = FALSE /\ cancel = FALSE /\ stopping = FALSE
    /\ assistant = NoTable
    /\ queue = <<>>
    /\ pc = [i \in Questions |-> "none"]
    /\ tokens = [i \in Questions |-> 0]
    /\ uses = [i \in Questions |-> NoTable]
    /\ loads = [k \in LoadIds |-> IF k = 1 THEN Head(Preferred) ELSE NoTable]
    /\ sent = 0 /\ started = 1 /\ stops = 0
    /\ calm = [i \in Questions |-> NoTable]

-----------------------------------------------------------------------------
\* The user. A click is handled when the main loop is in no other callback.

\* No assistant is on its way: every load has ended and was shown.
NoLoadPending ==
    /\ \A k \in LoadIds : loads[k] = NoTable
    /\ \A n \in DOMAIN queue : queue[n] \notin Readies

Send_WhileBusy ==
    /\ ~stopping
    /\ assistant # NoTable
    /\ sent < MaxQuestions
    /\ busy' = TRUE /\ cancel' = FALSE
    /\ sent' = sent + 1
    /\ pc' = [pc EXCEPT ![sent + 1] = "model"]
    /\ calm' = [calm EXCEPT ![sent + 1] = IF NoLoadPending THEN assistant ELSE NoTable]
    /\ UNCHANGED <<stopping, stops, assistant, queue, tokens, uses, loaders>>

\* _on_send with a text in the input field.
Send ==
    /\ ~stopping /\ ~busy
    /\ assistant # NoTable
    /\ sent < MaxQuestions
    /\ busy' = TRUE /\ cancel' = FALSE
    /\ sent' = sent + 1
    /\ pc' = [pc EXCEPT ![sent + 1] = "model"]
    /\ calm' = [calm EXCEPT ![sent + 1] = IF NoLoadPending THEN assistant ELSE NoTable]
    /\ UNCHANGED <<stopping, stops, assistant, queue, tokens, uses, loaders>>

\* _on_stop sets the flag; the threads run on while it writes to the chat.
StopBegin ==
    /\ ~stopping /\ busy
    /\ stops < MaxStops
    /\ cancel' = TRUE /\ stopping' = TRUE
    /\ stops' = stops + 1
    /\ UNCHANGED <<busy, assistant, queue, workers, loaders>>

\* It ends with _done_answering, which takes the flag back.
StopEnd ==
    /\ stopping
    /\ busy' = FALSE /\ cancel' = FALSE /\ stopping' = FALSE
    /\ UNCHANGED <<stops, assistant, queue, workers, loaders>>

SelectTable_WhileBusy ==
    /\ ~stopping
    /\ started < MaxLoads
    /\ started' = started + 1
    /\ \E t \in Tables : loads' = [loads EXCEPT ![started + 1] = t]
    /\ UNCHANGED <<flags, assistant, queue, workers>>

\* _on_db_changed.
SelectTable ==
    /\ ~stopping /\ ~busy
    /\ started < MaxLoads
    /\ started' = started + 1
    /\ \E t \in Tables : loads' = [loads EXCEPT ![started + 1] = t]
    /\ UNCHANGED <<flags, assistant, queue, workers>>

-----------------------------------------------------------------------------
\* The main loop runs the oldest callback.

\* _append_styled, _append_stream, _start_ki_block.
ShowText ==
    /\ ~stopping /\ queue # <<>>
    /\ Head(queue) \in Texts
    /\ queue' = Tail(queue)
    /\ UNCHANGED <<flags, assistant, workers, loaders>>

\* _done_answering, whichever question it comes from.
DoneAnswering ==
    /\ ~stopping /\ queue # <<>>
    /\ Head(queue) \in Dones
    /\ queue' = Tail(queue)
    /\ busy' = FALSE /\ cancel' = FALSE
    /\ UNCHANGED <<stopping, stops, assistant, workers, loaders>>

\* _on_ready.
OnReady ==
    /\ ~stopping /\ queue # <<>>
    /\ Head(queue) \in Readies
    /\ queue' = Tail(queue)
    /\ assistant' = Head(queue).of
    /\ UNCHANGED <<flags, workers, loaders>>

-----------------------------------------------------------------------------
\* _connect: the table asked for, or else the first of the others that is there and
\* opens.
Connect(t, there) ==
    LET names == <<t>> \o Preferred
        found == { n \in 1..Len(names) :
                     names[n] \in there /\ \A m \in 1..n-1 : names[m] \notin there }
    IN  IF found = {} THEN NoData ELSE names[CHOOSE n \in found : TRUE]

\* _init_worker: an assistant with what _connect found, or none after an exception.
LoadEnds(k) ==
    /\ loads[k] # NoTable
    /\ \E a \in { Connect(loads[k], there) : there \in SUBSET Tables } \cup {NoTable} :
        queue' = Append(queue, Ready(a))
    /\ loads' = [loads EXCEPT ![k] = NoTable]
    /\ UNCHANGED <<flags, assistant, workers, started>>

-----------------------------------------------------------------------------
\* _answer_worker of question i.

Goto(i, l) == pc' = [pc EXCEPT ![i] = l]

\* The thread is gone, and its locals with it.
Leave(i) ==
    /\ Goto(i, "ended")
    /\ tokens' = [tokens EXCEPT ![i] = 0]
    /\ uses' = [uses EXCEPT ![i] = NoTable]
    /\ calm' = [calm EXCEPT ![i] = NoTable]

\* The model is there, or is pulled, which the chat shows.
ModelReady(i) ==
    /\ pc[i] = "model"
    /\ \/ UNCHANGED queue
       \/ queue' = Append(queue, Text(i))
    /\ Goto(i, "first")
    /\ UNCHANGED <<flags, assistant, tokens, uses, sent, calm, loaders>>

ModelFails_NotDone(i) ==
    /\ pc[i] = "model"
    /\ queue' = Append(queue, Text(i))
    /\ Leave(i)
    /\ UNCHANGED <<flags, assistant, sent, loaders>>

\* list_models or pull_model raises, the latter after its first line was shown.
ModelFails(i) ==
    /\ pc[i] = "model"
    /\ queue' = queue \o <<Text(i), Done(i)>>
    /\ Leave(i)
    /\ UNCHANGED <<flags, assistant, sent, loaders>>

\* The first look at the flag stands outside the try block: no callback is left.
CheckFirst(i) ==
    /\ pc[i] = "first"
    /\ \/ cancel /\ Leave(i)
       \/ ~cancel /\ Goto(i, "context") /\ UNCHANGED <<tokens, uses, calm>>
    /\ UNCHANGED <<flags, assistant, queue, sent, loaders>>

\* The end of an answer and its finally block.
End(i, texts) ==
    /\ queue' = queue \o texts \o <<Done(i)>>
    /\ Leave(i)
    /\ UNCHANGED <<flags, assistant, sent, loaders>>

\* An exception is shown unless the flag is set.
Fails(i) ==
    /\ pc[i] \in {"context", "asking", "streaming"}
    /\ End(i, IF cancel THEN <<>> ELSE <<Text(i)>>)

\* embed_query, and parse_mode of the assistant there is: without one it raises.
Context(i) ==
    /\ pc[i] = "context"
    /\ assistant # NoTable
    /\ Goto(i, "second")
    /\ UNCHANGED <<flags, assistant, queue, tokens, uses, sent, calm, loaders>>

\* The second look at the flag; then the block of the answer begins.
CheckSecond(i) ==
    /\ pc[i] = "second"
    /\ \/ cancel /\ End(i, <<>>)
       \/ /\ ~cancel
          /\ queue' = Append(queue, Text(i))
          /\ Goto(i, "asking")
          /\ UNCHANGED <<flags, assistant, tokens, uses, sent, calm, loaders>>

\* answer_text of the assistant there is by now: a search, then the model's stream.
\* A blocked question comes back with its text at once.
Ask(i) ==
    /\ pc[i] = "asking"
    /\ assistant # NoTable
    /\ uses' = [uses EXCEPT ![i] = assistant]
    /\ Goto(i, "streaming")
    /\ UNCHANGED <<flags, assistant, queue, tokens, sent, calm, loaders>>

\* on_token; with the flag set it raises InterruptedError, which ends the answer.
Token(i) ==
    /\ pc[i] = "streaming"
    /\ tokens[i] < MaxTokens
    /\ \/ cancel /\ End(i, <<>>)
       \/ /\ ~cancel
          /\ queue' = Append(queue, Text(i))
          /\ tokens' = [tokens EXCEPT ![i] = @ + 1]
          /\ UNCHANGED <<flags, assistant, pc, uses, sent, calm, loaders>>

Finish_DoneFirst(i) ==
    /\ pc[i] = "streaming"
    /\ queue' = queue \o <<Done(i), Text(i)>>
    /\ Leave(i)
    /\ UNCHANGED <<flags, assistant, sent, loaders>>

\* The answer is complete: its sources and, of a blocked one, the reason.
Finish(i) ==
    /\ pc[i] = "streaming"
    /\ End(i, <<Text(i)>>)

-----------------------------------------------------------------------------

MainLoop == StopEnd \/ ShowText \/ DoneAnswering \/ OnReady

Worker(i) ==
    \/ ModelReady(i) \/ ModelFails(i) \/ CheckFirst(i) \/ Context(i)
    \/ CheckSecond(i) \/ Ask(i) \/ Token(i) \/ Finish(i) \/ Fails(i)

Next ==
    \/ Send \/ StopBegin \/ SelectTable
    \/ MainLoop
    \/ \E k \in LoadIds : LoadEnds(k)
    \/ \E i \in Questions : Worker(i)

\* The main loop runs, and Ollama answers each call or lets it time out; nothing
\* makes the user click.
Fairness ==
    /\ WF_vars(MainLoop)
    /\ \A k \in LoadIds : WF_vars(LoadEnds(k))
    /\ \A i \in Questions : WF_vars(Worker(i))

Spec == Init /\ [][Next]_vars /\ Fairness

-----------------------------------------------------------------------------

TypeOK ==
    /\ busy \in BOOLEAN /\ cancel \in BOOLEAN /\ stopping \in BOOLEAN
    /\ assistant \in Assistants \cup {NoTable}
    /\ queue \in Seq(Callbacks)
    /\ pc \in [Questions -> {"none", "model", "first", "context", "second", "asking",
                             "streaming", "ended"}]
    /\ tokens \in [Questions -> 0..MaxTokens]
    /\ uses \in [Questions -> Assistants \cup {NoTable}]
    /\ loads \in [LoadIds -> Tables \cup {NoTable}]
    /\ sent \in 0..MaxQuestions
    /\ started \in 1..MaxLoads
    /\ stops \in 0..MaxStops
    /\ calm \in [Questions -> Assistants \cup {NoTable}]

\* Questions whose thread is alive, or whose _done_answering is still queued.
Unfinished ==
    { i \in Questions :
        Alive(pc[i]) \/ \E n \in DOMAIN queue : queue[n] = Done(i) }

\* Stop does not end a thread: it goes on, and its late _done_answering sets the
\* window free while the next question is answered. Still a click on Stop is worth
\* at most one thread too many: more than one unfinished question, or one in a
\* window that is free, was paid for by a Stop (_on_send, _on_stop, _done_answering).
WorkersCounted ==
    Cardinality(Unfinished) <= (IF busy THEN 1 ELSE 0) + stops

\* As long as nobody has clicked Stop, whatever a thread has handed over is written
\* before the next question: what is queued belongs to the last question sent, and
\* the window stays busy until its last text is shown.
TextInItsTurn ==
    stops = 0 => \A n \in DOMAIN queue :
        queue[n] \notin Readies => queue[n].of = sent /\ busy

\* A question sent when no table was being loaded is answered from the table the
\* window had then, although the thread reads _assistant only later: no table can be
\* chosen while the window is busy. (With Stop the window is free too early.)
AnsweredFromItsTable ==
    stops = 0 => \A i \in Questions :
        calm[i] # NoTable /\ uses[i] # NoTable => uses[i] = calm[i]

\* The window never stays busy: every way out of a thread frees it, if Stop has not.
BecomesFree == busy ~> ~busy
=============================================================================
