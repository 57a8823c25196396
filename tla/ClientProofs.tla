---------------------------- MODULE ClientProofs ----------------------------
(***************************************************************************)
(* What holds on a client's machine: of the chat window for any tables,    *)
(* questions and clicks, and of the updater for any items and versions,    *)
(* wherever it fails or dies.                                              *)
(***************************************************************************)
EXTENDS ChatWindow, Updater, FiniteSetTheorems, SequenceTheorems, WellFoundedInduction, TLAPS

-----------------------------------------------------------------------------
(* The chat window *)

\* The thread of a question lives between _on_send and the callback that ends it, of
\* which there is one.
DonesQueued ==
    /\ \A i \in Questions : i > sent => pc[i] = "none" /\ uses[i] = NoTable
    /\ \A n \in 1..Len(queue) : queue[n] \in Dones => pc[queue[n].of] = "ended"
    /\ \A m, n \in 1..Len(queue) : queue[m] \in Dones /\ queue[m] = queue[n] => m = n

\* In the middle of a click on Stop the window counts as free.
StopsCounted ==
    Cardinality(Unfinished) <= (IF busy /\ ~stopping THEN 1 ELSE 0) + stops

\* Without a Stop one question is answered at a time, and its Done comes last.
OneAtATime ==
    stops = 0 =>
        /\ ~cancel /\ ~stopping
        /\ \A i \in Questions : Alive(pc[i]) => i = sent /\ busy
        /\ \A m, n \in 1..Len(queue) : m < n /\ queue[m] \in Dones => queue[n] \in Readies

\* Nothing is loaded while a question that was sent at a calm time is answered.
StaysCalm ==
    stops = 0 => \A i \in Questions :
        calm[i] # NoTable =>
            /\ Alive(pc[i]) /\ NoLoadPending
            /\ assistant = calm[i] /\ uses[i] \in {NoTable, calm[i]}

WindowInv ==
    /\ TypeOK
    /\ DonesQueued /\ StopsCounted /\ OneAtATime
    /\ TextInItsTurn /\ StaysCalm

Places == {"none", "model", "first", "context", "second", "asking", "streaming", "ended"}

\* What a callback is can be told from it.
LEMMA Kinds ==
    /\ \A i \in Questions : Text(i) \in Texts /\ Done(i) \in Dones
                           /\ Text(i).of = i /\ Done(i).of = i
    /\ \A a \in Assistants \cup {NoTable} : Ready(a) \in Readies
    /\ \A c \in Texts : c \notin Dones /\ c \notin Readies
    /\ \A c \in Dones : c \notin Readies /\ c.of \in Questions /\ c = Done(c.of)
    /\ \A c \in Readies : c.of \in Assistants \cup {NoTable}
BY DEF Text, Done, Ready, Texts, Dones, Readies

\* Those who have still to finish are among the questions.
LEMMA UnfinishedFinite == Unfinished \subseteq Questions /\ IsFiniteSet(Unfinished)
<1>1. IsFiniteSet(Questions) /\ Unfinished \subseteq Questions
  BY FS_Interval, WindowAssumption DEF Questions, Unfinished
<1> QED
  BY <1>1, FS_Subset

\* Fewer are not more.
LEMMA FewerUnfinished ==
    ASSUME Unfinished' \subseteq Unfinished
    PROVE  /\ Cardinality(Unfinished') \in Nat /\ Cardinality(Unfinished) \in Nat
           /\ Cardinality(Unfinished') <= Cardinality(Unfinished)
           /\ Unfinished' # Unfinished => Cardinality(Unfinished') < Cardinality(Unfinished)
<1>1. IsFiniteSet(Unfinished)
  BY UnfinishedFinite
<1>2. IsFiniteSet(Unfinished')
  BY <1>1, FS_Subset
<1> QED
  BY <1>1, <1>2, FS_Subset, FS_CardinalityType

\* What a step of the thread of question i may do: hand over texts and, with its end, a
\* Done after them. (One way out leaves no Done.)
HandsOver(i) ==
    /\ Alive(pc[i])
    /\ queue' \in Seq(Callbacks) /\ Len(queue') >= Len(queue)
    /\ \A n \in 1..Len(queue) : queue'[n] = queue[n]
    /\ \A n \in 1..Len(queue') : n > Len(queue) =>
        \/ queue'[n] = Text(i)
        \/ queue'[n] = Done(i) /\ n = Len(queue') /\ pc'[i] = "ended"
    /\ pc' \in [Questions -> Places] /\ pc'[i] # "none"
    /\ tokens' \in [Questions -> 0..MaxTokens]
    /\ uses' \in [Questions -> Assistants \cup {NoTable}]
    /\ calm' \in [Questions -> Assistants \cup {NoTable}]
    /\ \A j \in Questions \ {i} : pc'[j] = pc[j] /\ uses'[j] = uses[j] /\ calm'[j] = calm[j]
    /\ \/ pc'[i] = "ended" /\ uses'[i] = NoTable /\ calm'[i] = NoTable
       \/ pc'[i] # "ended" /\ uses'[i] \in {uses[i], assistant} /\ calm'[i] = calm[i]
    /\ UNCHANGED <<flags, assistant, sent, loaders>>

\* Callbacks put at the end of the queue.
LEMMA Pushed ==
    ASSUME TypeOK, NEW s \in Seq(Callbacks), queue' = queue \o s
    PROVE  /\ queue' \in Seq(Callbacks) /\ Len(queue') = Len(queue) + Len(s)
           /\ Len(queue) \in Nat /\ Len(s) \in Nat
           /\ \A n \in 1..Len(queue) : queue'[n] = queue[n]
           /\ \A n \in 1..Len(queue') : n > Len(queue) => queue'[n] = s[n - Len(queue)]
BY ConcatProperties, LenProperties DEF TypeOK

\* The callbacks of a thread: none, a text, a Done, or both in this order.
Handed(i) == { <<>>, <<Text(i)>>, <<Done(i)>>, <<Text(i), Done(i)>> }

LEMMA HandedGrows ==
    ASSUME TypeOK, NEW i \in Questions, NEW s \in Handed(i), queue' = queue \o s,
           s \in {<<Done(i)>>, <<Text(i), Done(i)>>} => pc'[i] = "ended"
    PROVE  /\ queue' \in Seq(Callbacks) /\ Len(queue') >= Len(queue)
           /\ \A n \in 1..Len(queue) : queue'[n] = queue[n]
           /\ \A n \in 1..Len(queue') : n > Len(queue) =>
               \/ queue'[n] = Text(i)
               \/ queue'[n] = Done(i) /\ n = Len(queue') /\ pc'[i] = "ended"
<1>0. Text(i) \in Callbacks /\ Done(i) \in Callbacks
  BY Kinds DEF Callbacks
<1>1. s \in Seq(Callbacks) /\ Len(s) \in Nat
      /\ \A n \in 1..Len(s) : \/ s[n] = Text(i)
                              \/ s[n] = Done(i) /\ n = Len(s) /\ pc'[i] = "ended"
  <2>1. CASE s = <<>>
    BY <2>1, EmptySeq
  <2>2. CASE s = <<Text(i)>>
    <3>1. Len(s) = 1 /\ s[1] = Text(i) /\ s \in Seq(Callbacks)
      BY <1>0, <2>2
    <3> QED
      BY <3>1
  <2>3. CASE s = <<Done(i)>>
    <3>1. pc'[i] = "ended"
      BY <2>3
    <3>2. Len(s) = 1 /\ s[1] = Done(i) /\ s \in Seq(Callbacks)
      BY <1>0, <2>3
    <3> QED
      BY <3>1, <3>2
  <2>4. CASE s = <<Text(i), Done(i)>>
    <3>1. pc'[i] = "ended"
      BY <2>4
    <3>2. Len(s) = 2 /\ s[1] = Text(i) /\ s[2] = Done(i) /\ s \in Seq(Callbacks)
      BY <1>0, <2>4
    <3> QED
      BY <3>1, <3>2
  <2> QED
    BY <2>1, <2>2, <2>3, <2>4 DEF Handed
<1>2. /\ queue' \in Seq(Callbacks) /\ Len(queue') = Len(queue) + Len(s)
      /\ Len(queue) \in Nat
      /\ \A n \in 1..Len(queue) : queue'[n] = queue[n]
      /\ \A n \in 1..Len(queue') : n > Len(queue) => queue'[n] = s[n - Len(queue)]
  BY <1>1, Pushed
<1>3. \A n \in 1..Len(queue') : n > Len(queue) =>
        n - Len(queue) \in 1..Len(s) /\ (n - Len(queue) = Len(s) => n = Len(queue'))
  BY <1>1, <1>2
<1> QED
  BY <1>1, <1>2, <1>3

\* Every step of an _answer_worker is one of those.
LEMMA WorkerHandsOver ==
    ASSUME TypeOK, NEW i \in Questions, Worker(i)
    PROVE  HandsOver(i)
<1> USE DEF Places, Goto, Leave, Alive, flags, loaders
<1>0. /\ <<>> \in Handed(i) /\ <<Text(i)>> \in Handed(i) /\ <<Done(i)>> \in Handed(i)
      /\ <<Text(i), Done(i)>> \in Handed(i)
      /\ <<Text(i)>> \notin {<<Done(i)>>, <<Text(i), Done(i)>>}
      /\ <<>> \notin {<<Done(i)>>, <<Text(i), Done(i)>>}
  <2>1. Text(i) # Done(i)
    BY Kinds
  <2> QED
    BY <2>1 DEF Handed
<1>1. queue \o <<>> = queue /\ Append(queue, Text(i)) = queue \o <<Text(i)>>
  BY Kinds, ConcatEmptySeq, AppendIsConcat DEF TypeOK, Callbacks
<1>2. ASSUME NEW s \in Handed(i), queue' = queue \o s,
             s \in {<<Done(i)>>, <<Text(i), Done(i)>>} => pc'[i] = "ended",
             Alive(pc[i]), pc' \in [Questions -> Places], pc'[i] # "none",
             tokens' \in [Questions -> 0..MaxTokens],
             uses' \in [Questions -> Assistants \cup {NoTable}],
             calm' \in [Questions -> Assistants \cup {NoTable}],
             \A j \in Questions \ {i} : pc'[j] = pc[j] /\ uses'[j] = uses[j] /\ calm'[j] = calm[j],
             \/ pc'[i] = "ended" /\ uses'[i] = NoTable /\ calm'[i] = NoTable
             \/ pc'[i] # "ended" /\ uses'[i] \in {uses[i], assistant} /\ calm'[i] = calm[i],
             UNCHANGED <<flags, assistant, sent, loaders>>
      PROVE  HandsOver(i)
  BY <1>2, HandedGrows DEF HandsOver
<1> DEFINE Ends == /\ pc' = [pc EXCEPT ![i] = "ended"]
                   /\ tokens' = [tokens EXCEPT ![i] = 0]
                   /\ uses' = [uses EXCEPT ![i] = NoTable]
                   /\ calm' = [calm EXCEPT ![i] = NoTable]
                   /\ UNCHANGED <<flags, assistant, sent, loaders>>
<1>3. ASSUME Ends, Alive(pc[i]), NEW s \in Handed(i), queue' = queue \o s
      PROVE  HandsOver(i)
  <2>1. /\ pc' \in [Questions -> Places] /\ tokens' \in [Questions -> 0..MaxTokens]
        /\ uses' \in [Questions -> Assistants \cup {NoTable}]
        /\ calm' \in [Questions -> Assistants \cup {NoTable}]
        /\ pc'[i] = "ended" /\ uses'[i] = NoTable /\ calm'[i] = NoTable
        /\ \A j \in Questions \ {i} : pc'[j] = pc[j] /\ uses'[j] = uses[j] /\ calm'[j] = calm[j]
    BY <1>3, WindowAssumption DEF TypeOK
  <2> QED
    BY <1>2, <1>3, <2>1
<1>4. ASSUME End(i, <<>>), Alive(pc[i])
      PROVE  HandsOver(i)
  <2>1. queue' = queue \o <<Done(i)>>
    BY <1>1, <1>4 DEF End
  <2> QED
    BY <1>0, <1>3, <1>4, <2>1 DEF End
<1>5. ASSUME End(i, <<Text(i)>>), Alive(pc[i])
      PROVE  HandsOver(i)
  <2>1. queue' = queue \o <<Text(i), Done(i)>>
    <3>1. Text(i) \in Callbacks /\ Done(i) \in Callbacks
      BY Kinds DEF Callbacks
    <3>2. (queue \o <<Text(i)>>) \o <<Done(i)>> = queue \o (<<Text(i)>> \o <<Done(i)>>)
      BY <3>1, ConcatAssociative DEF TypeOK
    <3> QED
      BY <3>1, <3>2, <1>5 DEF End
  <2> QED
    BY <1>0, <1>3, <1>5, <2>1 DEF End
<1>6. CASE ModelReady(i)
  BY <1>0, <1>1, <1>2, <1>6 DEF ModelReady, TypeOK
<1>7. CASE ModelFails(i)
  BY <1>0, <1>3, <1>7 DEF ModelFails
<1>8. CASE CheckFirst(i)
  <2>1. CASE cancel
    BY <1>0, <1>1, <1>3, <1>8, <2>1 DEF CheckFirst
  <2>2. CASE ~cancel
    BY <1>0, <1>1, <1>2, <1>8, <2>2 DEF CheckFirst, TypeOK
  <2> QED
    BY <2>1, <2>2
<1>9. CASE Context(i)
  BY <1>0, <1>1, <1>2, <1>9 DEF Context, TypeOK
<1>10. CASE CheckSecond(i)
  <2>1. CASE cancel
    BY <1>4, <1>10, <2>1 DEF CheckSecond
  <2>2. CASE ~cancel
    BY <1>0, <1>1, <1>2, <1>10, <2>2 DEF CheckSecond, TypeOK
  <2> QED
    BY <2>1, <2>2
<1>11. CASE Ask(i)
  BY <1>0, <1>1, <1>2, <1>11 DEF Ask, TypeOK
<1>12. CASE Token(i)
  <2>1. CASE cancel
    BY <1>4, <1>12, <2>1 DEF Token
  <2>2. CASE ~cancel
    <3>1. tokens' \in [Questions -> 0..MaxTokens]
      <4>1. tokens[i] \in 0..MaxTokens /\ tokens[i] < MaxTokens
            /\ tokens' = [tokens EXCEPT ![i] = @ + 1]
        BY <1>12, <2>2 DEF Token, TypeOK
      <4>2. tokens[i] + 1 \in 0..MaxTokens
        BY <4>1, WindowAssumption
      <4> QED
        BY <4>1, <4>2 DEF TypeOK
    <3> QED
      BY <1>0, <1>1, <1>2, <1>12, <2>2, <3>1 DEF Token, TypeOK
  <2> QED
    BY <2>1, <2>2
<1>13. CASE Finish(i)
  BY <1>5, <1>13 DEF Finish
<1>14. CASE Fails(i)
  BY <1>4, <1>5, <1>14 DEF Fails
<1> QED
  BY <1>6, <1>7, <1>8, <1>9, <1>10, <1>11, <1>12, <1>13, <1>14 DEF Worker

\* Whatever a thread does then preserves the invariant.
LEMMA HandedOver ==
    ASSUME WindowInv, NEW i \in Questions, HandsOver(i)
    PROVE  WindowInv'
<1>0. /\ TypeOK /\ queue \in Seq(Callbacks) /\ Len(queue) \in Nat /\ Len(queue') \in Nat
      /\ Len(queue') >= Len(queue)
      /\ DOMAIN queue = 1..Len(queue) /\ DOMAIN queue' = 1..Len(queue')
  BY LenProperties DEF WindowInv, TypeOK, HandsOver
<1>1. TypeOK'
  BY <1>0 DEF TypeOK, HandsOver, flags, loaders, Places
<1>2. /\ \A n \in 1..Len(queue) : n \in 1..Len(queue') /\ queue'[n] = queue[n]
      /\ \A n \in 1..Len(queue') :
            \/ n \in 1..Len(queue) /\ queue'[n] = queue[n]
            \/ n > Len(queue) /\ queue'[n] = Text(i)
            \/ n > Len(queue) /\ queue'[n] = Done(i) /\ n = Len(queue') /\ pc'[i] = "ended"
  <2>1. \A n \in 1..Len(queue') : n \in 1..Len(queue) \/ n > Len(queue)
    BY <1>0
  <2>2. \A n \in 1..Len(queue) : n \in 1..Len(queue')
    BY <1>0
  <2> QED
    BY <2>1, <2>2 DEF HandsOver
<1>3. /\ Alive(pc[i]) /\ i <= sent /\ pc[i] # "none" /\ pc[i] # "ended"
      /\ \A j \in Questions \ {i} : pc'[j] = pc[j] /\ uses'[j] = uses[j] /\ calm'[j] = calm[j]
      /\ \/ pc'[i] = "ended" /\ uses'[i] = NoTable /\ calm'[i] = NoTable
         \/ pc'[i] # "ended" /\ uses'[i] \in {uses[i], assistant} /\ calm'[i] = calm[i]
      /\ pc'[i] # "none"
      /\ UNCHANGED <<busy, cancel, stopping, stops, assistant, sent, loads, started>>
  BY DEF HandsOver, Alive, WindowInv, DonesQueued, TypeOK, Questions, flags, loaders
<1>4. \A n \in 1..Len(queue) : queue[n] # Done(i)
  BY <1>3, Kinds DEF WindowInv, DonesQueued
<1>5. DonesQueued'
  <2>1. \A j \in Questions : j > sent' => pc'[j] = "none" /\ uses'[j] = NoTable
    BY <1>3 DEF WindowInv, DonesQueued, Questions, TypeOK
  <2>2. ASSUME NEW n \in 1..Len(queue'), queue'[n] \in Dones
        PROVE  pc'[queue'[n].of] = "ended"
    <3>1. CASE n \in 1..Len(queue) /\ queue'[n] = queue[n]
      BY <1>3, <1>4, <2>2, <3>1, Kinds DEF WindowInv, DonesQueued
    <3>2. CASE queue'[n] = Text(i)
      BY <2>2, <3>2, Kinds
    <3>3. CASE queue'[n] = Done(i) /\ pc'[i] = "ended"
      BY <3>3, Kinds
    <3> QED
      BY <1>2, <3>1, <3>2, <3>3
  <2>3. ASSUME NEW m \in 1..Len(queue'), NEW n \in 1..Len(queue'),
               queue'[m] \in Dones, queue'[m] = queue'[n]
        PROVE  m = n
    <3>1. queue'[m] # Text(i) /\ queue'[n] # Text(i)
      BY <2>3, Kinds
    <3>2. CASE m \in 1..Len(queue) /\ n \in 1..Len(queue)
      BY <1>2, <2>3, <3>2 DEF WindowInv, DonesQueued
    <3>3. CASE m \notin 1..Len(queue) /\ n \notin 1..Len(queue)
      BY <1>2, <3>1, <3>3
    <3>4. CASE (m \in 1..Len(queue)) # (n \in 1..Len(queue))
      BY <1>2, <1>4, <2>3, <3>1, <3>4
    <3> QED
      BY <3>2, <3>3, <3>4
  <2> QED
    BY <2>1, <2>2, <2>3 DEF DonesQueued
<1>6. StopsCounted'
  <2>1. Unfinished' \subseteq Unfinished
    <3>1. i \in Unfinished
      BY <1>3 DEF Unfinished
    <3>2. ASSUME NEW j \in Questions, j # i, j \in Unfinished'
          PROVE  j \in Unfinished
      <4>1. CASE Alive(pc'[j])
        BY <1>3, <3>2, <4>1 DEF Unfinished
      <4>2. CASE \E n \in 1..Len(queue') : queue'[n] = Done(j)
        <5>1. Done(j) # Done(i) /\ Done(j) # Text(i)
          BY <3>2, Kinds
        <5> QED
          BY <1>0, <1>2, <4>2, <5>1 DEF Unfinished
      <4> QED
        BY <1>0, <3>2, <4>1, <4>2 DEF Unfinished
    <3> QED
      BY <3>1, <3>2 DEF Unfinished
  <2>2. stops \in Nat
    BY WindowAssumption DEF WindowInv, TypeOK
  <2> QED
    BY <1>3, <2>1, <2>2, FewerUnfinished DEF WindowInv, StopsCounted
<1>7. ASSUME stops = 0
      PROVE  /\ i = sent /\ busy /\ ~cancel /\ ~stopping
             /\ \A n \in 1..Len(queue) : queue[n] \notin Dones
  <2>1. i = sent /\ busy /\ ~cancel /\ ~stopping
    BY <1>3, <1>7 DEF WindowInv, OneAtATime
  <2>2. \A n \in 1..Len(queue) : queue[n] \in Dones => queue[n] = Done(i)
    BY <1>0, <1>7, <2>1, Kinds DEF WindowInv, TextInItsTurn
  <2> QED
    BY <1>4, <2>1, <2>2
<1>8. OneAtATime'
  <2> SUFFICES ASSUME stops' = 0
               PROVE  OneAtATime'
    BY DEF OneAtATime
  <2>0. stops = 0
    BY <1>3
  <2>1. ~cancel' /\ ~stopping' /\ \A j \in Questions : Alive(pc'[j]) => j = sent' /\ busy'
    BY <1>3, <1>7, <2>0 DEF WindowInv, OneAtATime
  <2>2. ASSUME NEW m \in 1..Len(queue'), NEW n \in 1..Len(queue'), m < n, queue'[m] \in Dones
        PROVE  FALSE
    BY <1>2, <1>7, <2>0, <2>2, Kinds
  <2> QED
    BY <2>1, <2>2 DEF OneAtATime
<1>9. TextInItsTurn'
  <2> SUFFICES ASSUME stops' = 0, NEW n \in 1..Len(queue'), queue'[n] \notin Readies
               PROVE  queue'[n].of = sent' /\ busy'
    BY <1>0 DEF TextInItsTurn
  <2>0. stops = 0
    BY <1>3
  <2> QED
    BY <1>0, <1>2, <1>3, <1>7, <2>0, Kinds DEF WindowInv, TextInItsTurn
<1>10. StaysCalm'
  <2> SUFFICES ASSUME stops' = 0, NEW j \in Questions, calm'[j] # NoTable
               PROVE  /\ Alive(pc'[j]) /\ NoLoadPending'
                      /\ assistant' = calm'[j] /\ uses'[j] \in {NoTable, calm'[j]}
    BY DEF StaysCalm
  <2>1. calm[j] = calm'[j] /\ stops = 0 /\ calm[j] # NoTable
    BY <1>3
  <2>2. /\ Alive(pc[j]) /\ NoLoadPending
        /\ assistant = calm[j] /\ uses[j] \in {NoTable, calm[j]}
    BY <2>1 DEF WindowInv, StaysCalm
  <2>3. NoLoadPending'
    <3>1. Text(i) \notin Readies /\ Done(i) \notin Readies
      BY Kinds
    <3>2. \A n \in 1..Len(queue') : queue'[n] \notin Readies
      BY <1>0, <1>2, <2>2, <3>1 DEF NoLoadPending
    <3> QED
      BY <1>0, <1>3, <2>2, <3>2 DEF NoLoadPending
  <2>4. Alive(pc'[j])
    BY <1>3, <2>1, <2>2 DEF Alive
  <2>5. assistant' = calm'[j]
    BY <1>3, <2>1, <2>2
  <2>6. uses'[j] \in {NoTable, calm'[j]}
    BY <1>3, <2>1, <2>2
  <2> QED
    BY <2>3, <2>4, <2>5, <2>6
<1> QED
  BY <1>1, <1>5, <1>6, <1>8, <1>9, <1>10 DEF WindowInv

\* The invariant holds of a new window, which loads its first table.
LEMMA InitWindowInv == Init => WindowInv
<1> SUFFICES ASSUME Init PROVE WindowInv
  OBVIOUS
<1>1. /\ Head(Preferred) \in Tables
      /\ 1 \in 1..MaxLoads /\ 0 \in 0..MaxQuestions /\ 0 \in 0..MaxStops /\ 0 \in 0..MaxTokens
  BY WindowAssumption, HeadTailProperties
<1>2. TypeOK
  BY <1>1, EmptySeq DEF Init, TypeOK, LoadIds, Assistants
<1>3. queue = <<>> /\ DOMAIN queue = {} /\ 1..Len(queue) = {}
  BY DEF Init
<1>4. \A j \in Questions : ~Alive(pc[j]) /\ pc[j] = "none" /\ uses[j] = NoTable /\ calm[j] = NoTable
  BY DEF Init, Alive
<1>5. Unfinished = {} /\ Cardinality(Unfinished) = 0
  BY <1>3, <1>4, FS_EmptySet DEF Unfinished
<1>6. sent = 0 /\ stops = 0 /\ ~cancel /\ ~stopping
  BY DEF Init
<1> QED
  BY <1>2, <1>3, <1>4, <1>5, <1>6
     DEF WindowInv, DonesQueued, StopsCounted, OneAtATime, TextInItsTurn, StaysCalm

\* The queue without its first callback.
LEMMA Popped ==
    ASSUME TypeOK, queue # <<>>, queue' = Tail(queue)
    PROVE  /\ queue' \in Seq(Callbacks) /\ Len(queue) \in Nat \ {0} /\ Len(queue') = Len(queue) - 1
           /\ DOMAIN queue = 1..Len(queue) /\ DOMAIN queue' = 1..Len(queue')
           /\ Head(queue) = queue[1] /\ Head(queue) \in Callbacks
           /\ \A n \in 1..Len(queue') : n + 1 \in 1..Len(queue) /\ queue'[n] = queue[n + 1]
<1>1. queue \in Seq(Callbacks) /\ Len(queue) \in Nat \ {0}
  BY EmptySeq, LenProperties DEF TypeOK
<1>2. queue' \in Seq(Callbacks) /\ Len(queue') = Len(queue) - 1 /\ Head(queue) = queue[1]
      /\ Head(queue) \in Callbacks /\ \A n \in 1..Len(queue') : queue'[n] = queue[n + 1]
  BY <1>1, HeadTailProperties
<1>3. \A n \in 1..Len(queue') : n + 1 \in 1..Len(queue)
  BY <1>1, <1>2
<1> QED
  BY <1>1, <1>2, <1>3, LenProperties

\* What the three callbacks of the main loop have in common.
LEMMA CallbackRun ==
    ASSUME WindowInv, ~stopping, queue # <<>>, queue' = Tail(queue),
           UNCHANGED <<stopping, stops, workers, loaders>>
    PROVE  DonesQueued' /\ Unfinished' \subseteq Unfinished
<1>0. TypeOK
  BY DEF WindowInv
<1>1. DonesQueued'
  <2>1. ASSUME NEW m \in 1..Len(queue'), NEW n \in 1..Len(queue'),
               queue'[m] \in Dones, queue'[m] = queue'[n]
        PROVE  m = n
    <3>1. m + 1 = n + 1
      BY <1>0, <2>1, Popped DEF WindowInv, DonesQueued
    <3> QED
      BY <3>1
  <2> QED
    BY <1>0, <2>1, Popped DEF WindowInv, DonesQueued, workers
<1>2. Unfinished' \subseteq Unfinished
  BY <1>0, Popped DEF Unfinished, workers
<1> QED
  BY <1>1, <1>2

\* Shown texts.
LEMMA ShowTextInv == WindowInv /\ ShowText => WindowInv'
<1> SUFFICES ASSUME WindowInv, ShowText PROVE WindowInv'
  OBVIOUS
<1>0. /\ TypeOK /\ ~stopping /\ queue # <<>> /\ queue' = Tail(queue)
      /\ UNCHANGED <<stopping, stops, workers, loaders>>
      /\ UNCHANGED <<flags, assistant, workers, loaders>>
  BY DEF WindowInv, ShowText, flags
<1>1. TypeOK'
  BY <1>0, Popped DEF TypeOK, flags, workers, loaders
<1>2. StopsCounted'
  BY <1>0, <1>1, CallbackRun, FewerUnfinished, WindowAssumption
     DEF WindowInv, StopsCounted, TypeOK, flags
<1>3. OneAtATime'
  BY <1>0, Popped DEF WindowInv, OneAtATime, flags, workers
<1>4. TextInItsTurn'
  BY <1>0, Popped DEF WindowInv, TextInItsTurn, flags, workers
<1>5. StaysCalm'
  BY <1>0, Popped DEF WindowInv, StaysCalm, NoLoadPending, flags, workers, loaders
<1> QED
  BY <1>0, <1>1, <1>2, <1>3, <1>4, <1>5, CallbackRun DEF WindowInv

\* A Done sets the window free: of the thread that put it there, or of another.
LEMMA DoneAnsweringInv == WindowInv /\ DoneAnswering => WindowInv'
<1> SUFFICES ASSUME WindowInv, DoneAnswering PROVE WindowInv'
  OBVIOUS
<1>0. /\ TypeOK /\ ~stopping /\ queue # <<>> /\ queue' = Tail(queue) /\ Head(queue) \in Dones
      /\ UNCHANGED <<stopping, stops, workers, loaders>>
      /\ busy' = FALSE /\ cancel' = FALSE /\ assistant' = assistant
  BY DEF WindowInv, DoneAnswering
<1>1. TypeOK'
  BY <1>0, Popped DEF TypeOK, workers, loaders
<1>2. PICK i \in Questions : Head(queue) = Done(i) /\ pc[i] = "ended" /\ queue[1] = Done(i)
  BY <1>0, Popped, Kinds DEF WindowInv, DonesQueued
<1>3. StopsCounted'
  <2>1. i \in Unfinished
    BY <1>0, <1>2, Popped DEF Unfinished
  <2>2. i \notin Unfinished'
    <3>1. \A n \in 1..Len(queue') : queue'[n] # Done(i)
      <4> SUFFICES ASSUME NEW n \in 1..Len(queue'), queue'[n] = Done(i) PROVE FALSE
        OBVIOUS
      <4>1. n + 1 \in 1..Len(queue) /\ queue[n + 1] = Done(i) /\ 1 \in 1..Len(queue)
        BY <1>0, Popped
      <4>2. 1 = n + 1
        BY <1>0, <1>2, <4>1 DEF WindowInv, DonesQueued
      <4> QED
        BY <4>2
    <3> QED
      BY <1>0, <1>2, <3>1, Popped DEF Unfinished, workers, Alive
  <2>3. /\ Cardinality(Unfinished') \in Nat /\ Cardinality(Unfinished) \in Nat
        /\ Cardinality(Unfinished') < Cardinality(Unfinished)
    BY <1>0, <2>1, <2>2, CallbackRun, FewerUnfinished
  <2>4. Cardinality(Unfinished) <= 1 + stops /\ stops \in Nat /\ stops' = stops
    BY <1>0, <2>3, WindowAssumption DEF WindowInv, StopsCounted, TypeOK
  <2>5. Cardinality(Unfinished') <= stops'
    BY <2>3, <2>4
  <2> QED
    BY <1>0, <2>4, <2>5 DEF StopsCounted
<1>4. stops = 0 => /\ \A j \in Questions : ~Alive(pc[j])
                   /\ \A n \in 1..Len(queue') : queue'[n] \in Readies
  <2> SUFFICES ASSUME stops = 0
               PROVE  /\ \A j \in Questions : ~Alive(pc[j])
                      /\ \A n \in 1..Len(queue') : queue'[n] \in Readies
    OBVIOUS
  <2>1. i = sent
    BY <1>0, <1>2, Popped, Kinds DEF WindowInv, TextInItsTurn
  <2>2. \A j \in Questions : ~Alive(pc[j])
    BY <1>2, <2>1 DEF WindowInv, OneAtATime, Alive
  <2>3. ASSUME NEW n \in 1..Len(queue')
        PROVE  queue'[n] \in Readies
    <3>1. 1 \in 1..Len(queue) /\ n + 1 \in 1..Len(queue) /\ 1 < n + 1 /\ queue[1] \in Dones
      BY <1>0, <2>3, Popped
    <3> QED
      BY <1>0, <3>1, Popped DEF WindowInv, OneAtATime
  <2> QED
    BY <2>2, <2>3
<1>5. OneAtATime'
  BY <1>0, <1>4 DEF WindowInv, OneAtATime, workers
<1>6. TextInItsTurn'
  BY <1>0, <1>4, Popped DEF TextInItsTurn, workers
<1>7. StaysCalm'
  BY <1>0, <1>4 DEF WindowInv, StaysCalm, workers
<1> QED
  BY <1>0, <1>1, <1>3, <1>5, <1>6, <1>7, CallbackRun DEF WindowInv

\* A new assistant comes in nobody's way.
LEMMA OnReadyInv == WindowInv /\ OnReady => WindowInv'
<1> SUFFICES ASSUME WindowInv, OnReady PROVE WindowInv'
  OBVIOUS
<1>0. /\ TypeOK /\ ~stopping /\ queue # <<>> /\ queue' = Tail(queue) /\ Head(queue) \in Readies
      /\ UNCHANGED <<stopping, stops, workers, loaders>>
      /\ UNCHANGED <<flags, workers, loaders>> /\ assistant' = Head(queue).of
  BY DEF WindowInv, OnReady, flags
<1>1. TypeOK'
  BY <1>0, Popped, Kinds DEF TypeOK, flags, workers, loaders
<1>2. StopsCounted'
  BY <1>0, <1>1, CallbackRun, FewerUnfinished, WindowAssumption
     DEF WindowInv, StopsCounted, TypeOK, flags
<1>3. OneAtATime'
  BY <1>0, Popped DEF WindowInv, OneAtATime, flags, workers
<1>4. TextInItsTurn'
  BY <1>0, Popped DEF WindowInv, TextInItsTurn, flags, workers
<1>5. ~NoLoadPending
  BY <1>0, Popped DEF NoLoadPending
<1>6. StaysCalm'
  BY <1>0, <1>5 DEF WindowInv, StaysCalm, flags, workers
<1> QED
  BY <1>0, <1>1, <1>2, <1>3, <1>4, <1>6, CallbackRun DEF WindowInv

\* A question is sent in a free window, or Stop is clicked, or a table is chosen.
LEMMA ClicksInv == WindowInv /\ (Send \/ StopBegin \/ StopEnd \/ SelectTable) => WindowInv'
<1> SUFFICES ASSUME WindowInv, Send \/ StopBegin \/ StopEnd \/ SelectTable PROVE WindowInv'
  OBVIOUS
<1>0. /\ TypeOK /\ stops \in Nat /\ queue' = queue /\ assistant' = assistant
      /\ Len(queue) \in Nat /\ DOMAIN queue = 1..Len(queue)
      /\ Cardinality(Unfinished) \in Nat /\ IsFiniteSet(Unfinished)
      /\ Cardinality(Unfinished) <= (IF busy /\ ~stopping THEN 1 ELSE 0) + stops
  <2>1. Cardinality(Unfinished) \in Nat /\ IsFiniteSet(Unfinished)
    BY UnfinishedFinite, FS_CardinalityType
  <2>2. TypeOK /\ stops \in Nat /\ Len(queue) \in Nat /\ DOMAIN queue = 1..Len(queue)
    BY WindowAssumption, LenProperties DEF WindowInv, TypeOK
  <2> QED
    BY <2>1, <2>2 DEF WindowInv, StopsCounted, Send, StopBegin, StopEnd, SelectTable, flags
<1>1. CASE Send
  <2> DEFINE i == sent + 1
  <2>1. /\ ~stopping /\ ~busy /\ i \in Questions /\ sent \in Nat
        /\ busy' = TRUE /\ cancel' = FALSE /\ sent' = i
        /\ pc' = [pc EXCEPT ![i] = "model"]
        /\ calm' = [calm EXCEPT ![i] = IF NoLoadPending THEN assistant ELSE NoTable]
        /\ UNCHANGED <<stopping, stops, tokens, uses, loads, started>>
    BY <1>0, <1>1, WindowAssumption DEF Send, TypeOK, Questions, loaders
  <2> HIDE DEF i
  <2>2. pc[i] = "none" /\ uses[i] = NoTable
    BY <2>1 DEF i, WindowInv, DonesQueued
  <2>3. TypeOK'
    <3>1. sent' \in 0..MaxQuestions
      BY <2>1, WindowAssumption DEF Questions
    <3> QED
      BY <1>0, <2>1, <3>1 DEF TypeOK
  <2>4. DonesQueued'
    <3>1. \A j \in Questions : j > i => j > sent /\ j # i
      BY <2>1 DEF i, Questions
    <3> QED
      BY <1>0, <2>1, <2>2, <3>1, Kinds DEF WindowInv, DonesQueued, TypeOK
  <2>5. StopsCounted'
    <3>1. Unfinished' \subseteq Unfinished \cup {i}
      BY <1>0, <2>1 DEF Unfinished, TypeOK
    <3>2. /\ IsFiniteSet(Unfinished \cup {i})
          /\ Cardinality(Unfinished \cup {i}) <= Cardinality(Unfinished) + 1
          /\ Cardinality(Unfinished \cup {i}) \in Nat
      BY <1>0, FS_AddElement, FS_CardinalityType
    <3>3. Cardinality(Unfinished') <= Cardinality(Unfinished \cup {i}) /\ Cardinality(Unfinished') \in Nat
      BY <3>1, <3>2, FS_Subset, FS_CardinalityType
    <3> QED
      BY <1>0, <2>1, <3>2, <3>3 DEF StopsCounted
  <2>6. ASSUME stops = 0
        PROVE  /\ \A j \in Questions : ~Alive(pc[j]) /\ calm[j] = NoTable
               /\ \A n \in 1..Len(queue) : queue[n] \in Readies
               /\ ~cancel /\ ~stopping
    BY <1>0, <2>1, <2>6 DEF WindowInv, OneAtATime, TextInItsTurn, StaysCalm
  <2>7. OneAtATime'
    BY <1>0, <2>1, <2>6 DEF OneAtATime, TypeOK
  <2>8. TextInItsTurn'
    BY <1>0, <2>1, <2>6 DEF TextInItsTurn
  <2>9. StaysCalm'
    <3> SUFFICES ASSUME stops' = 0, NEW j \in Questions, calm'[j] # NoTable
                 PROVE  /\ Alive(pc'[j]) /\ NoLoadPending'
                        /\ assistant' = calm'[j] /\ uses'[j] \in {NoTable, calm'[j]}
      BY DEF StaysCalm
    <3>1. j = i
      BY <2>1, <2>6 DEF TypeOK
    <3>2. NoLoadPending /\ calm'[i] = assistant /\ pc'[i] = "model"
      BY <1>0, <2>1, <3>1 DEF TypeOK
    <3> QED
      BY <1>0, <2>1, <2>2, <3>1, <3>2 DEF NoLoadPending, Alive
  <2> QED
    BY <2>3, <2>4, <2>5, <2>7, <2>8, <2>9 DEF WindowInv
<1>2. CASE StopBegin
  <2>1. /\ ~stopping /\ busy /\ cancel' = TRUE /\ stopping' = TRUE /\ stops' = stops + 1
        /\ stops' # 0 /\ busy' = busy /\ stops < MaxStops
        /\ UNCHANGED <<pc, tokens, uses, sent, calm, loads, started>>
    BY <1>0, <1>2 DEF StopBegin, workers, loaders
  <2>2. Unfinished' = Unfinished
    BY <1>0, <2>1 DEF Unfinished
  <2>3. TypeOK'
    <3>1. stops' \in 0..MaxStops
      BY <1>0, <2>1, WindowAssumption
    <3> QED
      BY <1>0, <2>1, <3>1 DEF TypeOK
  <2>4. StopsCounted'
    BY <1>0, <2>1, <2>2 DEF StopsCounted
  <2> QED
    BY <1>0, <2>1, <2>3, <2>4
       DEF WindowInv, DonesQueued, OneAtATime, TextInItsTurn, StaysCalm
<1>3. CASE StopEnd
  <2>1. /\ stopping /\ busy' = FALSE /\ cancel' = FALSE /\ stopping' = FALSE
        /\ UNCHANGED <<stops, pc, tokens, uses, sent, calm, loads, started>>
    BY <1>3 DEF StopEnd, workers, loaders
  <2>2. Unfinished' = Unfinished
    BY <1>0, <2>1 DEF Unfinished
  <2>3. TypeOK'
    BY <1>0, <2>1 DEF TypeOK
  <2>4. StopsCounted'
    BY <1>0, <2>1, <2>2 DEF StopsCounted
  <2>5. stops # 0
    BY <2>1 DEF WindowInv, OneAtATime
  <2> QED
    BY <1>0, <2>1, <2>3, <2>4, <2>5
       DEF WindowInv, DonesQueued, OneAtATime, TextInItsTurn, StaysCalm
<1>4. CASE SelectTable
  <2>1. PICK t \in Tables :
           /\ ~stopping /\ ~busy /\ started < MaxLoads /\ started' = started + 1
           /\ loads' = [loads EXCEPT ![started + 1] = t]
           /\ UNCHANGED <<busy, cancel, stopping, stops, pc, tokens, uses, sent, calm>>
    BY <1>4 DEF SelectTable, workers, flags
  <2>2. Unfinished' = Unfinished
    BY <1>0, <2>1 DEF Unfinished
  <2>3. TypeOK'
    <3>1. started' \in 1..MaxLoads
      BY <1>0, <2>1, WindowAssumption DEF TypeOK
    <3> QED
      BY <1>0, <2>1, <3>1 DEF TypeOK
  <2>4. StopsCounted'
    BY <1>0, <2>1, <2>2 DEF StopsCounted
  <2>5. stops = 0 => \A j \in Questions : calm[j] = NoTable
    BY <2>1 DEF WindowInv, OneAtATime, StaysCalm
  <2> QED
    BY <1>0, <2>1, <2>3, <2>4, <2>5
       DEF WindowInv, DonesQueued, OneAtATime, TextInItsTurn, StaysCalm
<1> QED
  BY <1>1, <1>2, <1>3, <1>4

\* _connect finds a table of those there are, or none.
LEMMA ConnectFinds ==
    ASSUME NEW t \in Tables, NEW there \in SUBSET Tables
    PROVE  Connect(t, there) \in Assistants
<1> DEFINE names == <<t>> \o Preferred
           found == { n \in 1..Len(names) :
                        names[n] \in there /\ \A m \in 1..n-1 : names[m] \notin there }
<1>1. CASE found = {}
  BY <1>1 DEF Connect, Assistants
<1>2. CASE found # {}
  <2>1. (CHOOSE n \in found : TRUE) \in found
    BY <1>2
  <2>2. names[CHOOSE n \in found : TRUE] \in there
    BY <2>1
  <2> QED
    BY <1>2, <2>2 DEF Connect, Assistants
<1> QED
  BY <1>1, <1>2

\* The end of _init_worker: no question that was sent at a calm time is under way.
LEMMA LoadEndsInv == ASSUME WindowInv, NEW k \in LoadIds, LoadEnds(k) PROVE WindowInv'
<1>1. PICK a \in Assistants \cup {NoTable} :
         /\ loads[k] # NoTable /\ queue' = Append(queue, Ready(a))
         /\ loads' = [loads EXCEPT ![k] = NoTable]
         /\ UNCHANGED <<busy, cancel, stopping, stops, assistant, pc, tokens, uses, sent, calm, started>>
  <2>1. loads[k] # NoTable => loads[k] \in Tables
    BY DEF WindowInv, TypeOK
  <2> QED
    BY <2>1, ConnectFinds DEF LoadEnds, flags, workers
<1>2. /\ TypeOK /\ Len(queue) \in Nat /\ DOMAIN queue = 1..Len(queue)
      /\ queue' \in Seq(Callbacks) /\ Len(queue') = Len(queue) + 1 /\ DOMAIN queue' = 1..Len(queue')
      /\ Ready(a) \in Readies
      /\ \A n \in 1..Len(queue) : queue'[n] = queue[n]
      /\ queue'[Len(queue) + 1] = Ready(a)
  BY <1>1, Kinds, AppendProperties, LenProperties DEF WindowInv, TypeOK, Callbacks
<1>3. \A n \in 1..Len(queue') : \/ n \in 1..Len(queue) /\ queue'[n] = queue[n]
                                \/ n = Len(queue) + 1 /\ queue'[n] \in Readies
  BY <1>2
<1>4. TypeOK'
  BY <1>1, <1>2 DEF TypeOK
<1>5. DonesQueued'
  BY <1>1, <1>3, Kinds DEF WindowInv, DonesQueued
<1>6. Unfinished' \subseteq Unfinished
  BY <1>1, <1>2, <1>3, Kinds DEF Unfinished
<1>7. StopsCounted'
  BY <1>1, <1>6, FewerUnfinished, WindowAssumption DEF WindowInv, StopsCounted, TypeOK
<1>8. OneAtATime'
  <2>1. \A m, n \in 1..Len(queue') : m < n => m \in 1..Len(queue) /\ queue'[m] = queue[m]
    BY <1>2
  <2> QED
    BY <1>1, <1>3, <2>1 DEF WindowInv, OneAtATime
<1>9. TextInItsTurn'
  BY <1>1, <1>2, <1>3 DEF WindowInv, TextInItsTurn
<1>10. StaysCalm'
  BY <1>1 DEF WindowInv, StaysCalm, NoLoadPending
<1> QED
  BY <1>4, <1>5, <1>7, <1>8, <1>9, <1>10 DEF WindowInv

\* Clicks, callbacks and threads preserve the invariant in every order.
LEMMA NextWindowInv == WindowInv /\ [Next]_vars => WindowInv'
<1> SUFFICES ASSUME WindowInv, [Next]_vars PROVE WindowInv'
  OBVIOUS
<1>1. CASE UNCHANGED vars
  BY <1>1 DEF vars, flags, workers, loaders, WindowInv, TypeOK, DonesQueued, StopsCounted, Unfinished,
     OneAtATime, TextInItsTurn, StaysCalm, NoLoadPending
<1>2. ASSUME NEW i \in Questions, Worker(i)
      PROVE  WindowInv'
  BY <1>2, WorkerHandsOver, HandedOver DEF WindowInv
<1>3. ASSUME NEW k \in LoadIds, LoadEnds(k)
      PROVE  WindowInv'
  BY <1>3, LoadEndsInv
<1> QED
  BY <1>1, <1>2, <1>3, ClicksInv, ShowTextInv, DoneAnsweringInv, OnReadyInv DEF Next, MainLoop

\* The invariant holds whatever the user clicks and the threads do.
THEOREM WindowInvariance == Spec => []WindowInv
BY InitWindowInv, NextWindowInv, PTL DEF Spec

\* A Stop is worth one thread too many at most (_on_stop, _done_answering).
THEOREM StopsAreCounted == Spec => []WorkersCounted
<1>1. WindowInv => WorkersCounted
  <2>1. Cardinality(Unfinished) \in Nat
    BY UnfinishedFinite, FS_CardinalityType
  <2> QED
    BY <2>1, WindowAssumption DEF WindowInv, TypeOK, StopsCounted, WorkersCounted
<1> QED
  BY <1>1, WindowInvariance, PTL

\* Without a Stop a question's texts are shown before the next is sent.
THEOREM TextsInTurn == Spec => []TextInItsTurn
<1>1. WindowInv => TextInItsTurn
  BY DEF WindowInv
<1> QED
  BY <1>1, WindowInvariance, PTL

\* Without a Stop a question sent at a calm time is answered from the table it saw.
THEOREM AnsweredFromTable == Spec => []AnsweredFromItsTable
<1>1. WindowInv => AnsweredFromItsTable
  BY DEF WindowInv, StaysCalm, AnsweredFromItsTable
<1> QED
  BY <1>1, WindowInvariance, PTL

-----------------------------------------------------------------------------
(* The updater *)

\* Before the backup, while it is made, and while items are replaced or put back.
Between == {"idle", "confirmed", "clearing"}
Replacing == {"replacing", "restoring"}

\* Every item holds version v.
AllHold(items, v) == \A x \in Items : items[x] = v

\* There is a ZIP, and it is whole by the time it replaces anything.
ZipInHand ==
    /\ dist[1] = 1
    /\ phase \in {"clearing", "saving"} => zip # Absent
    /\ phase = "replacing" => zip \in Versions

\* Only the two loops take an item away, and none twice.
HandsOn == current # Nobody => phase \in Replacing /\ current \notin todo

\* What died leaves is dealt with by the next call or is spoiled.
WholeBetween == phase \in Between /\ ~died /\ ~spoiled => AllHold(base, whole)
NotDied == phase \notin Between /\ ~spoiled => ~died

\* The backup is made of a whole installation, and kept until the end.
BackupGrows ==
    phase = "saving" /\ ~spoiled =>
        AllHold(base, whole) /\ \A x \in Items \ todo : backup[x] = whole
BackupWhole == phase \in Replacing /\ ~spoiled => AllHold(backup, whole)

\* The loops leave the new version, or the old one, in what they have handled.
Replaced ==
    phase = "replacing" => \A x \in Items \ (todo \cup {current}) : base[x] = zip
PutBack ==
    phase = "restoring" /\ ~spoiled =>
        \A x \in Items \ (todo \cup {current}) : base[x] = whole

UpdateInv ==
    /\ UpdateTypes /\ ZipInHand /\ HandsOn
    /\ NothingLost /\ WholeBetween /\ NotDied
    /\ BackupGrows /\ BackupWhole /\ Replaced /\ PutBack

\* Some version's ZIP is there, so there is a latest one.
LEMMA LatestIsThere ==
    ASSUME dist \in [Versions -> Contents], dist[1] = 1
    PROVE  Latest \in Versions /\ dist[Latest] # Absent
<1> DEFINE S == { v \in Versions : dist[v] # Absent }
           Above(v) == { w \in S : w > v }
           T == { Above(v) : v \in S }
<1>1. Versions \subseteq Int /\ IsFiniteSet(Versions) /\ 1 \in S
  BY UpdaterAssumption, FS_Interval DEF Versions, Absent
<1>2. IsFiniteSet(S)
  BY <1>1, FS_Subset
<1>3. T \subseteq FiniteSubsetsOf(S) /\ T # {}
  <2>1. \A v \in S : Above(v) \in SUBSET S /\ IsFiniteSet(Above(v))
    BY <1>2, FS_Subset
  <2> QED
    BY <1>1, <2>1 DEF FiniteSubsetsOf
<1>4. PICK X \in T : \A Y \in T : <<Y, X>> \notin StrictSubsetOrdering(S)
  <2> HIDE DEF T
  <2> QED
    BY <1>2, <1>3, FS_StrictSubsetOrderingWellFounded, WFMin
<1>5. PICK v \in S : X = Above(v)
  BY <1>4
<1>6. ASSUME NEW w \in S, w > v
      PROVE  FALSE
  <2>0. \A u \in S : u \in Int
    BY <1>1
  <2> HIDE DEF S
  <2>1. Above(w) \subseteq Above(v) /\ w \in Above(v) /\ w \notin Above(w)
    BY <2>0, <1>6
  <2>2. <<Above(w), Above(v)>> \in StrictSubsetOrdering(S)
    BY <2>1 DEF StrictSubsetOrdering
  <2> QED
    BY <2>2, <1>4, <1>5
<1>7. v \in Versions /\ dist[v] # Absent /\ \A w \in Versions : w > v => dist[w] = Absent
  BY <1>6
<1> QED
  BY <1>7 DEF Latest

\* No SHA-256 is a SHA-256.
LEMMA NoShaType == NoSha \in (0..MaxVersion) \X Contents
BY UpdaterAssumption DEF NoSha, Sha, Contents, Absent

\* The installation the updater starts from.
LEMMA InitUpdateInv == InitUpdate => UpdateInv
<1> SUFFICES ASSUME InitUpdate PROVE UpdateInv
  OBVIOUS
<1> USE UpdaterAssumption DEF InitUpdate, Contents, Versions, Absent, Partial
<1>1. /\ dist \in [Versions -> Contents] /\ dist[1] = 1
      /\ announced \in (0..MaxVersion) \X Contents
      /\ base \in [Items -> Contents] /\ backup \in [Items -> Contents]
  BY NoShaType DEF Installed, Nothing
<1>2. UpdateTypes
  <2>1. /\ offered \in Versions /\ whole \in Versions /\ zip \in Contents
        /\ phase = "idle" /\ todo = {} /\ current = Nobody /\ died = FALSE /\ spoiled = FALSE
    OBVIOUS
  <2> QED
    BY <1>1, <2>1, Zenon DEF UpdateTypes
<1>3. AllHold(base, whole)
  BY DEF AllHold, Installed
<1> QED
  BY <1>1, <1>2, <1>3 DEF UpdateInv, ZipInHand, HandsOn, NothingLost, WholeBetween, NotDied,
     BackupGrows, BackupWhole, Replaced, PutBack, AllHold, Between, Replacing

\* What a step may raise or cut short preserves the invariant all the same.
LEMMA NextUpdateInv == UpdateInv /\ [NextUpdate]_updateVars => UpdateInv'
<1> SUFFICES ASSUME UpdateInv, [NextUpdate]_updateVars PROVE UpdateInv'
  OBVIOUS
<1> USE UpdaterAssumption
    DEF serverVars, historyVars, UpdateInv, UpdateTypes, ZipInHand, HandsOn, NothingLost,
        WholeBetween, NotDied, BackupGrows, BackupWhole, Replaced, PutBack, AllHold,
        Between, Replacing, Contents, Versions, Absent, Partial
<1>1. CASE NewVersion
  BY <1>1 DEF NewVersion
<1>2. CASE BuildZip
  <2>1. dist' \in [Versions -> Contents] /\ dist'[1] = 1
    BY <1>2 DEF BuildZip
  <2> QED
    BY <1>2, <2>1 DEF BuildZip
<1>3. CASE CheckForUpdate
  <2>1. announced' = <<Latest, dist[Latest]>> /\ phase = "idle" /\ phase' = "confirmed"
        /\ UNCHANGED <<serverVars, zip, base, backup, todo, current, historyVars>>
    BY <1>3 DEF CheckForUpdate, CheckAnswer, Sha
  <2>2. announced' \in (0..MaxVersion) \X Contents
    BY <2>1, LatestIsThere
  <2> QED
    BY <2>1, <2>2
<1>4. CASE GiveUp
  BY <1>4, NoShaType DEF GiveUp
<1>5. CASE StartBackup
  BY <1>5 DEF StartBackup, Nothing
<1>6. CASE Extract
  BY <1>6 DEF Extract
<1>7. CASE CopyItem
  BY <1>7 DEF CopyItem, Source
<1>8. CASE Succeed
  BY <1>8 DEF Succeed
<1>9. CASE SaveFails
  <2>1. /\ backup' \in [Items -> Contents]
        /\ todo' = { x \in Items : backup'[x] # Absent }
        /\ spoiled' = TRUE /\ phase' = "restoring" /\ phase \in {"clearing", "saving"}
        /\ UNCHANGED <<serverVars, announced, zip, base, current, whole, died>>
    BY <1>9 DEF SaveFails
  <2> QED
    BY <2>1
<1>10. CASE ExtractFails
  BY <1>10 DEF ExtractFails
<1>11. CASE ReplaceFails
  BY <1>11 DEF ReplaceFails, Torn
<1>12. CASE Die
  <2>1. /\ base' \in [Items -> Contents] /\ backup' \in [Items -> Contents]
        /\ phase \notin Replacing => base' = base
        /\ phase # "clearing" => backup' = backup
    BY <1>12 DEF Die, Torn
  <2>2. UpdateTypes'
    BY <1>12, <2>1, NoShaType DEF Die
  <2> QED
    BY <1>12, <2>1, <2>2 DEF Die
<1>13. CASE Restored
  BY <1>13 DEF Restored
<1>14. ASSUME NEW x \in Items, SaveItem(x)
      PROVE  UpdateInv'
  BY <1>14 DEF SaveItem
<1>15. ASSUME NEW x \in Items, RemoveItem(x)
      PROVE  UpdateInv'
  BY <1>15 DEF RemoveItem
<1>16. CASE Download
  BY <1>16, LatestIsThere DEF Download, Sent, Sha, NoSha
<1>17. CASE UNCHANGED updateVars
  BY <1>17 DEF updateVars
<1> QED
  BY <1>1, <1>2, <1>3, <1>4, <1>5, <1>6, <1>7, <1>8, <1>9, <1>10, <1>11, <1>12, <1>13, <1>14, <1>15, <1>16, <1>17 DEF NextUpdate

\* It holds throughout: in the middle of an update, after a failure, after a death.
THEOREM UpdateInvariance == SpecUpdate => []UpdateInv
BY InitUpdateInv, NextUpdateInv, PTL DEF SpecUpdate

\* Between two calls the installation is one version (apply_update).
THEOREM OneVersionStays == SpecUpdate => []OneVersion
<1>1. UpdateInv => OneVersion
  BY DEF UpdateInv, UpdateTypes, WholeBetween, AllHold, Between, OneVersion, Installed
<1> QED
  BY <1>1, UpdateInvariance, PTL

\* Every item of the last whole installation is in place or in the backup.
THEOREM NothingIsLost == SpecUpdate => []NothingLost
<1>1. UpdateInv => NothingLost
  BY DEF UpdateInv
<1> QED
  BY <1>1, UpdateInvariance, PTL
=============================================================================
