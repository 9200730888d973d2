--------------------------- MODULE OpenCodeProofs ---------------------------
(***************************************************************************)
(* Theorems about OpenCodeTurns, for any number of turns, answers, chunks  *)
(* and occurrences.                                                        *)
(*                                                                         *)
(* What a queue may hold is stated as membership in a set of sequences,    *)
(* Seq(Own(t)), so that appending and replaying need no indices.  A queue  *)
(* stays clean because the bound answer is one of the current turn and     *)
(* what _early keeps of an answer is from that answer.                     *)
(*                                                                         *)
(* What the text of a turn is needs invariants that reach from the server  *)
(* to the queue.  HeardOf says what an event on the wire can be of, and    *)
(* that no answer is heard of before it is begun.  OrderedInv follows a    *)
(* chunk through the wire, _early, the queue and what is said: none comes  *)
(* twice or overtakes another.  WholesInv says of a turn with one answer   *)
(* that none is left out on the way.                                       *)
(***************************************************************************)
EXTENDS OpenCodeTurns, SequenceTheorems, TLAPS

\* The events turn t may be given.
Own(t) == {e \in AgentEvents : e.kind \in {"text", "approval"} => Parent(e.of) = t}

QueuesOwn == \A t \in Turns : queue[t] \in Seq(Own(t))
EarlyOwn == \A a \in Answers : early[a] \in Seq(Own(Parent(a)))
BoundToCurrent == bound # NoAnswer => Parent(bound) = current
RouterInv == RouterTypeOK /\ QueuesOwn /\ EarlyOwn /\ BoundToCurrent

-----------------------------------------------------------------------------
(* The router.                                                             *)

\* Sequences over a set are sequences over a larger one.
LEMMA SeqMonotone ==
  ASSUME NEW S, NEW T, S \subseteq T, NEW s \in Seq(S)
  PROVE  s \in Seq(T)
OBVIOUS

\* Putting a turn's own events into its queue keeps the queues clean.
LEMMA PutKeepsQueues ==
  ASSUME RouterInv, NEW t \in Turns, NEW events \in Seq(Own(t)), Put(t, events)
  PROVE  queue' \in [Turns -> Seq(AgentEvents)] /\ QueuesOwn'
<1>1. queue[t] \o events \in Seq(Own(t))
  BY ConcatProperties DEF RouterInv, QueuesOwn
<1>2. queue[t] \o events \in Seq(AgentEvents)
  BY <1>1, SeqMonotone DEF Own
<1>3. queue' = [queue EXCEPT ![t] = queue[t] \o events]
  BY DEF Put
<1>4. queue' \in [Turns -> Seq(AgentEvents)]
  BY <1>2, <1>3 DEF RouterInv, RouterTypeOK
<1>5. QueuesOwn'
  BY <1>1, <1>3 DEF RouterInv, RouterTypeOK, QueuesOwn
<1> QED BY <1>4, <1>5

\* A turn with an active queue is a turn.
LEMMA ActiveIsTurn ==
  ASSUME RouterInv, HasActiveQueue
  PROVE  current \in Turns
BY DEF RouterInv, RouterTypeOK, HasActiveQueue

\* An answer, or a prompt, is a pair whose parent is a turn.
LEMMA AnswersHaveParents ==
  ASSUME NEW a \in Answers
  PROVE  Parent(a) \in Turns /\ a # NoAnswer
BY DEF Answers, Parent, NoAnswer, Turns

\* What PutBound leaves in the variables it assigns.
LEMMA PutBoundKeeps ==
  ASSUME RouterInv, NEW a \in Answers, NEW e \in Own(Parent(a)), PutBound(a, e),
         UNCHANGED current
  PROVE  /\ queue' \in [Turns -> Seq(AgentEvents)] /\ QueuesOwn'
         /\ bound' \in Answers \union {NoAnswer} /\ BoundToCurrent'
         /\ early' \in [Answers -> Seq(AgentEvents)] /\ EarlyOwn'
<1>a. Parent(a) \in Turns /\ a # NoAnswer
  BY AnswersHaveParents
<1>b. early[a] \in Seq(Own(Parent(a)))
  BY DEF RouterInv, EarlyOwn
<1>c. Append(early[a], e) \in Seq(Own(Parent(a))) /\ <<e>> \in Seq(Own(Parent(a)))
  BY <1>b
<1>1. CASE IsBound(a)
  <2>1. current = Parent(a)
    BY <1>1, <1>a DEF IsBound, RouterInv, BoundToCurrent
  <2>2. Put(current, <<e>>) /\ UNCHANGED <<bound, early>>
    BY <1>1 DEF PutBound, Binds, IsBound
  <2>3. queue' \in [Turns -> Seq(AgentEvents)] /\ QueuesOwn'
    BY <2>1, <2>2, <1>a, <1>c, PutKeepsQueues
  <2> QED BY <2>2, <2>3 DEF RouterInv, RouterTypeOK, EarlyOwn, BoundToCurrent
<1>2. CASE Binds(a)
  <2>1. current = Parent(a)
    BY <1>2 DEF Binds
  <2>2. /\ Put(current, Append(early[a], e))
        /\ bound' = a /\ early' = [early EXCEPT ![a] = <<>>]
    BY <1>2 DEF PutBound, Binds, IsBound
  <2>3. queue' \in [Turns -> Seq(AgentEvents)] /\ QueuesOwn'
    BY <2>1, <2>2, <1>a, <1>c, PutKeepsQueues
  <2>4. early' \in [Answers -> Seq(AgentEvents)] /\ EarlyOwn'
    BY <2>2 DEF RouterInv, RouterTypeOK, EarlyOwn
  <2> QED BY <2>1, <2>2, <2>3, <2>4 DEF BoundToCurrent
<1>3. CASE ~IsBound(a) /\ ~Binds(a)
  <2>1. early' = [early EXCEPT ![a] = Append(early[a], e)] /\ UNCHANGED <<queue, bound>>
    BY <1>3 DEF PutBound
  <2>2. Append(early[a], e) \in Seq(AgentEvents)
    BY <1>c, SeqMonotone DEF Own
  <2>3. early' \in [Answers -> Seq(AgentEvents)] /\ EarlyOwn'
    BY <2>1, <2>2, <1>c DEF RouterInv, RouterTypeOK, EarlyOwn
  <2> QED BY <2>1, <2>3 DEF RouterInv, RouterTypeOK, QueuesOwn, BoundToCurrent
<1> QED BY <1>1, <1>2, <1>3

\* register gives the turn an empty queue and binds no answer.
LEMMA RegisterKeeps ==
  ASSUME RouterInv, NEW t \in Turns, register(t), UNCHANGED <<known, users, early, seen, conflicts>>
  PROVE  RouterInv'
<1>1. <<>> \in Seq(AgentEvents) /\ <<>> \in Seq(Own(t))
  OBVIOUS
<1>2. RouterTypeOK'
  BY <1>1 DEF RouterInv, RouterTypeOK, register
<1>3. QueuesOwn'
  BY <1>1 DEF RouterInv, RouterTypeOK, register, QueuesOwn
<1>4. EarlyOwn' /\ BoundToCurrent'
  BY DEF RouterInv, register, EarlyOwn, BoundToCurrent
<1> QED BY <1>2, <1>3, <1>4 DEF RouterInv

\* unregister binds nothing, and a queue may lose its first event meanwhile.
LEMMA UnregisterKeeps ==
  ASSUME RouterInv, NEW t \in Turns, unregister(t), UNCHANGED <<known, users, early, seen, conflicts>>,
         queue' \in [Turns -> Seq(AgentEvents)] /\ QueuesOwn'
  PROVE  RouterInv'
<1>1. RouterTypeOK'
  BY DEF RouterInv, RouterTypeOK, unregister
<1>2. EarlyOwn' /\ BoundToCurrent'
  BY DEF RouterInv, unregister, EarlyOwn, BoundToCurrent, NoAnswer
<1> QED BY <1>1, <1>2 DEF RouterInv

\* A consumer takes the first event of its queue.
LEMMA TakeKeepsQueues ==
  ASSUME RouterInv, NEW t \in Turns, queue[t] # <<>>, queue' = [queue EXCEPT ![t] = Tail(@)]
  PROVE  /\ queue' \in [Turns -> Seq(AgentEvents)] /\ QueuesOwn'
         /\ Head(queue[t]) \in AgentEvents
<1>1. queue[t] \in Seq(Own(t))
  BY DEF RouterInv, QueuesOwn
<1>2. Tail(queue[t]) \in Seq(Own(t)) /\ Head(queue[t]) \in Own(t)
  BY <1>1, HeadTailProperties
<1>3. Tail(queue[t]) \in Seq(AgentEvents) /\ Head(queue[t]) \in AgentEvents
  BY <1>2, SeqMonotone DEF Own
<1> QED BY <1>2, <1>3 DEF RouterInv, RouterTypeOK, QueuesOwn

\* An event about message m is one the turn of m may be given, and an event that
\* is neither text nor a request is one any turn may be given.
LEMMA EventIsOwn ==
  ASSUME NEW m \in Answers \union Prompts, NEW txt \in Texts,
         NEW kind \in {"text", "approval", "completed", "failed"}
  PROVE  /\ Event(kind, m, txt) \in Own(Parent(m))
         /\ kind \in {"completed", "failed"} => \A t \in Turns : Event(kind, m, txt) \in Own(t)
<1>1. Event(kind, m, txt) \in AgentEvents /\ Event(kind, m, txt).kind = kind
      /\ Event(kind, m, txt).of = m
  BY DEF Event, AgentEvents
<1> QED BY <1>1 DEF Own

\* Texts are closed under concatenation and taking a suffix.
LEMMA TextsClosed ==
  ASSUME NEW s \in Texts, NEW u \in Texts
  PROVE  s \o u \in Texts /\ After(s, u) \in Texts /\ <<>> \in Texts
<1>1. s \o u \in Texts /\ <<>> \in Texts
  BY ConcatProperties DEF Texts
<1>2. Len(s) \in Nat /\ Len(u) \in Nat
  BY DEF Texts
<1>3. \A i \in Len(s) + 1 .. Len(u) : u[i] \in 0 .. MaxChunks
  <2>1. Len(s) + 1 .. Len(u) \subseteq 1 .. Len(u)
    BY <1>2
  <2>2. \A i \in 1 .. Len(u) : u[i] \in 0 .. MaxChunks
    BY ElementOfSeq DEF Texts
  <2> QED BY <2>1, <2>2
<1>4. SubSeq(u, Len(s) + 1, Len(u)) \in Seq(0 .. MaxChunks)
  <2> HIDE DEF Texts
  <2>1. Len(s) + 1 \in Int /\ Len(u) \in Int
    BY <1>2
  <2> QED BY <1>3, <2>1, SubSeqProperties, Zenon
<1> QED BY <1>1, <1>4 DEF Texts, After

\* What the events on the wire are about, by their kinds.
LEMMA RawEventKinds ==
  ASSUME NEW e \in RawEvents
  PROVE  /\ e.text \in Texts /\ e.of \in Answers \union Prompts
         /\ e.kind \in {"userInfo", "userPart", "idle", "error"} => e.of \in Prompts
         /\ e.kind \in {"info", "delta", "updated", "asked", "question"} => e.of \in Answers
BY DEF RawEvents

\* A prompt is a message of its turn.
LEMMA PromptsHaveParents ==
  ASSUME NEW p \in Prompts
  PROVE  Parent(p) \in Turns /\ p = Prompt(Parent(p))
BY DEF Prompts, Prompt, Parent

\* However an event is handled, the queues stay clean.
LEMMA HandleKeeps ==
  ASSUME RouterInv, NEW e \in RawEvents, handle_event(e), UNCHANGED <<registered, current>>
  PROVE  RouterInv'
<1>0. /\ e.text \in Texts /\ e.of \in Answers \union Prompts
      /\ e.kind \in {"userInfo", "userPart", "idle", "error"} => e.of \in Prompts
      /\ e.kind \in {"info", "delta", "updated", "asked", "question"} => e.of \in Answers
  BY RawEventKinds
<1>e. <<>> \in Texts
  BY DEF Texts
<1>1. CASE e.kind = "userInfo" /\ HandleUserInfo(e)
  <2>1. Parent(e.of) \in Turns
    BY <1>0, <1>1, PromptsHaveParents
  <2> QED BY <1>1, <2>1 DEF HandleUserInfo, RouterInv, RouterTypeOK, QueuesOwn, EarlyOwn,
                            BoundToCurrent
<1>2. CASE e.kind = "userPart" /\ HandleUserPart(e)
  <2>1. queue' \in [Turns -> Seq(AgentEvents)] /\ QueuesOwn'
    <3>1. CASE UNCHANGED queue
      BY <3>1 DEF RouterInv, RouterTypeOK, QueuesOwn
    <3>2. CASE ~UNCHANGED queue
      <4>1. /\ HasActiveQueue /\ current = Parent(e.of)
            /\ Put(current, <<Event("text", e.of, e.text)>>)
        BY <1>2, <3>2 DEF HandleUserPart
      <4>2. Event("text", e.of, e.text) \in Own(current) /\ current \in Turns
        BY <1>0, <4>1, EventIsOwn, ActiveIsTurn
      <4>3. <<Event("text", e.of, e.text)>> \in Seq(Own(current))
        BY <4>2
      <4> QED BY <4>1, <4>2, <4>3, PutKeepsQueues
    <3> QED BY <3>1, <3>2
  <2> QED BY <1>2, <2>1 DEF HandleUserPart, RouterInv, RouterTypeOK, EarlyOwn, BoundToCurrent
<1>3. CASE e.kind = "info" /\ HandleInfo(e)
  <2>0. e.of \in Answers /\ e.of # NoAnswer /\ Parent(e.of) \in Turns
    BY <1>0, <1>3, AnswersHaveParents
  <2>1. CASE HasActiveQueue /\ current = Parent(e.of)
    <3>1. Put(current, early[e.of]) /\ bound' = e.of /\ early' = [early EXCEPT ![e.of] = <<>>]
      BY <1>3, <2>1 DEF HandleInfo
    <3>2. early[e.of] \in Seq(Own(current))
      BY <2>0, <2>1 DEF RouterInv, EarlyOwn
    <3>3. queue' \in [Turns -> Seq(AgentEvents)] /\ QueuesOwn'
      BY <2>0, <2>1, <3>1, <3>2, PutKeepsQueues
    <3>4. early' \in [Answers -> Seq(AgentEvents)] /\ EarlyOwn'
      BY <2>0, <3>1 DEF RouterInv, RouterTypeOK, EarlyOwn
    <3> QED BY <1>3, <2>0, <2>1, <3>1, <3>3, <3>4
            DEF HandleInfo, RouterInv, RouterTypeOK, BoundToCurrent
  <2>2. CASE ~(HasActiveQueue /\ current = Parent(e.of))
    BY <1>3, <2>0, <2>2
    DEF HandleInfo, RouterInv, RouterTypeOK, QueuesOwn, EarlyOwn, BoundToCurrent
  <2> QED BY <2>1, <2>2
<1>4. CASE e.kind = "delta" /\ HandleDelta(e)
  <2>0. e.of \in Answers
    BY <1>0, <1>4
  <2>1. Event("text", e.of, e.text) \in Own(Parent(e.of))
    BY <1>0, EventIsOwn
  <2>2. seen' \in [Answers -> Texts]
    <3>1. seen[e.of] \o e.text \in Texts
      BY <1>0, <2>0, TextsClosed DEF RouterInv, RouterTypeOK
    <3> QED BY <1>4, <3>1 DEF HandleDelta, RouterInv, RouterTypeOK
  <2> QED BY <1>4, <2>0, <2>1, <2>2, PutBoundKeeps DEF HandleDelta, RouterInv, RouterTypeOK
<1>5. CASE e.kind = "updated" /\ HandleUpdated(e)
  <2> DEFINE extends == e.of \notin conflicts /\ IsStartOf(seen[e.of], e.text)
             delta == IF extends THEN After(seen[e.of], e.text) ELSE <<>>
  <2>0. e.of \in Answers /\ seen[e.of] \in Texts
    BY <1>0, <1>5 DEF RouterInv, RouterTypeOK
  <2>1. delta \in Texts
    BY <1>0, <1>e, <2>0, TextsClosed
  <2>2. Event("text", e.of, delta) \in Own(Parent(e.of))
    BY <1>0, <2>1, EventIsOwn
  <2>3. /\ seen' = [seen EXCEPT ![e.of] = e.text]
        /\ conflicts' = IF extends THEN conflicts ELSE conflicts \union {e.of}
        /\ IF delta = <<>> THEN UNCHANGED <<queue, bound, early>>
                           ELSE PutBound(e.of, Event("text", e.of, delta))
        /\ UNCHANGED <<known, users>>
    BY <1>5 DEF HandleUpdated
  <2>4. seen' \in [Answers -> Texts] /\ conflicts' \subseteq Answers
    BY <1>0, <2>0, <2>3 DEF RouterInv, RouterTypeOK
  <2> HIDE DEF extends, delta
  <2>5. CASE delta = <<>>
    BY <2>3, <2>4, <2>5 DEF RouterInv, RouterTypeOK, QueuesOwn, EarlyOwn, BoundToCurrent
  <2>6. CASE delta # <<>>
    BY <2>0, <2>2, <2>3, <2>4, <2>6, PutBoundKeeps DEF RouterInv, RouterTypeOK
  <2> QED BY <2>5, <2>6
<1>6. CASE e.kind = "asked" /\ HandleAsked(e)
  <2>1. e.of \in Answers /\ Event("approval", e.of, <<>>) \in Own(Parent(e.of))
    BY <1>0, <1>e, <1>6, EventIsOwn
  <2>2. CASE UNCHANGED <<queue, bound, early>>
    BY <1>6, <2>2 DEF HandleAsked, RouterInv, RouterTypeOK, QueuesOwn, EarlyOwn, BoundToCurrent
  <2>3. CASE ~UNCHANGED <<queue, bound, early>>
    BY <1>6, <2>1, <2>3, PutBoundKeeps DEF HandleAsked, RouterInv, RouterTypeOK
  <2> QED BY <2>2, <2>3
<1>7. CASE e.kind = "question" /\ HandleQuestion(e)
  <2>1. e.of \in Answers /\ Event("failed", e.of, <<>>) \in Own(Parent(e.of))
    BY <1>0, <1>e, <1>7, EventIsOwn
  <2>2. CASE UNCHANGED <<queue, bound, early>>
    BY <1>7, <2>2 DEF HandleQuestion, RouterInv, RouterTypeOK, QueuesOwn, EarlyOwn, BoundToCurrent
  <2>3. CASE ~UNCHANGED <<queue, bound, early>>
    BY <1>7, <2>1, <2>3, PutBoundKeeps DEF HandleQuestion, RouterInv, RouterTypeOK
  <2> QED BY <2>2, <2>3
<1>8. CASE e.kind \in {"idle", "error"} /\ HandleEnd(e)
  <2> DEFINE end == Event(IF e.kind = "idle" THEN "completed" ELSE "failed", e.of, <<>>)
  <2>1. \A t \in Turns : end \in Own(t)
    BY <1>0, <1>e, EventIsOwn
  <2>2. queue' \in [Turns -> Seq(AgentEvents)] /\ QueuesOwn'
    <3>1. CASE HasActiveQueue
      <4>1. Put(current, <<end>>)
        BY <1>8, <3>1 DEF HandleEnd, PutActive
      <4>2. current \in Turns
        BY <3>1, ActiveIsTurn
      <4> HIDE DEF end
      <4>3. <<end>> \in Seq(Own(current))
        BY <2>1, <4>2
      <4> QED BY <4>1, <4>2, <4>3, PutKeepsQueues
    <3>2. CASE ~HasActiveQueue
      BY <1>8, <3>2 DEF HandleEnd, PutActive, RouterInv, RouterTypeOK, QueuesOwn
    <3> QED BY <3>1, <3>2
  <2> QED BY <1>8, <2>2 DEF HandleEnd, PutActive, RouterInv, RouterTypeOK, EarlyOwn, BoundToCurrent
<1> QED BY <1>1, <1>2, <1>3, <1>4, <1>5, <1>6, <1>7, <1>8 DEF handle_event

-----------------------------------------------------------------------------
(* Steps of the event stream, the turns and the server.                    *)

Inv == RouterInv /\ TurnsTypeOK /\ StreamTypeOK /\ ServerTypeOK

\* The router's part of the invariant depends on the router's variables only.
LEMMA RouterUnchanged ==
  ASSUME RouterInv, UNCHANGED routerVars
  PROVE  RouterInv'
BY DEF RouterInv, RouterTypeOK, QueuesOwn, EarlyOwn, BoundToCurrent, routerVars

\* Initially there are no events.
LEMMA InitKeeps ==
  ASSUME Init
  PROVE  Inv
<1>1. RouterTypeOK
  BY DEF Init, RouterTypeOK, Texts
<1>2. QueuesOwn /\ EarlyOwn /\ BoundToCurrent
  BY DEF Init, QueuesOwn, EarlyOwn, BoundToCurrent
<1>3. TurnsTypeOK
  BY DEF Init, TurnsTypeOK, Texts, Statuses, NoReply
<1>4. StreamTypeOK
  <2>1. MaxOccurs \in Nat
    BY OpenCodeAssumption
  <2>2. /\ stream \in {"up"} \union
                       (IF "late" \in Occurs /\ MaxOccurs > 0 THEN {"connecting"} ELSE {})
        /\ happened = IF stream = "up" THEN 0 ELSE 1
        /\ wire = <<>> /\ missed = {} /\ interrupted = {}
    BY DEF Init
  <2>3. stream = "up" \/ (stream = "connecting" /\ MaxOccurs > 0)
    BY <2>2
  <2>4. happened \in 0 .. MaxOccurs
    <3>1. CASE stream = "up"
      BY <2>1, <2>2, <3>1
    <3>2. CASE stream = "connecting" /\ MaxOccurs > 0
      BY <2>1, <2>2, <3>2
    <3> QED BY <2>3, <3>1, <3>2
  <2>5. <<>> \in Seq(RawEvents)
    OBVIOUS
  <2> QED BY <2>2, <2>3, <2>4, <2>5 DEF StreamTypeOK
<1>5. ServerTypeOK
  <2>1. 0 \in 0 .. MaxAnswers /\ 0 \in 0 .. MaxChunks
    BY OpenCodeAssumption
  <2>2. /\ <<>> \in Seq(Turns) /\ <<>> \in Texts
        /\ FALSE \in BOOLEAN
    BY DEF Texts
  <2>3. [a \in Answers |-> <<>>] \in [Answers -> Texts]
    BY <2>2
  <2>4. /\ [t \in Turns |-> 0] \in [Turns -> 0 .. MaxAnswers]
        /\ [t \in Turns |-> 0] \in [Turns -> 0 .. MaxChunks]
        /\ [t \in Turns |-> "none"] \in [Turns -> {"none", "waiting", "answered"}]
    BY <2>1
  <2>5. /\ todo = <<>> /\ answered = [t \in Turns |-> 0]
        /\ text = [a \in Answers |-> <<>>] /\ written = [t \in Turns |-> 0]
        /\ request = [t \in Turns |-> "none"] /\ ended = {} /\ aborting = FALSE
    BY DEF Init
  <2> QED BY <2>2, <2>3, <2>4, <2>5 DEF ServerTypeOK
<1> QED BY <1>1, <1>2, <1>3, <1>4, <1>5 DEF Inv, RouterInv

\* The listener handles the first event of the stream.
LEMMA ListenKeeps ==
  ASSUME Inv, Listen
  PROVE  Inv'
<1>1. Head(wire) \in RawEvents /\ Tail(wire) \in Seq(RawEvents)
  BY HeadTailProperties DEF Inv, StreamTypeOK, Listen
<1>2. RouterInv'
  BY <1>1, HandleKeeps DEF Inv, Listen
<1>3. StreamTypeOK'
  BY <1>1 DEF Inv, StreamTypeOK, Listen, history
<1>4. TurnsTypeOK' /\ ServerTypeOK'
  BY DEF Inv, TurnsTypeOK, ServerTypeOK, Listen, turnVars, serverVars
<1> QED BY <1>2, <1>3, <1>4 DEF Inv

\* An interruption puts a failure into the queue of every registered turn.
LEMMA DisconnectKeeps ==
  ASSUME Inv, Disconnect
  PROVE  Inv'
<1>1. \A t \in Turns : Event("failed", Prompt(t), <<>>) \in Own(t)
                       /\ Event("failed", Prompt(t), <<>>) \in AgentEvents
  <2> TAKE t \in Turns
  <2>1. Prompt(t) \in Prompts /\ <<>> \in Texts
    BY DEF Prompts, Texts
  <2>2. Event("failed", Prompt(t), <<>>) \in Own(t)
    BY <2>1, EventIsOwn
  <2> QED BY <2>2 DEF Own
<1>2. queue \in [Turns -> Seq(AgentEvents)] /\ \A t \in Turns : queue[t] \in Seq(Own(t))
  BY DEF Inv, RouterInv, RouterTypeOK, QueuesOwn
<1>3. queue' = [t \in Turns |-> IF t \in registered
                                  THEN Append(queue[t], Event("failed", Prompt(t), <<>>))
                                  ELSE queue[t]]
  BY DEF Disconnect
<1>4. queue' \in [Turns -> Seq(AgentEvents)] /\ QueuesOwn'
  <2>1. \A t \in Turns :
          /\ Append(queue[t], Event("failed", Prompt(t), <<>>)) \in Seq(AgentEvents)
          /\ Append(queue[t], Event("failed", Prompt(t), <<>>)) \in Seq(Own(t))
    BY <1>1, <1>2, AppendProperties
  <2> QED BY <1>2, <1>3, <2>1 DEF QueuesOwn
<1>5. RouterInv'
  BY <1>4 DEF Inv, RouterInv, RouterTypeOK, EarlyOwn, BoundToCurrent, Disconnect
<1>6. StreamTypeOK'
  BY OpenCodeAssumption DEF Inv, StreamTypeOK, RouterInv, RouterTypeOK, Disconnect
<1>7. TurnsTypeOK' /\ ServerTypeOK'
  BY DEF Inv, TurnsTypeOK, ServerTypeOK, Disconnect, turnVars, serverVars
<1> QED BY <1>5, <1>6, <1>7 DEF Inv

\* Whatever the server sends is on the wire or missed.
LEMMA SendKeeps ==
  ASSUME Inv, NEW t \in Turns, NEW events \in Seq(RawEvents), Send(t, events),
         happened' \in 0 .. MaxOccurs
  PROVE  StreamTypeOK'
<1>1. wire \o events \in Seq(RawEvents)
  BY ConcatProperties DEF Inv, StreamTypeOK
<1> QED BY <1>1 DEF Send, Inv, StreamTypeOK

\* The events the server sends are raw events.
LEMMA SentEvents ==
  /\ \A p \in Prompts, kind \in {"userInfo", "userPart", "idle", "error"}, txt \in Texts :
       Event(kind, p, txt) \in RawEvents
  /\ \A a \in Answers, kind \in {"info", "delta", "updated", "asked", "question"}, txt \in Texts :
       Event(kind, a, txt) \in RawEvents
BY DEF Event, RawEvents

\* What the server sends when the session stops working is typed and counted.
LEMMA EndingKeeps ==
  ASSUME Inv, NEW t \in Turns, NEW last \in Seq(RawEvents), SendEnding(t, last)
  PROVE  StreamTypeOK'
<1> DEFINE idle == Event("idle", Prompt(t), <<>>)
           error == Event("error", Prompt(t), <<>>)
<1>1. PICK ending \in Endings(t) :
        Send(t, last \o ending) /\ happened' = happened + Len(ending) - 1
  BY DEF SendEnding
<1>2. idle \in RawEvents /\ error \in RawEvents
  <2>1. Prompt(t) \in Prompts /\ <<>> \in Texts
    BY DEF Prompts, Texts
  <2> QED BY <2>1, SentEvents
<1>3. \/ ending \in {<<idle>>, <<error>>}
      \/ ending \in {<<idle, idle>>, <<error, idle>>} /\ happened < MaxOccurs
  BY DEF Endings
<1> HIDE DEF idle, error
<1>4. /\ ending \in Seq(RawEvents) /\ Len(ending) \in {1, 2}
      /\ Len(ending) = 2 => happened < MaxOccurs
  <2>1. \A e \in {idle, error} : <<e>> \in Seq(RawEvents) /\ Len(<<e>>) = 1
    BY <1>2
  <2>2. \A e \in {idle, error} : <<e, idle>> \in Seq(RawEvents) /\ Len(<<e, idle>>) = 2
    BY <1>2
  <2>3. CASE ending \in {<<idle>>, <<error>>}
    <3>1. PICK e \in {idle, error} : ending = <<e>>
      BY <2>3
    <3> QED BY <2>1, <3>1
  <2>4. CASE ending \in {<<idle, idle>>, <<error, idle>>} /\ happened < MaxOccurs
    <3>1. PICK e \in {idle, error} : ending = <<e, idle>>
      BY <2>4
    <3> QED BY <2>2, <2>4, <3>1
  <2> QED BY <1>3, <2>3, <2>4
<1>5. happened \in 0 .. MaxOccurs /\ MaxOccurs \in Nat
  BY OpenCodeAssumption DEF Inv, StreamTypeOK
<1>6. happened' \in 0 .. MaxOccurs
  <2>1. CASE Len(ending) = 1
    BY <1>1, <1>5, <2>1
  <2>2. CASE Len(ending) = 2
    BY <1>1, <1>4, <1>5, <2>2
  <2> QED BY <1>4, <2>1, <2>2
<1>7. last \o ending \in Seq(RawEvents)
  BY <1>4, ConcatProperties
<1> QED BY <1>1, <1>6, <1>7, SendKeeps

\* Every step of the server keeps the types.
LEMMA ServerKeeps ==
  ASSUME Inv, NEW t \in Turns, ServerNext(t)
  PROVE  Inv'
<1>0. /\ Prompt(t) \in Prompts /\ <<>> \in Texts /\ <<0>> \in Texts
      /\ answered[t] \in 0 .. MaxAnswers /\ answered[t] \in Nat /\ MaxAnswers \in Nat
      /\ written[t] \in 0 .. MaxChunks /\ written[t] \in Nat /\ MaxChunks \in Nat
      /\ happened \in 0 .. MaxOccurs /\ MaxOccurs \in Nat
  <2>1. Prompt(t) \in Prompts
    BY DEF Prompts
  <2>2. 0 \in 0 .. MaxChunks /\ MaxAnswers \in Nat /\ MaxChunks \in Nat /\ MaxOccurs \in Nat
    BY OpenCodeAssumption
  <2>3. <<>> \in Texts /\ <<0>> \in Texts
    BY <2>2 DEF Texts
  <2>4. answered[t] \in 0 .. MaxAnswers /\ written[t] \in 0 .. MaxChunks /\ happened \in 0 .. MaxOccurs
    BY DEF Inv, ServerTypeOK, StreamTypeOK
  <2>5. answered[t] \in Nat /\ written[t] \in Nat
    BY <2>2, <2>4
  <2> QED BY <2>1, <2>2, <2>3, <2>4, <2>5
<1>r. UNCHANGED routerVars => RouterInv'
  BY RouterUnchanged DEF Inv
<1>s. UNCHANGED turnVars => TurnsTypeOK'
  BY DEF Inv, TurnsTypeOK, turnVars
<1>l. answered[t] > 0 => LastAnswer(t) \in Answers
  BY <1>0 DEF LastAnswer, Answers
<1>1. CASE ServerAccepts(t)
  <2>1. <<Event("userInfo", Prompt(t), <<>>), Event("userPart", Prompt(t), <<0>>)>> \in Seq(RawEvents)
    <3>1. Event("userInfo", Prompt(t), <<>>) \in RawEvents /\ Event("userPart", Prompt(t), <<0>>) \in RawEvents
      BY <1>0, SentEvents
    <3> QED BY <3>1
  <2>2. StreamTypeOK'
    BY <1>0, <1>1, <2>1, SendKeeps DEF ServerAccepts
  <2>3. ServerTypeOK'
    BY <1>1 DEF ServerAccepts, Inv, ServerTypeOK
  <2> QED BY <1>1, <1>r, <1>s, <2>2, <2>3 DEF ServerAccepts, Inv
<1>2. CASE ServerBegins(t)
  <2>1. <<t, answered[t] + 1>> \in Answers /\ answered[t] + 1 \in 0 .. MaxAnswers
    BY <1>0, <1>2 DEF ServerBegins, Answers
  <2>2. <<Event("info", <<t, answered[t] + 1>>, <<>>)>> \in Seq(RawEvents)
    <3>1. Event("info", <<t, answered[t] + 1>>, <<>>) \in RawEvents
      BY <1>0, <2>1, SentEvents
    <3> QED BY <3>1
  <2>3. StreamTypeOK'
    BY <1>0, <1>2, <2>2, SendKeeps DEF ServerBegins
  <2>4. ServerTypeOK'
    BY <1>2, <2>1 DEF ServerBegins, Inv, ServerTypeOK
  <2> QED BY <1>2, <1>r, <1>s, <2>3, <2>4 DEF ServerBegins, Inv
<1>3. CASE ServerWrites(t)
  <2> DEFINE a == LastAnswer(t)
             chunk == written[t] + 1
  <2>1. a \in Answers /\ chunk \in 0 .. MaxChunks
    BY <1>0, <1>3, <1>l DEF ServerWrites
  <2>2. <<chunk>> \in Texts /\ Append(text[a], chunk) \in Texts
    <3>1. text[a] \in Seq(0 .. MaxChunks)
      BY <2>1 DEF Inv, ServerTypeOK, Texts
    <3> HIDE DEF chunk
    <3> QED BY <2>1, <3>1 DEF Texts
  <2>3. PICK e \in {Event("delta", a, <<chunk>>), Event("updated", a, Append(text[a], chunk))} :
          Send(t, <<e>>)
    BY <1>3 DEF ServerWrites
  <2>4. <<e>> \in Seq(RawEvents)
    <3>1. e \in RawEvents
      BY <2>1, <2>2, SentEvents
    <3> QED BY <3>1
  <2>5. happened' \in 0 .. MaxOccurs
    BY <1>0, <1>3 DEF ServerWrites
  <2>6. StreamTypeOK'
    BY <2>3, <2>4, <2>5, SendKeeps
  <2>7. ServerTypeOK'
    BY <1>3, <2>1, <2>2 DEF ServerWrites, Inv, ServerTypeOK
  <2> QED BY <1>3, <1>r, <1>s, <2>6, <2>7 DEF ServerWrites, Inv
<1>4. ASSUME NEW what \in {"asked", "question"}, ServerAsks(t, what)
      PROVE  Inv'
  <2>1. LastAnswer(t) \in Answers
    BY <1>4, <1>l DEF ServerAsks
  <2>2. <<Event(what, LastAnswer(t), <<>>)>> \in Seq(RawEvents)
    <3>1. Event(what, LastAnswer(t), <<>>) \in RawEvents
      BY <1>0, <2>1, SentEvents
    <3> QED BY <3>1
  <2>3. happened' \in 0 .. MaxOccurs
    BY <1>0, <1>4 DEF ServerAsks
  <2>4. StreamTypeOK'
    BY <1>4, <2>2, <2>3, SendKeeps DEF ServerAsks
  <2>5. ServerTypeOK'
    BY <1>4 DEF ServerAsks, Inv, ServerTypeOK
  <2> QED BY <1>4, <1>r, <1>s, <2>4, <2>5 DEF ServerAsks, Inv
<1>5. CASE ServerEnds(t)
  <2>1. LastAnswer(t) \in Answers /\ text[LastAnswer(t)] \in Texts
    BY <1>5, <1>l DEF ServerEnds, Inv, ServerTypeOK
  <2>2. <<Event("updated", LastAnswer(t), text[LastAnswer(t)]), Event("info", LastAnswer(t), <<>>)>>
          \in Seq(RawEvents)
    <3>1. /\ Event("updated", LastAnswer(t), text[LastAnswer(t)]) \in RawEvents
          /\ Event("info", LastAnswer(t), <<>>) \in RawEvents
      BY <1>0, <2>1, SentEvents
    <3> QED BY <3>1
  <2>3. StreamTypeOK'
    BY <1>5, <2>2, EndingKeeps DEF ServerEnds
  <2>4. ServerTypeOK'
    <3>1. Tail(todo) \in Seq(Turns)
      BY <1>5 DEF ServerEnds, WorksOn, Inv, ServerTypeOK
    <3> QED BY <1>5, <3>1 DEF ServerEnds, Inv, ServerTypeOK
  <2> QED BY <1>5, <1>r, <1>s, <2>3, <2>4 DEF ServerEnds, Inv
<1> QED BY <1>1, <1>2, <1>3, <1>4, <1>5 DEF ServerNext

\* abort_session ends the turn the server works on.
LEMMA AbortKeeps ==
  ASSUME Inv, ServerAborts
  PROVE  Inv'
<1>1. RouterInv' /\ TurnsTypeOK'
  BY RouterUnchanged DEF ServerAborts, Inv, TurnsTypeOK, turnVars
<1>2. CASE todo = <<>>
  BY <1>1, <1>2 DEF ServerAborts, Inv, ServerTypeOK, StreamTypeOK, streamVars, history
<1>3. CASE todo # <<>>
  <2>1. Head(todo) \in Turns /\ Tail(todo) \in Seq(Turns)
    BY <1>3, HeadTailProperties DEF Inv, ServerTypeOK
  <2>2. <<>> \in Seq(RawEvents)
    OBVIOUS
  <2>3. SendEnding(Head(todo), <<>>)
    BY <1>3 DEF ServerAborts
  <2>4. StreamTypeOK'
    BY <2>1, <2>2, <2>3, EndingKeeps
  <2>5. ServerTypeOK'
    BY <1>3, <2>1 DEF ServerAborts, Inv, ServerTypeOK
  <2> QED BY <1>1, <2>4, <2>5 DEF Inv
<1> QED BY <1>2, <1>3

\* Occurrences are counted up to their bound.
LEMMA OccurKeeps ==
  ASSUME Inv, NEW what, Occur(what), UNCHANGED streamVars
  PROVE  StreamTypeOK'
<1>1. happened \in 0 .. MaxOccurs /\ MaxOccurs \in Nat /\ happened' = happened + 1
      /\ happened < MaxOccurs
  BY OpenCodeAssumption DEF Inv, StreamTypeOK, Occur
<1>2. happened' \in 0 .. MaxOccurs
  BY <1>1
<1> QED BY <1>2 DEF Inv, StreamTypeOK, Occur, streamVars

\* Every step of a turn keeps the types and the queues.
LEMMA TurnKeeps ==
  ASSUME Inv, NEW t \in Turns, TurnNext(t)
  PROVE  Inv'
<1>r. UNCHANGED routerVars => RouterInv'
  BY RouterUnchanged DEF Inv
<1>s. UNCHANGED <<streamVars, history>> => StreamTypeOK'
  BY DEF Inv, StreamTypeOK, streamVars, history
<1>v. UNCHANGED serverVars => ServerTypeOK'
  BY DEF Inv, ServerTypeOK, serverVars
<1>q. queue \in [Turns -> Seq(AgentEvents)] /\ QueuesOwn
  BY DEF Inv, RouterInv, RouterTypeOK
<1>p. NoReply \in [state : {"none", "unanswered", "answered"}, text : Texts, final : BOOLEAN]
  BY DEF NoReply, Texts
<1>1. CASE StartTurn(t)
  <2>1. RouterInv'
    BY <1>1, RegisterKeeps DEF StartTurn, Inv
  <2>2. TurnsTypeOK'
    BY <1>1 DEF StartTurn, Inv, TurnsTypeOK, Statuses, Live
  <2> QED BY <1>1, <1>s, <1>v, <2>1, <2>2 DEF StartTurn, Inv
<1>2. CASE PromptReturns(t)
  <2>1. TurnsTypeOK'
    BY <1>2 DEF PromptReturns, Inv, TurnsTypeOK, Statuses, Live, Reading
  <2> QED BY <1>2, <1>r, <1>s, <1>v, <2>1 DEF PromptReturns, Inv
<1>3. CASE PromptRefused(t)
  <2>1. TurnsTypeOK'
    BY <1>3 DEF PromptRefused, Inv, TurnsTypeOK, Statuses
  <2>2. queue' \in [Turns -> Seq(AgentEvents)] /\ QueuesOwn'
    BY <1>3, <1>q DEF PromptRefused, QueuesOwn
  <2>3. RouterInv'
    BY <1>3, <2>2, UnregisterKeeps DEF PromptRefused, Inv
  <2>4. StreamTypeOK'
    BY <1>3, OccurKeeps DEF PromptRefused
  <2> QED BY <1>3, <1>v, <2>1, <2>3, <2>4 DEF PromptRefused, Inv
<1>4. CASE PromptLost(t)
  <2>1. TurnsTypeOK'
    BY <1>4 DEF PromptLost, Inv, TurnsTypeOK, Statuses
  <2>2. StreamTypeOK'
    BY <1>4, OccurKeeps DEF PromptLost
  <2> QED BY <1>4, <1>r, <1>v, <2>1, <2>2 DEF PromptLost, Inv
<1>5. CASE TakeEvent(t)
  <2>1. /\ queue' \in [Turns -> Seq(AgentEvents)] /\ QueuesOwn'
        /\ Head(queue[t]) \in AgentEvents
    BY <1>5, TakeKeepsQueues DEF TakeEvent, Inv
  <2>2. RouterInv'
    BY <1>5, <2>1 DEF TakeEvent, Inv, RouterInv, RouterTypeOK, EarlyOwn, BoundToCurrent
  <2>3. TurnsTypeOK'
    <3>1. said[t] \o Head(queue[t]).text \in Texts
      <4>1. Head(queue[t]).text \in Texts
        BY <2>1 DEF AgentEvents
      <4> QED BY <4>1, TextsClosed DEF Inv, TurnsTypeOK
    <3>2. AfterYield(t, Head(queue[t])) \in Statuses
      BY DEF AfterYield, Statuses, Live, Reading
    <3> QED BY <1>5, <3>1, <3>2 DEF TakeEvent, Inv, TurnsTypeOK
  <2> QED BY <1>5, <1>s, <1>v, <2>2, <2>3 DEF TakeEvent, Inv
<1>6. CASE TakeFailed(t)
  <2>1. queue' \in [Turns -> Seq(AgentEvents)] /\ QueuesOwn'
    BY <1>6, TakeKeepsQueues DEF TakeFailed, Inv
  <2>2. RouterInv'
    BY <1>6, <2>1, UnregisterKeeps DEF TakeFailed, Inv
  <2>3. TurnsTypeOK'
    BY <1>6 DEF TakeFailed, Inv, TurnsTypeOK, Statuses
  <2> QED BY <1>6, <1>s, <1>v, <2>2, <2>3 DEF TakeFailed, Inv
<1>7. CASE TakeCompleted(t)
  <2>1. queue' \in [Turns -> Seq(AgentEvents)] /\ QueuesOwn'
    BY <1>7, TakeKeepsQueues DEF TakeCompleted, Inv
  <2>2. RouterInv'
    BY <1>7, <2>1 DEF TakeCompleted, Inv, RouterInv, RouterTypeOK, EarlyOwn, BoundToCurrent
  <2>3. TurnsTypeOK'
    BY <1>7 DEF TakeCompleted, Inv, TurnsTypeOK, Statuses, Live, Reading
  <2> QED BY <1>7, <1>s, <1>v, <2>2, <2>3 DEF TakeCompleted, Inv
<1>8. CASE MessagesReturn(t)
  <2>1. queue' \in [Turns -> Seq(AgentEvents)] /\ QueuesOwn'
    BY <1>8, <1>q DEF MessagesReturn, QueuesOwn
  <2>2. RouterInv'
    <3>1. CASE unregister(t)
      BY <1>8, <2>1, <3>1, UnregisterKeeps DEF MessagesReturn, Inv
    <3>2. CASE UNCHANGED <<registered, current, bound>>
      BY <1>8, <3>2, <1>r DEF MessagesReturn, routerVars
    <3> QED BY <1>8, <3>1, <3>2 DEF MessagesReturn
  <2>3. said[t] \o Backfill(t) \in Texts
    <3>1. said[t] \in Texts /\ reply[t].text \in Texts
      BY DEF Inv, TurnsTypeOK
    <3>2. Backfill(t) \in Texts
      BY <3>1, TextsClosed DEF Backfill
    <3> QED BY <3>1, <3>2, TextsClosed
  <2>4. TurnsTypeOK'
    <3>1. saw' \in [Turns -> BOOLEAN] /\ said' \in [Turns -> Texts]
      BY <1>8, <2>3 DEF MessagesReturn, Inv, TurnsTypeOK
    <3>2. status' \in [Turns -> Statuses]
          /\ result' \in [Turns -> {"none", "completed", "failed"}]
      BY <1>8 DEF MessagesReturn, Inv, TurnsTypeOK, Statuses, Live, Reading
    <3>3. reply' \in [Turns -> [state : {"none", "unanswered", "answered"}, text : Texts, final : BOOLEAN]]
      BY <1>8, <1>p DEF MessagesReturn, Inv, TurnsTypeOK
    <3> QED BY <1>8, <3>1, <3>2, <3>3 DEF MessagesReturn, Inv, TurnsTypeOK
  <2> QED BY <1>8, <1>s, <1>v, <2>2, <2>4 DEF MessagesReturn, Inv
<1>13. CASE MessagesRead(t)
  <2> DEFINE r == IF answered[t] > 0
                    THEN [state |-> "answered", text |-> text[<<t, 1>>], final |-> t \in ended]
                    ELSE [state |-> "unanswered", text |-> <<>>, final |-> t \in ended]
  <2>1. r \in [state : {"none", "unanswered", "answered"}, text : Texts, final : BOOLEAN]
    <3>1. CASE answered[t] > 0
      <4>1. answered[t] \in 0 .. MaxAnswers /\ MaxAnswers \in Nat
        BY OpenCodeAssumption DEF Inv, ServerTypeOK
      <4>2. <<t, 1>> \in Answers
        BY <3>1, <4>1 DEF Answers
      <4>3. text[<<t, 1>>] \in Texts
        BY <4>2 DEF Inv, ServerTypeOK
      <4> QED BY <3>1, <4>3
    <3>2. CASE ~(answered[t] > 0)
      <4>1. <<>> \in Texts
        BY DEF Texts
      <4> QED BY <3>2, <4>1
    <3> QED BY <3>1, <3>2
  <2>2. reply' = [reply EXCEPT ![t] = r]
    BY <1>13 DEF MessagesRead
  <2> HIDE DEF r
  <2>3. TurnsTypeOK'
    BY <1>13, <2>1, <2>2 DEF MessagesRead, Inv, TurnsTypeOK
  <2> QED BY <1>13, <1>r, <1>s, <1>v, <2>3 DEF MessagesRead, Inv
<1>9. CASE MessagesRaise(t)
  <2>1. TurnsTypeOK'
    BY <1>9, <1>p DEF MessagesRaise, Inv, TurnsTypeOK, Statuses
  <2>2. StreamTypeOK'
    BY <1>9, OccurKeeps DEF MessagesRaise
  <2> QED BY <1>9, <1>r, <1>v, <2>1, <2>2 DEF MessagesRaise, Inv
<1>10. CASE Stop(t)
  <2>1. TurnsTypeOK'
    BY <1>10 DEF Stop, Inv, TurnsTypeOK, Statuses
  <2>2. StreamTypeOK'
    BY <1>10, OccurKeeps DEF Stop
  <2>3. ServerTypeOK'
    BY <1>10 DEF Stop, Inv, ServerTypeOK
  <2> QED BY <1>10, <1>r, <2>1, <2>2, <2>3 DEF Stop, Inv
<1>11. CASE TimeOut(t)
  <2>1. TurnsTypeOK'
    BY <1>11 DEF TimeOut, Inv, TurnsTypeOK
  <2>2. StreamTypeOK'
    BY <1>11, OccurKeeps DEF TimeOut
  <2>3. ServerTypeOK'
    BY <1>11 DEF TimeOut, Inv, ServerTypeOK
  <2> QED BY <1>11, <1>r, <2>1, <2>2, <2>3 DEF TimeOut, Inv
<1>12. CASE Answer(t)
  <2>1. TurnsTypeOK' /\ ServerTypeOK'
    BY <1>12 DEF Answer, Inv, TurnsTypeOK, ServerTypeOK, Statuses, Live, Reading
  <2> QED BY <1>12, <1>r, <1>s, <2>1 DEF Answer, Inv
<1> QED BY <1>1, <1>2, <1>3, <1>4, <1>5, <1>6, <1>7, <1>8, <1>9, <1>10, <1>11, <1>12, <1>13
        DEF TurnNext

\* A step that changes nothing.
LEMMA StutterKeeps ==
  ASSUME Inv, UNCHANGED vars
  PROVE  Inv'
BY RouterUnchanged
   DEF Inv, TurnsTypeOK, StreamTypeOK, ServerTypeOK, vars, routerVars, turnVars, streamVars,
       serverVars, history

\* Inv is inductive.
LEMMA InvIsInductive ==
  ASSUME Inv, [Next]_vars
  PROVE  Inv'
<1>1. CASE Connect
  <2>1. StreamTypeOK'
    BY <1>1 DEF Connect, Inv, StreamTypeOK, history
  <2> QED BY <1>1, <2>1, RouterUnchanged
          DEF Connect, Inv, TurnsTypeOK, ServerTypeOK, turnVars, serverVars
<1> QED BY <1>1, ListenKeeps, DisconnectKeeps, AbortKeeps, TurnKeeps, ServerKeeps, StutterKeeps
        DEF Next

-----------------------------------------------------------------------------
(* Theorems.                                                               *)

\* Inv holds in every reachable state.
THEOREM InvHolds == Spec => []Inv
<1>1. Init => Inv
  BY InitKeeps
<1>2. Inv /\ [Next]_vars => Inv'
  BY InvIsInductive
<1> QED BY <1>1, <1>2, PTL DEF Spec

\* The adapter's state keeps its types: in particular every queue holds events
\* of core/agent_events.py only, whatever the server sends.
THEOREM OpenCodeTypeCorrect == Spec => []TypeOK
<1>1. Inv => TypeOK
  BY DEF Inv, RouterInv, TypeOK
<1> QED BY <1>1, InvHolds, PTL

\* No Agent Turn is given text or a request of another turn's messages, for any
\* number of turns, answers and chunks, and whatever is lost, aborted or late.
THEOREM QueuesAreOwn == Spec => []QueuesHoldOwnEvents
<1>1. Inv => QueuesHoldOwnEvents
  <2> SUFFICES ASSUME Inv, NEW t \in Turns, NEW i \in 1 .. Len(queue[t]),
                      queue[t][i].kind \in {"text", "approval"}
               PROVE  Parent(queue[t][i].of) = t
    BY DEF QueuesHoldOwnEvents
  <2>1. queue[t] \in Seq(Own(t))
    BY DEF Inv, RouterInv, QueuesOwn
  <2>2. queue[t][i] \in Own(t)
    BY <2>1, ElementOfSeq
  <2> QED BY <2>2 DEF Own
<1> QED BY <1>1, InvHolds, PTL

-----------------------------------------------------------------------------
(* The turn in use is heard.                                               *)

\* Turns are started in order, each when the one before it is over: this is what
\* keeps unregister of one turn from deafening another.
OverInOrder ==
  \A t, u \in Turns : u < t /\ status[t] # "none" => status[u] \notin Live \union {"none"}
HeardInv == TurnsTypeOK /\ OverInOrder /\ LiveTurnIsHeard

\* How the step of a turn that has started changes the status and the router: the
\* turn stays registered, or it is over.
GoesOn(t) ==
  /\ status[t] \in Live
  /\ \E s \in Statuses \ {"none"} :
       /\ status' = [status EXCEPT ![t] = s]
       /\ \/ UNCHANGED <<registered, current>>
          \/ unregister(t) /\ s \notin Live

\* Every step of a turn but its start has that shape.
LEMMA TurnsGoOn ==
  ASSUME TurnsTypeOK, NEW t \in Turns, TurnNext(t), ~StartTurn(t)
  PROVE  GoesOn(t)
<1> USE DEF GoesOn, Statuses, Live, Reading, TurnsTypeOK
<1>1. CASE PromptReturns(t)
  BY <1>1 DEF PromptReturns, routerVars
<1>2. CASE PromptRefused(t)
  <2>1. /\ status[t] \in Live /\ status' = [status EXCEPT ![t] = "raised"] /\ unregister(t)
        /\ "raised" \in Statuses \ {"none"} /\ "raised" \notin Live
    BY <1>2 DEF PromptRefused
  <2> QED BY <2>1
<1>3. CASE PromptLost(t)
  BY <1>3 DEF PromptLost, routerVars
<1>4. CASE TakeEvent(t)
  <2>1. AfterYield(t, Head(queue[t])) \in Statuses \ {"none"}
    BY DEF AfterYield
  <2> QED BY <1>4, <2>1 DEF TakeEvent
<1>5. CASE TakeFailed(t)
  <2>1. /\ status[t] \in Live /\ status' = [status EXCEPT ![t] = "closed"] /\ unregister(t)
        /\ "closed" \in Statuses \ {"none"} /\ "closed" \notin Live
    BY <1>5 DEF TakeFailed
  <2> QED BY <2>1
<1>6. CASE TakeCompleted(t)
  BY <1>6 DEF TakeCompleted
<1>7. CASE MessagesReturn(t)
  <2>1. status[t] \in Live /\ {"left", "open", "closed"} \subseteq Statuses \ {"none"}
        /\ "closed" \notin Live
    BY <1>7 DEF MessagesReturn
  <2>2. \/ status' = [status EXCEPT ![t] = "left"] /\ UNCHANGED <<registered, current>>
        \/ status' = [status EXCEPT ![t] = "open"] /\ UNCHANGED <<registered, current>>
        \/ status' = [status EXCEPT ![t] = "closed"] /\ unregister(t)
    BY <1>7 DEF MessagesReturn
  <2> QED BY <2>1, <2>2
<1>8. CASE MessagesRaise(t)
  BY <1>8 DEF MessagesRaise, routerVars
<1>9. CASE Stop(t)
  <2>1. status[t] \in Live /\ UNCHANGED <<registered, current>>
    BY <1>9 DEF Stop, routerVars
  <2>2. \/ status' = [status EXCEPT ![t] = "left"]
        \/ status' = [status EXCEPT ![t] = status[t]]
    BY <1>9 DEF Stop
  <2> QED BY <2>1, <2>2
<1>10. CASE TimeOut(t)
  <2>1. status' = [status EXCEPT ![t] = status[t]]
    BY <1>10 DEF TimeOut
  <2> QED BY <1>10, <2>1 DEF TimeOut, routerVars
<1>11. CASE Answer(t)
  BY <1>11 DEF Answer, routerVars
<1>12. CASE MessagesRead(t)
  <2>1. status[t] \in Live /\ status' = [status EXCEPT ![t] = status[t]]
    BY <1>12 DEF MessagesRead
  <2> QED BY <1>12, <2>1 DEF MessagesRead, routerVars
<1> QED BY <1>1, <1>2, <1>3, <1>4, <1>5, <1>6, <1>7, <1>8, <1>9, <1>10, <1>11, <1>12 DEF TurnNext

\* The start of a turn keeps the turns in order and the live one heard.
LEMMA StartKeepsHeard ==
  ASSUME HeardInv, NEW t \in Turns, StartTurn(t)
  PROVE  OverInOrder' /\ LiveTurnIsHeard'
<1>0. /\ status[t] = "none" /\ \A u \in Turns : u < t => status[u] \notin Live \union {"none"}
      /\ status' = [status EXCEPT ![t] = "starting"]
      /\ registered' = registered \union {t} /\ current' = t
      /\ status \in [Turns -> Statuses]
  BY DEF StartTurn, register, HeardInv, TurnsTypeOK
<1>1. \A u \in Turns : t < u => status[u] = "none"
  BY <1>0 DEF HeardInv, OverInOrder
<1>2. \A u \in Turns : u # t => u < t \/ t < u
  BY DEF Turns
<1>3. \A u \in Turns : u # t => status'[u] = status[u] /\ status[u] \notin Live
  BY <1>0, <1>1, <1>2 DEF Live, Reading
<1>4. LiveTurnIsHeard'
  BY <1>0, <1>3 DEF LiveTurnIsHeard
<1>5. OverInOrder'
  <2> SUFFICES ASSUME NEW v \in Turns, NEW u \in Turns, u < v, status'[v] # "none"
               PROVE  status'[u] \notin Live \union {"none"}
    BY DEF OverInOrder
  <2>1. u # v /\ ~(v < t /\ t < v) /\ (u < v /\ v < t => u < t)
    BY DEF Turns
  <2>2. CASE v = t
    BY <1>0, <1>3, <2>1, <2>2
  <2>3. CASE v # t
    <3>1. status[v] # "none" /\ v < t
      BY <1>1, <1>2, <1>3, <2>3
    <3>2. u < t /\ u # t
      BY <2>1, <3>1 DEF Turns
    <3> QED BY <1>0, <1>3, <3>2
  <2> QED BY <2>2, <2>3
<1> QED BY <1>4, <1>5

\* So does every later step of a turn.
LEMMA GoingOnKeepsHeard ==
  ASSUME HeardInv, NEW t \in Turns, GoesOn(t)
  PROVE  OverInOrder' /\ LiveTurnIsHeard'
<1>0. PICK s \in Statuses \ {"none"} :
        /\ status' = [status EXCEPT ![t] = s]
        /\ \/ UNCHANGED <<registered, current>>
           \/ unregister(t) /\ s \notin Live
  BY DEF GoesOn
<1>1. /\ status[t] \in Live /\ status \in [Turns -> Statuses]
      /\ current = t /\ t \in registered
  BY DEF GoesOn, HeardInv, TurnsTypeOK, LiveTurnIsHeard
<1>2. \A u \in Turns : u # t => status'[u] = status[u] /\ status[u] \notin Live
  BY <1>0, <1>1 DEF HeardInv, LiveTurnIsHeard
<1>3. status'[t] = s
  BY <1>0, <1>1
<1>4. LiveTurnIsHeard'
  <2> SUFFICES ASSUME NEW u \in Turns, status'[u] \in Live
               PROVE  current' = u /\ u \in registered'
    BY DEF LiveTurnIsHeard
  <2>1. u = t
    BY <1>2
  <2>2. UNCHANGED <<registered, current>>
    BY <1>0, <1>3, <2>1
  <2> QED BY <1>1, <2>1, <2>2
<1>5. OverInOrder'
  <2> SUFFICES ASSUME NEW v \in Turns, NEW u \in Turns, u < v, status'[v] # "none"
               PROVE  status'[u] \notin Live \union {"none"}
    BY DEF OverInOrder
  <2>1. status[v] # "none"
    BY <1>1, <1>2 DEF Live, Reading
  <2>2. status[u] \notin Live \union {"none"}
    BY <2>1 DEF HeardInv, OverInOrder
  <2> QED BY <1>1, <1>2, <2>2
<1> QED BY <1>4, <1>5

\* HeardInv is kept by every step.
LEMMA StepKeepsHeard ==
  ASSUME Inv, HeardInv, [Next]_vars
  PROVE  OverInOrder' /\ LiveTurnIsHeard'
<1>1. UNCHANGED <<status, registered, current>> => OverInOrder' /\ LiveTurnIsHeard'
  BY DEF HeardInv, OverInOrder, LiveTurnIsHeard
<1>2. CASE Connect \/ Listen \/ Disconnect \/ ServerAborts \/ UNCHANGED vars
  BY <1>1, <1>2 DEF Connect, Listen, Disconnect, ServerAborts, vars, routerVars, turnVars
<1>3. ASSUME NEW t \in Turns, ServerNext(t)
      PROVE  UNCHANGED <<status, registered, current>>
  BY <1>3 DEF ServerNext, ServerAccepts, ServerBegins, ServerWrites, ServerAsks, ServerEnds,
              routerVars, turnVars
<1>4. ASSUME NEW t \in Turns, TurnNext(t)
      PROVE  OverInOrder' /\ LiveTurnIsHeard'
  BY <1>4, StartKeepsHeard, GoingOnKeepsHeard, TurnsGoOn DEF HeardInv
<1> QED BY <1>1, <1>2, <1>3, <1>4 DEF Next

\* The turn whose stream is in use is always the one the router sends the
\* session's events to, so no turn is deaf because of one before it.
THEOREM LiveTurnsAreHeard == Spec => []LiveTurnIsHeard
<1>1. Init => HeardInv
  BY InitKeeps DEF Init, Inv, HeardInv, OverInOrder, LiveTurnIsHeard, Live, Reading
<1>2. Inv /\ Inv' /\ HeardInv /\ [Next]_vars => HeardInv'
  BY StepKeepsHeard DEF Inv, HeardInv
<1>3. HeardInv => LiveTurnIsHeard
  BY DEF HeardInv
<1> QED BY <1>1, <1>2, <1>3, InvHolds, PTL DEF Spec

-----------------------------------------------------------------------------
(* Nothing is heard of a turn before it starts.                            *)

Started == {t \in Turns : status[t] # "none"}
OfStarted == {e \in RawEvents : Parent(e.of) \in Started}

FreshInv ==
  /\ todo \in Seq(Started)
  /\ wire \in Seq(OfStarted)
  /\ \A a \in Answers : a \in known \/ early[a] # <<>> => Parent(a) \in Started

\* A turn that has started stays so.
LEMMA StartedGrows ==
  ASSUME Inv, [Next]_vars
  PROVE  Started \subseteq Started' /\ OfStarted \subseteq OfStarted'
<1>1. CASE UNCHANGED status
  BY <1>1 DEF Started, OfStarted
<1>2. ASSUME NEW t \in Turns, TurnNext(t)
      PROVE  Started \subseteq Started'
  <2>1. \E s \in Statuses \ {"none"} : status' = [status EXCEPT ![t] = s]
    <3>1. CASE StartTurn(t)
      BY <3>1 DEF StartTurn, Statuses, Live
    <3>2. CASE ~StartTurn(t)
      BY <1>2, <3>2, TurnsGoOn DEF Inv, GoesOn
    <3> QED BY <3>1, <3>2
  <2> QED BY <2>1 DEF Started, Inv, TurnsTypeOK
<1>3. ASSUME NEW t \in Turns, ServerNext(t)
      PROVE  UNCHANGED status
  BY <1>3 DEF ServerNext, ServerAccepts, ServerBegins, ServerWrites, ServerAsks, ServerEnds,
              turnVars
<1>4. CASE Connect \/ Listen \/ Disconnect \/ ServerAborts \/ UNCHANGED vars
  BY <1>1, <1>4 DEF Connect, Listen, Disconnect, ServerAborts, vars, turnVars
<1>5. Started \subseteq Started' => OfStarted \subseteq OfStarted'
  BY DEF OfStarted
<1> QED BY <1>1, <1>2, <1>3, <1>4, <1>5 DEF Next

\* The events the server sends about a turn that has started.
LEMMA SentOfStarted ==
  ASSUME NEW t \in Started
  PROVE  /\ \A p \in Prompts, kind \in {"userInfo", "userPart", "idle", "error"}, txt \in Texts :
              Parent(p) = t => Event(kind, p, txt) \in OfStarted
         /\ \A a \in Answers, kind \in {"info", "delta", "updated", "asked", "question"},
               txt \in Texts : Parent(a) = t => Event(kind, a, txt) \in OfStarted
<1>1. \A kind, m, txt : Event(kind, m, txt).of = m
  BY DEF Event
<1> QED BY <1>1, SentEvents DEF OfStarted

\* What the server sends goes to the wire or nowhere.
LEMMA SendOfStarted ==
  ASSUME wire \in Seq(OfStarted), NEW t, NEW events \in Seq(OfStarted), Send(t, events)
  PROVE  wire' \in Seq(OfStarted)
BY ConcatProperties DEF Send

\* What it sends when the session stops working is about a turn that has started.
LEMMA EndingOfStarted ==
  ASSUME wire \in Seq(OfStarted), NEW t \in Started, NEW last \in Seq(OfStarted),
         SendEnding(t, last)
  PROVE  wire' \in Seq(OfStarted)
<1> DEFINE idle == Event("idle", Prompt(t), <<>>)
           error == Event("error", Prompt(t), <<>>)
<1>1. PICK ending \in Endings(t) : Send(t, last \o ending)
  BY DEF SendEnding
<1>2. idle \in OfStarted /\ error \in OfStarted
  <2>1. Prompt(t) \in Prompts /\ Parent(Prompt(t)) = t /\ <<>> \in Texts
    BY DEF Prompts, Prompt, Parent, Texts, Started
  <2> QED BY <2>1, SentOfStarted
<1>3. ending \in {<<idle>>, <<error>>, <<idle, idle>>, <<error, idle>>}
  BY <1>1 DEF Endings
<1> HIDE DEF idle, error
<1>4. ending \in Seq(OfStarted)
  <2>1. \A e \in {idle, error} : <<e>> \in Seq(OfStarted) /\ <<e, idle>> \in Seq(OfStarted)
    BY <1>2
  <2>2. PICK e \in {idle, error} : ending = <<e>> \/ ending = <<e, idle>>
    BY <1>3
  <2> QED BY <2>1, <2>2
<1>5. last \o ending \in Seq(OfStarted)
  BY <1>4, ConcatProperties
<1> QED BY <1>1, <1>5, SendOfStarted

\* An event that is handled is of a turn that has started; no other answer becomes
\* known or is remembered.
LEMMA ListenFresh ==
  ASSUME Inv, FreshInv, Listen
  PROVE  FreshInv'
<1> DEFINE e == Head(wire)
<1>0. UNCHANGED <<todo, status>>
  BY DEF Listen, turnVars, serverVars
<1>1. UNCHANGED <<Started, OfStarted>>
  BY <1>0 DEF Started, OfStarted
<1>2. e \in OfStarted /\ wire' \in Seq(OfStarted)
  BY HeadTailProperties DEF Listen, FreshInv
<1>3. Parent(e.of) \in Started
  BY <1>2 DEF OfStarted
<1>4. \A a \in Answers : a # e.of => (a \in known' => a \in known) /\ early'[a] = early[a]
  <2> SUFFICES ASSUME NEW a \in Answers, a # e.of
               PROVE  (a \in known' => a \in known) /\ early'[a] = early[a]
    OBVIOUS
  <2>1. early \in [Answers -> Seq(AgentEvents)]
    BY DEF Inv, RouterInv, RouterTypeOK
  <2>2. handle_event(e)
    BY DEF Listen
  <2> HIDE DEF e
  <2>3. \A ev : PutBound(e.of, ev) => early'[a] = early[a]
    BY <2>1 DEF PutBound
  <2> QED BY <2>1, <2>2, <2>3
          DEF handle_event, HandleUserInfo, HandleUserPart, HandleInfo, HandleDelta, HandleUpdated,
              HandleAsked, HandleQuestion, HandleEnd, PutActive
<1>5. ASSUME NEW a \in Answers, a \in known' \/ early'[a] # <<>>
      PROVE  Parent(a) \in Started
  <2>1. CASE a = e.of
    BY <1>3, <2>1
  <2>2. CASE a # e.of
    BY <1>4, <1>5, <2>2 DEF FreshInv
  <2> QED BY <2>1, <2>2
<1> QED BY <1>0, <1>1, <1>2, <1>5 DEF FreshInv

\* The server sends events of the turn it works on, which has started.
LEMMA ServerFresh ==
  ASSUME Inv, FreshInv, NEW t \in Turns, ServerNext(t)
  PROVE  FreshInv'
<1>0. UNCHANGED <<status, known, early>>
  BY DEF ServerNext, ServerAccepts, ServerBegins, ServerWrites, ServerAsks, ServerEnds,
         routerVars, turnVars
<1>1. UNCHANGED <<Started, OfStarted>>
  BY <1>0 DEF Started, OfStarted
<1>2. t \in Started
  <2>1. CASE ServerAccepts(t)
    BY <2>1 DEF ServerAccepts, Started
  <2>2. CASE WorksOn(t)
    BY <2>2, HeadTailProperties DEF WorksOn, FreshInv
  <2> QED BY <2>1, <2>2 DEF ServerNext, ServerBegins, ServerWrites, ServerAsks, ServerEnds
<1>3. /\ Prompt(t) \in Prompts /\ Parent(Prompt(t)) = t /\ <<>> \in Texts /\ <<0>> \in Texts
      /\ \A n : Parent(<<t, n>>) = t
  <2>1. 0 \in 0 .. MaxChunks
    BY OpenCodeAssumption
  <2> QED BY <2>1 DEF Prompts, Prompt, Parent, Texts
<1>4. Parent(LastAnswer(t)) = t /\ (answered[t] > 0 => LastAnswer(t) \in Answers)
  <2>1. answered[t] \in 0 .. MaxAnswers /\ MaxAnswers \in Nat
    BY OpenCodeAssumption DEF Inv, ServerTypeOK
  <2> QED BY <1>3, <2>1 DEF LastAnswer, Answers
<1>5. todo' \in Seq(Started)
  <2>1. CASE ServerAccepts(t)
    BY <1>2, <2>1 DEF ServerAccepts, FreshInv
  <2>2. CASE ServerEnds(t)
    BY <2>2, HeadTailProperties DEF ServerEnds, WorksOn, FreshInv
  <2>3. CASE UNCHANGED todo
    BY <2>3 DEF FreshInv
  <2> QED BY <2>1, <2>2, <2>3 DEF ServerNext, ServerBegins, ServerWrites, ServerAsks
<1>6. wire' \in Seq(OfStarted)
  <2>0. wire \in Seq(OfStarted)
    BY DEF FreshInv
  <2>1. CASE ServerAccepts(t)
    <3>1. /\ Event("userInfo", Prompt(t), <<>>) \in OfStarted
          /\ Event("userPart", Prompt(t), <<0>>) \in OfStarted
      BY <1>2, <1>3, SentOfStarted
    <3>2. <<Event("userInfo", Prompt(t), <<>>), Event("userPart", Prompt(t), <<0>>)>>
            \in Seq(OfStarted)
      BY <3>1
    <3> QED BY <2>0, <2>1, <3>2, SendOfStarted DEF ServerAccepts
  <2>2. CASE ServerBegins(t)
    <3>1. <<t, answered[t] + 1>> \in Answers
      <4>1. answered[t] \in 0 .. MaxAnswers /\ MaxAnswers \in Nat /\ answered[t] < MaxAnswers
        BY <2>2, OpenCodeAssumption DEF Inv, ServerTypeOK, ServerBegins
      <4>2. answered[t] + 1 \in 1 .. MaxAnswers
        BY <4>1
      <4> QED BY <4>2 DEF Answers
    <3>2. Event("info", <<t, answered[t] + 1>>, <<>>) \in OfStarted
      BY <1>2, <1>3, <3>1, SentOfStarted
    <3>3. <<Event("info", <<t, answered[t] + 1>>, <<>>)>> \in Seq(OfStarted)
      BY <3>2
    <3> QED BY <2>0, <2>2, <3>3, SendOfStarted DEF ServerBegins
  <2>3. CASE ServerWrites(t)
    <3> DEFINE a == LastAnswer(t)
               chunk == written[t] + 1
    <3>1. PICK e \in {Event("delta", a, <<chunk>>), Event("updated", a, Append(text[a], chunk))} :
            Send(t, <<e>>)
      BY <2>3 DEF ServerWrites
    <3>2. a \in Answers /\ chunk \in 0 .. MaxChunks
      <4>1. written[t] \in 0 .. MaxChunks /\ MaxChunks \in Nat /\ written[t] < MaxChunks
        BY <2>3, OpenCodeAssumption DEF Inv, ServerTypeOK, ServerWrites
      <4> QED BY <1>4, <2>3, <4>1 DEF ServerWrites
    <3>3. <<chunk>> \in Texts /\ Append(text[a], chunk) \in Texts
      <4>1. text[a] \in Seq(0 .. MaxChunks)
        BY <3>2 DEF Inv, ServerTypeOK, Texts
      <4> HIDE DEF chunk
      <4> QED BY <3>2, <4>1 DEF Texts
    <3>4. e \in OfStarted
      BY <1>2, <1>4, <3>2, <3>3, SentOfStarted
    <3>5. <<e>> \in Seq(OfStarted)
      BY <3>4
    <3> QED BY <2>0, <3>1, <3>5, SendOfStarted
  <2>4. ASSUME NEW what \in {"asked", "question"}, ServerAsks(t, what)
        PROVE  wire' \in Seq(OfStarted)
    <3>1. LastAnswer(t) \in Answers
      BY <1>4, <2>4 DEF ServerAsks
    <3>2. Event(what, LastAnswer(t), <<>>) \in OfStarted
      BY <1>2, <1>3, <1>4, <3>1, SentOfStarted
    <3>3. <<Event(what, LastAnswer(t), <<>>)>> \in Seq(OfStarted)
      BY <3>2
    <3> QED BY <2>0, <2>4, <3>3, SendOfStarted DEF ServerAsks
  <2>5. CASE ServerEnds(t)
    <3>1. LastAnswer(t) \in Answers /\ text[LastAnswer(t)] \in Texts
      BY <1>4, <2>5 DEF ServerEnds, Inv, ServerTypeOK
    <3>2. /\ Event("updated", LastAnswer(t), text[LastAnswer(t)]) \in OfStarted
          /\ Event("info", LastAnswer(t), <<>>) \in OfStarted
      BY <1>2, <1>3, <1>4, <3>1, SentOfStarted
    <3>3. <<Event("updated", LastAnswer(t), text[LastAnswer(t)]),
            Event("info", LastAnswer(t), <<>>)>> \in Seq(OfStarted)
      BY <3>2
    <3> QED BY <2>0, <1>2, <2>5, <3>3, EndingOfStarted DEF ServerEnds
  <2> QED BY <2>1, <2>2, <2>3, <2>4, <2>5 DEF ServerNext
<1> QED BY <1>0, <1>1, <1>5, <1>6 DEF FreshInv

\* FreshInv is kept by every step.
LEMMA StepKeepsFresh ==
  ASSUME Inv, FreshInv, [Next]_vars
  PROVE  FreshInv'
<1>1. Started \subseteq Started' /\ OfStarted \subseteq OfStarted'
  BY StartedGrows
<1>2. ASSUME UNCHANGED <<todo, known, early>>, wire' \in {wire, <<>>}
      PROVE  FreshInv'
  <2>1. todo' \in Seq(Started') /\ wire' \in Seq(OfStarted')
    <3>1. todo \in Seq(Started') /\ wire \in Seq(OfStarted')
      BY <1>1, SeqMonotone DEF FreshInv
    <3>2. <<>> \in Seq(OfStarted')
      OBVIOUS
    <3> QED BY <1>2, <3>1, <3>2
  <2> QED BY <1>1, <1>2, <2>1 DEF FreshInv
<1>3. CASE Connect \/ Disconnect \/ UNCHANGED vars
  BY <1>2, <1>3 DEF Connect, Disconnect, vars, routerVars, streamVars, serverVars
<1>4. ASSUME NEW t \in Turns, TurnNext(t)
      PROVE  UNCHANGED <<todo, known, early, wire>>
  BY <1>4 DEF TurnNext, StartTurn, PromptReturns, PromptRefused, PromptLost, TakeEvent, TakeFailed,
              TakeCompleted, MessagesRead, MessagesReturn, MessagesRaise, Stop, TimeOut, Answer,
              routerVars, streamVars, serverVars
<1>5. CASE ServerAborts
  <2>1. UNCHANGED <<known, early, status>>
    BY <1>5 DEF ServerAborts, routerVars, turnVars
  <2>2. UNCHANGED <<Started, OfStarted>>
    BY <2>1 DEF Started, OfStarted
  <2>3. CASE todo = <<>>
    BY <1>2, <1>5, <2>1, <2>3 DEF ServerAborts, streamVars
  <2>4. CASE todo # <<>>
    <3>1. Head(todo) \in Started /\ todo' \in Seq(Started)
      BY <1>5, <2>4, HeadTailProperties DEF ServerAborts, FreshInv
    <3>2. <<>> \in Seq(OfStarted) /\ wire \in Seq(OfStarted)
      BY DEF FreshInv
    <3>3. wire' \in Seq(OfStarted)
      BY <1>5, <2>4, <3>1, <3>2, EndingOfStarted DEF ServerAborts
    <3> QED BY <2>1, <2>2, <3>1, <3>3 DEF FreshInv
  <2> QED BY <2>3, <2>4
<1> QED BY <1>2, <1>3, <1>4, <1>5, ListenFresh, ServerFresh DEF Next

\* What the router and the stream hold is of turns that were started.
THEOREM FreshHolds == Spec => []FreshInv
<1>1. Init => FreshInv
  BY DEF Init, FreshInv
<1>2. Inv /\ FreshInv /\ [Next]_vars => FreshInv'
  BY StepKeepsFresh
<1> QED BY <1>1, <1>2, InvHolds, PTL DEF Spec

\* Of a turn not yet started no event is on its way or remembered: register, which
\* in the code replays what _early holds of the new turn, has nothing to replay.
THEOREM NothingIsHeardBefore == Spec => []NothingHeardBefore
<1>1. FreshInv => NothingHeardBefore
  <2> SUFFICES ASSUME FreshInv, NEW t \in Turns, status[t] = "none"
               PROVE  /\ \A a \in Answers : Parent(a) = t => a \notin known /\ early[a] = <<>>
                      /\ \A i \in 1 .. Len(wire) : Parent(wire[i].of) # t
    BY DEF NothingHeardBefore
  <2>1. t \notin Started
    BY DEF Started
  <2>2. \A i \in 1 .. Len(wire) : Parent(wire[i].of) \in Started
    BY ElementOfSeq DEF FreshInv, OfStarted
  <2> QED BY <2>1, <2>2 DEF FreshInv
<1> QED BY <1>1, FreshHolds, PTL

-----------------------------------------------------------------------------
(* Text, as the set of its chunks and as an ascending sequence.            *)

Chunks(s) == {s[i] : i \in 1 .. Len(s)}
Before(S, T) == \A x \in S, y \in T : x < y
Ascends(s) == \A i \in 1 .. Len(s) : s[i] > 0 /\ \A j \in 1 .. i - 1 : s[j] < s[i]

\* The text of a sequence of events, in which no event repeats or overtakes another.
ChunksOf(q) == {c \in 0 .. MaxChunks : \E i \in 1 .. Len(q) : c \in Chunks(q[i].text)}
InLine(q) ==
  \A i \in 1 .. Len(q) :
    Ascends(q[i].text) /\ \A j \in 1 .. i - 1 : Before(Chunks(q[j].text), Chunks(q[i].text))

LEMMA TextsAreNumbers ==
  ASSUME NEW s \in Texts
  PROVE  /\ s \in Seq(Nat) /\ Len(s) \in Nat /\ MaxChunks \in Nat
         /\ Chunks(s) \subseteq 0 .. MaxChunks
         /\ \A i \in 1 .. Len(s) : s[i] \in 0 .. MaxChunks /\ s[i] \in Nat
<1>1. MaxChunks \in Nat
  BY OpenCodeAssumption
<1>2. s \in Seq(0 .. MaxChunks)
  BY DEF Texts
<1>3. \A i \in 1 .. Len(s) : s[i] \in 0 .. MaxChunks
  BY <1>2, ElementOfSeq
<1>4. s \in Seq(Nat)
  BY <1>1, <1>2, SeqMonotone
<1> QED BY <1>1, <1>2, <1>3, <1>4 DEF Chunks

LEMMA NoChunks == Chunks(<<>>) = {} /\ Ascends(<<>>)
BY DEF Chunks, Ascends

LEMMA OneChunk ==
  ASSUME NEW c
  PROVE  Chunks(<<c>>) = {c} /\ (c \in Nat /\ c > 0 => Ascends(<<c>>))
BY DEF Chunks, Ascends

LEMMA ConcatChunks ==
  ASSUME NEW s \in Texts, NEW u \in Texts
  PROVE  /\ Chunks(s \o u) = Chunks(s) \union Chunks(u)
         /\ Ascends(s) /\ Ascends(u) /\ Before(Chunks(s), Chunks(u)) => Ascends(s \o u)
<1>1. /\ s \in Seq(Nat) /\ u \in Seq(Nat) /\ Len(s) \in Nat /\ Len(u) \in Nat
  BY TextsAreNumbers
<1>2. /\ Len(s \o u) = Len(s) + Len(u)
      /\ \A i \in 1 .. Len(s) + Len(u) :
           (s \o u)[i] = IF i <= Len(s) THEN s[i] ELSE u[i - Len(s)]
  BY <1>1, ConcatProperties
<1>3. Chunks(s \o u) \subseteq Chunks(s) \union Chunks(u)
  BY <1>1, <1>2 DEF Chunks
<1>4. Chunks(s) \subseteq Chunks(s \o u)
  <2> SUFFICES ASSUME NEW i \in 1 .. Len(s) PROVE s[i] \in Chunks(s \o u)
    BY DEF Chunks
  <2>1. i \in 1 .. Len(s \o u) /\ (s \o u)[i] = s[i]
    BY <1>1, <1>2
  <2> QED BY <2>1 DEF Chunks
<1>5. Chunks(u) \subseteq Chunks(s \o u)
  <2> SUFFICES ASSUME NEW i \in 1 .. Len(u) PROVE u[i] \in Chunks(s \o u)
    BY DEF Chunks
  <2>1. i + Len(s) \in 1 .. Len(s \o u) /\ (s \o u)[i + Len(s)] = u[i]
    BY <1>1, <1>2
  <2> QED BY <2>1 DEF Chunks
<1>6. ASSUME Ascends(s), Ascends(u), Before(Chunks(s), Chunks(u)) PROVE Ascends(s \o u)
  <2> SUFFICES ASSUME NEW i \in 1 .. Len(s) + Len(u)
               PROVE  (s \o u)[i] > 0 /\ \A j \in 1 .. i - 1 : (s \o u)[j] < (s \o u)[i]
    BY <1>2 DEF Ascends
  <2>1. CASE i <= Len(s)
    BY <1>1, <1>2, <1>6, <2>1 DEF Ascends
  <2>2. CASE i > Len(s)
    <3>1. i - Len(s) \in 1 .. Len(u) /\ (s \o u)[i] = u[i - Len(s)] /\ u[i - Len(s)] > 0
      BY <1>1, <1>2, <1>6, <2>2 DEF Ascends
    <3> SUFFICES ASSUME NEW j \in 1 .. i - 1 PROVE (s \o u)[j] < (s \o u)[i]
      BY <3>1
    <3>2. CASE j <= Len(s)
      <4>1. (s \o u)[j] = s[j] /\ j \in 1 .. Len(s)
        BY <1>1, <1>2, <3>2
      <4> QED BY <1>6, <3>1, <4>1 DEF Before, Chunks
    <3>3. CASE j > Len(s)
      <4>1. (s \o u)[j] = u[j - Len(s)] /\ j - Len(s) \in 1 .. (i - Len(s)) - 1
        BY <1>1, <1>2, <3>3
      <4> QED BY <1>6, <3>1, <4>1 DEF Ascends
    <3> QED BY <1>1, <3>2, <3>3
  <2> QED BY <1>1, <2>1, <2>2
<1> QED BY <1>3, <1>4, <1>5, <1>6

\* The text of events one after the other.
LEMMA EventTexts ==
  ASSUME NEW q \in Seq(AgentEvents)
  PROVE  /\ Len(q) \in Nat
         /\ \A i \in 1 .. Len(q) : q[i] \in AgentEvents /\ q[i].text \in Texts
                                   /\ Chunks(q[i].text) \subseteq ChunksOf(q)
         /\ ChunksOf(q) \subseteq 0 .. MaxChunks
<1>1. \A i \in 1 .. Len(q) : q[i] \in AgentEvents
  BY ElementOfSeq
<1>2. \A i \in 1 .. Len(q) : q[i].text \in Texts
  BY <1>1 DEF AgentEvents
<1>3. \A i \in 1 .. Len(q) : Chunks(q[i].text) \subseteq 0 .. MaxChunks
  BY <1>2, TextsAreNumbers
<1> QED BY <1>1, <1>2, <1>3 DEF ChunksOf

LEMMA NoEvents == ChunksOf(<<>>) = {} /\ InLine(<<>>)
BY DEF ChunksOf, InLine

LEMMA ConcatEvents ==
  ASSUME NEW q \in Seq(AgentEvents), NEW r \in Seq(AgentEvents)
  PROVE  /\ ChunksOf(q \o r) = ChunksOf(q) \union ChunksOf(r)
         /\ InLine(q) /\ InLine(r) /\ Before(ChunksOf(q), ChunksOf(r)) => InLine(q \o r)
<1>1. Len(q) \in Nat /\ Len(r) \in Nat
  OBVIOUS
<1>2. /\ Len(q \o r) = Len(q) + Len(r)
      /\ \A i \in 1 .. Len(q) + Len(r) :
           (q \o r)[i] = IF i <= Len(q) THEN q[i] ELSE r[i - Len(q)]
  BY <1>1, ConcatProperties
<1>3. \A i \in 1 .. Len(q) : i \in 1 .. Len(q \o r) /\ (q \o r)[i] = q[i]
  BY <1>1, <1>2
<1>4. \A i \in 1 .. Len(r) : i + Len(q) \in 1 .. Len(q \o r) /\ (q \o r)[i + Len(q)] = r[i]
  BY <1>1, <1>2
<1>5. \A i \in 1 .. Len(q \o r) :
        \/ i \in 1 .. Len(q) /\ (q \o r)[i] = q[i]
        \/ i - Len(q) \in 1 .. Len(r) /\ (q \o r)[i] = r[i - Len(q)] /\ i > Len(q)
  BY <1>1, <1>2
<1>6. ChunksOf(q \o r) = ChunksOf(q) \union ChunksOf(r)
  BY <1>3, <1>4, <1>5 DEF ChunksOf
<1>7. ASSUME InLine(q), InLine(r), Before(ChunksOf(q), ChunksOf(r)) PROVE InLine(q \o r)
  <2> SUFFICES ASSUME NEW i \in 1 .. Len(q \o r)
               PROVE  /\ Ascends((q \o r)[i].text)
                      /\ \A j \in 1 .. i - 1 : Before(Chunks((q \o r)[j].text), Chunks((q \o r)[i].text))
    BY DEF InLine
  <2>1. CASE i \in 1 .. Len(q) /\ (q \o r)[i] = q[i]
    <3>1. \A j \in 1 .. i - 1 : (q \o r)[j] = q[j]
      BY <1>1, <1>3, <2>1
    <3> QED BY <1>7, <2>1, <3>1 DEF InLine
  <2>2. CASE i - Len(q) \in 1 .. Len(r) /\ (q \o r)[i] = r[i - Len(q)] /\ i > Len(q)
    <3>1. Ascends((q \o r)[i].text)
      BY <1>7, <2>2 DEF InLine
    <3> SUFFICES ASSUME NEW j \in 1 .. i - 1
                 PROVE  Before(Chunks((q \o r)[j].text), Chunks((q \o r)[i].text))
      BY <3>1
    <3>2. CASE j \in 1 .. Len(q)
      <4>1. /\ (q \o r)[j] = q[j] /\ Chunks(q[j].text) \subseteq ChunksOf(q)
            /\ Chunks(r[i - Len(q)].text) \subseteq ChunksOf(r)
        BY <1>3, <2>2, <3>2, EventTexts
      <4> QED BY <1>7, <2>2, <4>1 DEF Before
    <3>3. CASE j \notin 1 .. Len(q)
      <4>1. j - Len(q) \in 1 .. (i - Len(q)) - 1 /\ j \in 1 .. Len(q \o r)
        BY <1>1, <1>2, <2>2, <3>3
      <4>2. (q \o r)[j] = r[j - Len(q)]
        BY <1>5, <3>3, <4>1
      <4> QED BY <1>7, <2>2, <4>1, <4>2 DEF InLine
    <3> QED BY <3>2, <3>3
  <2> QED BY <1>5, <2>1, <2>2
<1> QED BY <1>6, <1>7

LEMMA OneEvent ==
  ASSUME NEW e \in AgentEvents
  PROVE  /\ <<e>> \in Seq(AgentEvents) /\ ChunksOf(<<e>>) = Chunks(e.text)
         /\ Ascends(e.text) => InLine(<<e>>)
<1>1. e.text \in Texts
  BY DEF AgentEvents
<1>2. Chunks(e.text) \subseteq 0 .. MaxChunks
  BY <1>1, TextsAreNumbers
<1> QED BY <1>2 DEF ChunksOf, InLine

LEMMA AppendEvents ==
  ASSUME NEW q \in Seq(AgentEvents), NEW e \in AgentEvents
  PROVE  /\ Append(q, e) \in Seq(AgentEvents)
         /\ ChunksOf(Append(q, e)) = ChunksOf(q) \union Chunks(e.text)
         /\ InLine(q) /\ Ascends(e.text) /\ Before(ChunksOf(q), Chunks(e.text)) => InLine(Append(q, e))
<1>1. Append(q, e) = q \o <<e>> /\ Append(q, e) \in Seq(AgentEvents)
  OBVIOUS
<1>2. /\ <<e>> \in Seq(AgentEvents) /\ ChunksOf(<<e>>) = Chunks(e.text)
      /\ Ascends(e.text) => InLine(<<e>>)
  BY OneEvent
<1>3. /\ ChunksOf(q \o <<e>>) = ChunksOf(q) \union ChunksOf(<<e>>)
      /\ InLine(q) /\ InLine(<<e>>) /\ Before(ChunksOf(q), ChunksOf(<<e>>)) => InLine(q \o <<e>>)
  BY <1>2, ConcatEvents
<1> QED BY <1>1, <1>2, <1>3

LEMMA TakeFirst ==
  ASSUME NEW q \in Seq(AgentEvents), q # <<>>
  PROVE  /\ Head(q) \in AgentEvents /\ Tail(q) \in Seq(AgentEvents)
         /\ ChunksOf(q) = Chunks(Head(q).text) \union ChunksOf(Tail(q))
         /\ InLine(q) => /\ Ascends(Head(q).text) /\ InLine(Tail(q))
                         /\ Before(Chunks(Head(q).text), ChunksOf(Tail(q)))
<1>1. /\ Head(q) = q[1] /\ Len(Tail(q)) = Len(q) - 1 /\ Len(q) \in Nat /\ 1 \in 1 .. Len(q)
      /\ \A i \in 1 .. Len(q) - 1 : Tail(q)[i] = q[i + 1]
      /\ Head(q) \in AgentEvents /\ Tail(q) \in Seq(AgentEvents)
  BY HeadTailProperties
<1>2. \A i \in 1 .. Len(q) : i = 1 \/ (i - 1 \in 1 .. Len(Tail(q)) /\ Tail(q)[i - 1] = q[i])
  BY <1>1
<1>3. \A i \in 1 .. Len(Tail(q)) : i + 1 \in 1 .. Len(q) /\ Tail(q)[i] = q[i + 1]
  BY <1>1
<1>4. Head(q).text \in Texts /\ Chunks(Head(q).text) \subseteq 0 .. MaxChunks
  <2>1. Head(q).text \in Texts
    BY <1>1 DEF AgentEvents
  <2> QED BY <2>1, TextsAreNumbers
<1>5. ChunksOf(q) = Chunks(Head(q).text) \union ChunksOf(Tail(q))
  BY <1>1, <1>2, <1>3, <1>4 DEF ChunksOf
<1>6. ASSUME InLine(q)
      PROVE  /\ Ascends(Head(q).text) /\ InLine(Tail(q))
             /\ Before(Chunks(Head(q).text), ChunksOf(Tail(q)))
  <2>1. Ascends(Head(q).text)
    BY <1>1, <1>6 DEF InLine
  <2>2. InLine(Tail(q))
    <3> SUFFICES ASSUME NEW i \in 1 .. Len(Tail(q))
                 PROVE  /\ Ascends(Tail(q)[i].text)
                        /\ \A j \in 1 .. i - 1 : Before(Chunks(Tail(q)[j].text), Chunks(Tail(q)[i].text))
      BY DEF InLine
    <3>1. i + 1 \in 1 .. Len(q) /\ Tail(q)[i] = q[i + 1]
      BY <1>3
    <3>2. \A j \in 1 .. i - 1 : j + 1 \in 1 .. (i + 1) - 1 /\ Tail(q)[j] = q[j + 1]
      BY <1>1, <1>3
    <3> QED BY <1>6, <3>1, <3>2 DEF InLine
  <2>3. \A i \in 1 .. Len(Tail(q)) : Before(Chunks(Head(q).text), Chunks(Tail(q)[i].text))
    <3> SUFFICES ASSUME NEW i \in 1 .. Len(Tail(q))
                 PROVE  Before(Chunks(Head(q).text), Chunks(Tail(q)[i].text))
      OBVIOUS
    <3>1. i + 1 \in 1 .. Len(q) /\ Tail(q)[i] = q[i + 1] /\ 1 \in 1 .. (i + 1) - 1
      BY <1>1, <1>3
    <3> QED BY <1>1, <1>6, <3>1 DEF InLine
  <2> QED BY <2>1, <2>2, <2>3 DEF ChunksOf, Before
<1> QED BY <1>1, <1>5, <1>6

-----------------------------------------------------------------------------
(* What the server has said, and what of it is on the wire.                *)

Of(t) == {a \in Answers : Parent(a) = t}

\* A server writes chunks in order, in answers it has begun; a turn with one
\* answer has all its text there.
WritingInv ==
  \A a \in Answers :
    /\ Ascends(text[a]) /\ Chunks(text[a]) \subseteq 1 .. written[Parent(a)]
    /\ a[2] > answered[Parent(a)] => text[a] = <<>>
    /\ \A b \in Answers :
         Parent(a) = Parent(b) /\ a[2] < b[2] => Before(Chunks(text[a]), Chunks(text[b]))
CountsInv ==
  \A t \in Turns :
    /\ answered[t] = 0 => written[t] = 0
    /\ answered[t] = 1 => Len(text[<<t, 1>>]) = written[t]
                          /\ \A i \in 1 .. written[t] : text[<<t, 1>>][i] = i
    /\ status[t] = "none" => answered[t] = 0 /\ said[t] = <<>>

\* An event is about an answer the server has begun and of its text,
Fits(e) ==
  e.of \in Answers => /\ e.of[2] <= answered[Parent(e.of)]
                      /\ Ascends(e.text) /\ Chunks(e.text) \subseteq Chunks(text[e.of])
\* and is about no earlier answer than the events before it; a delta is new.
Follows(d, e) ==
  d.of \in Answers /\ e.of \in Answers /\ Parent(d.of) = Parent(e.of) =>
    /\ d.of[2] <= e.of[2]
    /\ e.kind = "delta" => Before(Chunks(d.text), Chunks(e.text))

\* The prompt is known as the user's before its text comes.
WireInv ==
  \A i \in 1 .. Len(wire) :
    /\ Fits(wire[i])
    /\ \A j \in 1 .. i - 1 : Follows(wire[j], wire[i])
    /\ wire[i].kind = "userPart" =>
         \/ Parent(wire[i].of) \in users
         \/ \E j \in 1 .. i - 1 : wire[j].kind = "userInfo" /\ wire[j].of = wire[i].of

\* Nothing is heard of an answer before it is begun, nor of a turn.
AnsweredInv ==
  /\ \A a \in Answers :
       a[2] > answered[Parent(a)] => early[a] = <<>> /\ seen[a] = <<>> /\ a \notin conflicts
  /\ \A t \in Turns :
       /\ saw[t] \/ result[t] = "completed" => answered[t] > 0
       /\ \A i \in 1 .. Len(queue[t]) :
            queue[t][i].kind \in {"text", "approval"} => answered[t] > 0
  /\ bound # NoAnswer => early[bound] = <<>>
  /\ current # NoTurn => current \in registered

HeardOf == WritingInv /\ CountsInv /\ WireInv /\ AnsweredInv

\* While a turn completes, what the server read of it for session_messages was then so.
RepliesInv ==
  \A t \in Turns :
    /\ reply[t].state # "none" => status[t] = "completing"
    /\ reply[t].state = "answered" => answered[t] > 0 /\ Ascends(reply[t].text)
    /\ reply[t].state = "unanswered" => ~saw[t]

-----------------------------------------------------------------------------
(* A step of the server.                                                   *)

\* What it sends about the turn it works on.
SentBy(t, s) ==
  \A j \in 1 .. Len(s) :
    /\ s[j] \in RawEvents /\ Parent(s[j].of) = t
    /\ s[j].of \in Answers => /\ s[j].of[2] = answered'[t]
                              /\ Ascends(s[j].text) /\ Chunks(s[j].text) \subseteq Chunks(text'[s[j].of])
    /\ s[j].kind = "delta" => /\ j = 1 /\ s[j].text = <<written'[t]>>
                              /\ written'[t] = written[t] + 1
    /\ s[j].kind = "updated" => s[j].text = text'[s[j].of]
    /\ s[j].kind = "userPart" => j = 2 /\ s[1].kind = "userInfo" /\ s[1].of = s[j].of

\* It begins an answer, adds a chunk to the one it has begun, or neither.
Begins(t) ==
  /\ answered' = [answered EXCEPT ![t] = @ + 1] /\ UNCHANGED <<text, written>>
  /\ answered[t] < MaxAnswers
Writes(t) ==
  LET a == LastAnswer(t) IN
  /\ written' = [written EXCEPT ![t] = @ + 1] /\ UNCHANGED answered
  /\ text' = [text EXCEPT ![a] = Append(@, written[t] + 1)]
  /\ answered[t] > 0 /\ written[t] < MaxChunks
Serves(t) ==
  /\ UNCHANGED <<routerVars, turnVars, stream, interrupted>>
  /\ \/ UNCHANGED <<text, written, answered>>
     \/ Begins(t) /\ status[t] # "none"
     \/ Writes(t)
  /\ \E s \in Seq(RawEvents) :
       /\ SentBy(t, s) /\ wire' = wire \o s
       /\ \/ stream = "up" /\ missed' = missed
          \/ stream # "up" /\ s = <<>> /\ missed' = missed \union {t}
       /\ stream = "up" /\ Writes(t) =>
            1 \in 1 .. Len(s) /\ s[1].kind \in {"delta", "updated"} /\ s[1].of = LastAnswer(t)

\* A chunk is added to the last answer.
LEMMA WritesAdds ==
  ASSUME Inv, WritingInv, NEW t \in Turns, Writes(t)
  PROVE  LET a == LastAnswer(t) IN
         /\ a \in Answers /\ a[2] = answered[t] /\ Parent(a) = t /\ answered' = answered
         /\ written[t] \in Nat /\ written'[t] = written[t] + 1 /\ written'[t] \in 1 .. MaxChunks
         /\ \A u \in Turns : u # t => written'[u] = written[u]
         /\ text'[a] = Append(text[a], written'[t]) /\ text'[a] \in Texts /\ <<written'[t]>> \in Texts
         /\ Ascends(<<written'[t]>>) /\ Chunks(<<written'[t]>>) = {written'[t]}
         /\ Ascends(text'[a]) /\ Chunks(text'[a]) = Chunks(text[a]) \union {written'[t]}
         /\ \A b \in Answers : b # a => text'[b] = text[b]
<1> DEFINE a == LastAnswer(t)
           chunk == written[t] + 1
<1>1. /\ answered[t] \in 0 .. MaxAnswers /\ MaxAnswers \in Nat
      /\ written[t] \in 0 .. MaxChunks /\ MaxChunks \in Nat
  BY OpenCodeAssumption DEF Inv, ServerTypeOK
<1>2. a \in Answers /\ a[2] = answered[t] /\ Parent(a) = t /\ text[a] \in Texts
  <2>1. answered[t] \in 1 .. MaxAnswers
    BY <1>1 DEF Writes
  <2>2. a \in Answers /\ a[2] = answered[t] /\ Parent(a) = t
    BY <2>1 DEF LastAnswer, Answers, Parent
  <2> QED BY <2>2 DEF Inv, ServerTypeOK
<1>3. /\ written' = [written EXCEPT ![t] = chunk] /\ UNCHANGED answered
      /\ text' = [text EXCEPT ![a] = Append(text[a], chunk)]
      /\ chunk \in 1 .. MaxChunks /\ chunk \in 0 .. MaxChunks /\ chunk \in Nat /\ chunk > 0
  BY <1>1 DEF Writes
<1>4. Ascends(text[a]) /\ Chunks(text[a]) \subseteq 1 .. written[t]
  BY <1>2 DEF WritingInv
<1>5. Before(Chunks(text[a]), {chunk})
  BY <1>1, <1>4 DEF Before
<1>6. /\ written'[t] = chunk /\ text'[a] = Append(text[a], chunk)
      /\ \A b \in Answers : b # a => text'[b] = text[b]
      /\ \A u \in Turns : u # t => written'[u] = written[u]
  BY <1>2, <1>3 DEF Inv, ServerTypeOK
<1> HIDE DEF a, chunk
<1>7. <<chunk>> \in Texts /\ Chunks(<<chunk>>) = {chunk} /\ Ascends(<<chunk>>)
  BY <1>3, OneChunk DEF Texts
<1>8. Append(text[a], chunk) = text[a] \o <<chunk>> /\ Append(text[a], chunk) \in Texts
  BY <1>2, <1>3 DEF Texts
<1>9. Chunks(text[a] \o <<chunk>>) = Chunks(text[a]) \union {chunk} /\ Ascends(text[a] \o <<chunk>>)
  BY <1>2, <1>4, <1>5, <1>7, ConcatChunks
<1>10. /\ text'[a] = Append(text[a], written'[t]) /\ text'[a] \in Texts /\ <<written'[t]>> \in Texts
       /\ Ascends(<<written'[t]>>) /\ Chunks(<<written'[t]>>) = {written'[t]}
       /\ Ascends(text'[a]) /\ Chunks(text'[a]) = Chunks(text[a]) \union {written'[t]}
       /\ written'[t] \in 1 .. MaxChunks
  BY <1>3, <1>6, <1>7, <1>8, <1>9
<1>11. written[t] \in Nat /\ written'[t] = written[t] + 1 /\ answered' = answered
  BY <1>1, <1>3, <1>6 DEF chunk
<1> USE DEF a
<1> QED BY <1>2, <1>6, <1>10, <1>11

\* What is sent goes onto the wire, or is missed.
Sends(t, s) ==
  /\ SentBy(t, s) /\ wire' = wire \o s
  /\ \/ stream = "up" /\ missed' = missed
     \/ stream # "up" /\ s = <<>> /\ missed' = missed \union {t}

LEMMA SendSends ==
  ASSUME Inv, NEW t \in Turns, NEW s \in Seq(RawEvents), SentBy(t, s), Send(t, s)
  PROVE  \E u \in Seq(RawEvents) : Sends(t, u) /\ (stream = "up" => u = s)
<1>1. CASE stream = "up"
  BY <1>1 DEF Send, Sends
<1>2. CASE stream # "up"
  <2>1. <<>> \in Seq(RawEvents) /\ SentBy(t, <<>>)
    BY DEF SentBy
  <2>2. wire' = wire \o <<>>
    BY <1>2 DEF Send, Inv, StreamTypeOK
  <2> QED BY <1>2, <2>1, <2>2 DEF Send, Sends
<1> QED BY <1>1, <1>2

\* Prompts are no answers.
LEMMA PromptsAreNoAnswers ==
  ASSUME NEW t \in Turns
  PROVE  Prompt(t) \in Prompts /\ Prompt(t) \notin Answers /\ Parent(Prompt(t)) = t
BY DEF Prompt, Prompts, Answers, Parent

LEMMA EndingSends ==
  ASSUME Inv, NEW t \in Turns, NEW last \in Seq(RawEvents), SentBy(t, last), SendEnding(t, last)
  PROVE  \E s \in Seq(RawEvents) : Sends(t, s)
<1> DEFINE idle == Event("idle", Prompt(t), <<>>)
           error == Event("error", Prompt(t), <<>>)
<1>1. PICK ending \in Endings(t) : Send(t, last \o ending)
  BY DEF SendEnding
<1>2. \A e \in {idle, error} : e \in RawEvents /\ e.of = Prompt(t) /\ e.kind \in {"idle", "error"}
  <2>1. Prompt(t) \in Prompts /\ <<>> \in Texts
    BY DEF Prompts, Texts
  <2> QED BY <2>1, SentEvents DEF Event
<1>3. ending \in {<<idle>>, <<error>>, <<idle, idle>>, <<error, idle>>}
  BY <1>1 DEF Endings
<1> HIDE DEF idle, error
<1>4. ending \in Seq({idle, error})
  <2>1. \A e \in {idle, error} : <<e>> \in Seq({idle, error}) /\ <<e, idle>> \in Seq({idle, error})
    OBVIOUS
  <2>2. PICK e \in {idle, error} : ending = <<e>> \/ ending = <<e, idle>>
    BY <1>3
  <2> QED BY <2>1, <2>2
<1>5. ending \in Seq(RawEvents) /\ Len(ending) \in Nat /\ Len(last) \in Nat
      /\ \A i \in 1 .. Len(ending) : ending[i] \in {idle, error}
  BY <1>2, <1>4, SeqMonotone, ElementOfSeq
<1>6. last \o ending \in Seq(RawEvents) /\ Len(last \o ending) = Len(last) + Len(ending)
      /\ \A j \in 1 .. Len(last) + Len(ending) :
           (last \o ending)[j] = IF j <= Len(last) THEN last[j] ELSE ending[j - Len(last)]
  BY <1>5, ConcatProperties
<1>7. \A j \in 1 .. Len(last \o ending) :
        \/ j \in 1 .. Len(last) /\ (last \o ending)[j] = last[j]
           /\ (j > 1 => (last \o ending)[1] = last[1])
        \/ (last \o ending)[j] \in {idle, error}
  BY <1>5, <1>6
<1>8. SentBy(t, last \o ending)
  <2> SUFFICES ASSUME NEW j \in 1 .. Len(last \o ending)
               PROVE  LET s == last \o ending IN
                      /\ s[j] \in RawEvents /\ Parent(s[j].of) = t
                      /\ s[j].of \in Answers =>
                           /\ s[j].of[2] = answered'[t]
                           /\ Ascends(s[j].text) /\ Chunks(s[j].text) \subseteq Chunks(text'[s[j].of])
                      /\ s[j].kind = "delta" => /\ j = 1 /\ s[j].text = <<written'[t]>>
                                                /\ written'[t] = written[t] + 1
                      /\ s[j].kind = "updated" => s[j].text = text'[s[j].of]
                      /\ s[j].kind = "userPart" =>
                           j = 2 /\ s[1].kind = "userInfo" /\ s[1].of = s[j].of
    BY DEF SentBy
  <2>1. CASE /\ j \in 1 .. Len(last) /\ (last \o ending)[j] = last[j]
             /\ (j > 1 => (last \o ending)[1] = last[1])
    BY <2>1 DEF SentBy
  <2>2. CASE (last \o ending)[j] \in {idle, error}
    BY <1>2, <2>2, PromptsAreNoAnswers
  <2> QED BY <1>7, <2>1, <2>2
<1> QED BY <1>1, <1>6, <1>8, SendSends

\* What is sent at once, of one or two events.
LEMMA SentOne ==
  ASSUME NEW t \in Turns, NEW e \in RawEvents, Parent(e.of) = t,
         e.of \in Answers => /\ e.of[2] = answered'[t]
                             /\ Ascends(e.text) /\ Chunks(e.text) \subseteq Chunks(text'[e.of]),
         e.kind = "delta" => e.text = <<written'[t]>> /\ written'[t] = written[t] + 1,
         e.kind = "updated" => e.text = text'[e.of],
         e.kind # "userPart"
  PROVE  <<e>> \in Seq(RawEvents) /\ SentBy(t, <<e>>)
<1>1. <<e>> \in Seq(RawEvents) /\ Len(<<e>>) = 1 /\ <<e>>[1] = e
  OBVIOUS
<1> QED BY <1>1 DEF SentBy

\* The server's steps have that shape.
LEMMA ServerServes ==
  ASSUME Inv, FreshInv, HeardOf, NEW t \in Turns, ServerNext(t)
  PROVE  Serves(t)
<1>0. /\ Prompt(t) \in Prompts /\ Prompt(t) \notin Answers /\ Parent(Prompt(t)) = t
      /\ <<>> \in Texts /\ <<0>> \in Texts /\ \A n : Parent(<<t, n>>) = t /\ <<t, n>>[2] = n
      /\ answered[t] \in Nat /\ written[t] \in Nat /\ MaxAnswers \in Nat /\ MaxChunks \in Nat
      /\ answered[t] <= MaxAnswers /\ written[t] <= MaxChunks
  <2>1. 0 \in 0 .. MaxChunks /\ MaxAnswers \in Nat /\ MaxChunks \in Nat
    BY OpenCodeAssumption
  <2>2. answered[t] \in 0 .. MaxAnswers /\ written[t] \in 0 .. MaxChunks
    BY DEF Inv, ServerTypeOK
  <2> QED BY <2>1, <2>2, PromptsAreNoAnswers DEF Parent, Texts
<1>a. answered[t] > 0 => LastAnswer(t) \in Answers /\ text[LastAnswer(t)] \in Texts
  <2>1. answered[t] > 0 => LastAnswer(t) \in Answers
    BY <1>0 DEF LastAnswer, Answers
  <2> QED BY <2>1 DEF Inv, ServerTypeOK
<1>b. LastAnswer(t)[2] = answered[t] /\ Parent(LastAnswer(t)) = t
  BY <1>0 DEF LastAnswer
<1>c. WorksOn(t) => status[t] # "none"
  BY HeadTailProperties DEF WorksOn, FreshInv, Started
<1>k. \A kind, m, txt : /\ Event(kind, m, txt).kind = kind /\ Event(kind, m, txt).of = m
                        /\ Event(kind, m, txt).text = txt
  BY DEF Event
<1>n. Ascends(<<>>) /\ Chunks(<<>>) = {}
  BY NoChunks
<1>1. CASE ServerAccepts(t)
  <2> DEFINE s == <<Event("userInfo", Prompt(t), <<>>), Event("userPart", Prompt(t), <<0>>)>>
  <2>1. /\ Event("userInfo", Prompt(t), <<>>) \in RawEvents
        /\ Event("userPart", Prompt(t), <<0>>) \in RawEvents
    BY <1>0, SentEvents
  <2>2. /\ s \in Seq(RawEvents) /\ Len(s) = 2 /\ s[1] = Event("userInfo", Prompt(t), <<>>)
        /\ s[2] = Event("userPart", Prompt(t), <<0>>)
    BY <2>1
  <2> HIDE DEF s
  <2>3. SentBy(t, s)
    <3> SUFFICES ASSUME NEW j \in {1, 2}
                 PROVE  /\ s[j] \in RawEvents /\ Parent(s[j].of) = t /\ s[j].of \notin Answers
                        /\ s[j].kind \in {"userInfo", "userPart"}
                        /\ s[j].kind = "userPart" =>
                             j = 2 /\ s[1].kind = "userInfo" /\ s[1].of = s[j].of
      BY <2>2 DEF SentBy
    <3> QED BY <1>0, <1>k, <2>1, <2>2
  <2>4. Send(t, s)
    BY <1>1 DEF ServerAccepts, s
  <2>5. PICK u \in Seq(RawEvents) : Sends(t, u)
    BY <2>2, <2>3, <2>4, SendSends
  <2>6. /\ UNCHANGED <<routerVars, turnVars, stream, interrupted>>
        /\ UNCHANGED <<text, written, answered>>
    BY <1>1 DEF ServerAccepts, Send
  <2>7. ~Writes(t)
    BY <1>0, <2>6 DEF Writes, Inv, ServerTypeOK
  <2> QED BY <2>5, <2>6, <2>7 DEF Serves, Sends
<1>2. CASE ServerBegins(t)
  <2> DEFINE a == <<t, answered[t] + 1>>
             e == Event("info", a, <<>>)
  <2>1. answered' = [answered EXCEPT ![t] = answered[t] + 1] /\ answered'[t] = answered[t] + 1
    BY <1>2 DEF ServerBegins, Inv, ServerTypeOK
  <2>2. a \in Answers /\ a[2] = answered'[t] /\ Parent(a) = t
    BY <1>0, <1>2, <2>1 DEF ServerBegins, Answers
  <2>3. e \in RawEvents /\ e.of = a /\ e.kind = "info" /\ e.text = <<>>
    BY <1>0, <1>k, <2>2, SentEvents
  <2> HIDE DEF a, e
  <2>4. <<e>> \in Seq(RawEvents) /\ SentBy(t, <<e>>)
    BY <1>n, <2>2, <2>3, SentOne
  <2>5. Send(t, <<e>>)
    BY <1>2 DEF ServerBegins, e, a
  <2>6. PICK u \in Seq(RawEvents) : Sends(t, u)
    BY <2>4, <2>5, SendSends
  <2>7. /\ UNCHANGED <<routerVars, turnVars, stream, interrupted, text, written>>
        /\ answered[t] < MaxAnswers /\ status[t] # "none"
    BY <1>2, <1>c DEF ServerBegins, Send
  <2>8. ~Writes(t)
    BY <1>0, <2>1 DEF Writes
  <2> QED BY <2>1, <2>6, <2>7, <2>8 DEF Serves, Sends, Begins
<1>3. CASE ServerWrites(t)
  <2> DEFINE a == LastAnswer(t)
             chunk == written[t] + 1
  <2>1. PICK e \in {Event("delta", a, <<chunk>>), Event("updated", a, Append(text[a], chunk))} :
          Send(t, <<e>>)
    BY <1>3 DEF ServerWrites
  <2>2. /\ a \in Answers /\ text[a] \in Texts /\ a[2] = answered[t] /\ Parent(a) = t
        /\ chunk \in 1 .. MaxChunks
    BY <1>0, <1>3, <1>a, <1>b DEF ServerWrites
  <2>3. /\ answered[t] > 0 /\ written[t] < MaxChunks
        /\ written' = [written EXCEPT ![t] = chunk] /\ UNCHANGED answered
        /\ text' = [text EXCEPT ![a] = Append(text[a], chunk)]
        /\ UNCHANGED <<routerVars, turnVars, stream, interrupted>>
    BY <1>3 DEF ServerWrites, Send
  <2>4. Writes(t)
    BY <2>3 DEF Writes
  <2>5. written'[t] = written[t] + 1 /\ text'[a] = Append(text[a], chunk) /\ answered'[t] = answered[t]
    BY <2>2, <2>3 DEF Inv, ServerTypeOK
  <2>6. /\ <<chunk>> \in Texts /\ Append(text[a], chunk) \in Texts
        /\ Chunks(<<chunk>>) = {chunk} /\ Ascends(<<chunk>>) /\ Ascends(text'[a])
        /\ Chunks(text'[a]) = Chunks(text[a]) \union {chunk}
    BY <2>4, <2>5, WritesAdds DEF HeardOf
  <2>10. e \in RawEvents
    BY <2>1, <2>2, <2>6, SentEvents
  <2>11. /\ e.of = a /\ e.kind \in {"delta", "updated"}
         /\ e.kind = "delta" => e.text = <<chunk>>
         /\ e.kind = "updated" => e.text = text'[a]
    <3> HIDE DEF a, chunk
    <3>1. CASE e = Event("delta", a, <<chunk>>)
      BY <1>k, <3>1
    <3>2. CASE e = Event("updated", a, Append(text[a], chunk))
      <4>1. /\ e.kind = "updated" /\ e.of = a
            /\ e.text = Append(text[a], chunk)
        BY <3>2, Zenon DEF Event
      <4> QED BY <2>5, <4>1
    <3> QED BY <2>1, <3>1, <3>2
  <2>12. Ascends(e.text) /\ Chunks(e.text) \subseteq Chunks(text'[a])
    BY <2>6, <2>11
  <2>13. <<e>> \in Seq(RawEvents) /\ SentBy(t, <<e>>)
    <3>1. e.kind = "delta" => e.text = <<written'[t]>>
      BY <2>5, <2>11
    <3> HIDE DEF a, chunk
    <3> QED BY <2>2, <2>5, <2>10, <2>11, <2>12, <3>1, SentOne
  <2>14. PICK u \in Seq(RawEvents) : Sends(t, u) /\ (stream = "up" => u = <<e>>)
    BY <2>1, <2>13, SendSends
  <2>15. stream = "up" =>
           1 \in 1 .. Len(u) /\ u[1].kind \in {"delta", "updated"} /\ u[1].of = LastAnswer(t)
    <3>1. 1 \in 1 .. Len(<<e>>) /\ <<e>>[1] = e
      OBVIOUS
    <3> QED BY <2>11, <2>14, <3>1
  <2> QED BY <2>3, <2>4, <2>14, <2>15 DEF Serves, Sends
<1>4. ASSUME NEW what \in {"asked", "question"}, ServerAsks(t, what)
      PROVE  Serves(t)
  <2> DEFINE a == LastAnswer(t)
             e == Event(what, a, <<>>)
  <2>1. /\ a \in Answers /\ a[2] = answered[t] /\ Parent(a) = t
        /\ UNCHANGED <<routerVars, turnVars, stream, interrupted, text, written, answered>>
    BY <1>4, <1>a, <1>b DEF ServerAsks, Send
  <2>2. e \in RawEvents /\ e.of = a /\ e.kind = what /\ e.text = <<>>
    BY <1>0, <1>k, <2>1, SentEvents
  <2>3. Send(t, <<e>>)
    BY <1>4 DEF ServerAsks
  <2> HIDE DEF a, e
  <2>4. <<e>> \in Seq(RawEvents) /\ SentBy(t, <<e>>)
    BY <1>n, <2>1, <2>2, SentOne
  <2>5. PICK u \in Seq(RawEvents) : Sends(t, u)
    BY <2>3, <2>4, SendSends
  <2>6. ~Writes(t)
    BY <1>0, <2>1 DEF Writes, Inv, ServerTypeOK
  <2> QED BY <2>1, <2>5, <2>6 DEF Serves, Sends
<1>5. CASE ServerEnds(t)
  <2> DEFINE a == LastAnswer(t)
             d == Event("updated", a, text[a])
             e == Event("info", a, <<>>)
             s == <<d, e>>
  <2>1. /\ a \in Answers /\ a[2] = answered[t] /\ Parent(a) = t /\ text[a] \in Texts
        /\ UNCHANGED <<routerVars, turnVars, text, written, answered>>
        /\ Ascends(text[a])
    BY <1>5, <1>a, <1>b DEF ServerEnds, HeardOf, WritingInv
  <2>2. /\ d \in RawEvents /\ d.of = a /\ d.kind = "updated" /\ d.text = text[a]
        /\ e \in RawEvents /\ e.of = a /\ e.kind = "info" /\ e.text = <<>>
    BY <1>0, <1>k, <2>1, SentEvents
  <2>3. SendEnding(t, s)
    BY <1>5 DEF ServerEnds
  <2> HIDE DEF a, d, e
  <2>4. s \in Seq(RawEvents) /\ Len(s) = 2 /\ s[1] = d /\ s[2] = e
    BY <2>2
  <2> HIDE DEF s
  <2>5. SentBy(t, s)
    <3> SUFFICES ASSUME NEW j \in {1, 2}
                 PROVE  /\ s[j] \in RawEvents /\ s[j].of = a /\ Ascends(s[j].text)
                        /\ Chunks(s[j].text) \subseteq Chunks(text[a])
                        /\ s[j].kind \in {"updated", "info"}
                        /\ s[j].kind = "updated" => s[j].text = text[a]
      BY <2>1, <2>4 DEF SentBy
    <3> QED BY <1>n, <2>1, <2>2, <2>4
  <2>6. PICK u \in Seq(RawEvents) : Sends(t, u)
    BY <2>3, <2>4, <2>5, EndingSends
  <2>7. ~Writes(t)
    BY <1>0, <2>1 DEF Writes, Inv, ServerTypeOK
  <2>8. UNCHANGED <<stream, interrupted>>
    BY <2>3 DEF SendEnding, Send
  <2> QED BY <2>1, <2>6, <2>7, <2>8 DEF Serves, Sends
<1> QED BY <1>1, <1>2, <1>3, <1>4, <1>5 DEF ServerNext

LEMMA AbortServes ==
  ASSUME Inv, FreshInv, HeardOf, ServerAborts
  PROVE  \/ UNCHANGED <<routerVars, turnVars, stream, wire, interrupted, missed, text, written, answered>>
         \/ \E t \in Turns : Serves(t)
<1>1. UNCHANGED <<routerVars, turnVars, text, written, answered>>
  BY DEF ServerAborts
<1>2. CASE todo = <<>>
  BY <1>1, <1>2 DEF ServerAborts, streamVars, history
<1>3. CASE todo # <<>>
  <2>1. Head(todo) \in Turns /\ SendEnding(Head(todo), <<>>)
    BY <1>3, HeadTailProperties DEF ServerAborts, Inv, ServerTypeOK
  <2>2. <<>> \in Seq(RawEvents) /\ SentBy(Head(todo), <<>>)
    BY DEF SentBy
  <2>3. PICK u \in Seq(RawEvents) : Sends(Head(todo), u)
    BY <2>1, <2>2, EndingSends
  <2>4. ~Writes(Head(todo))
    <3>1. written[Head(todo)] \in Nat /\ written \in [Turns -> 0 .. MaxChunks]
      BY <2>1, OpenCodeAssumption DEF Inv, ServerTypeOK
    <3> QED BY <1>1, <2>1, <3>1 DEF Writes
  <2>5. UNCHANGED <<stream, interrupted>>
    BY <2>1 DEF SendEnding, Send
  <2> QED BY <1>1, <2>1, <2>3, <2>4, <2>5 DEF Serves, Sends
<1> QED BY <1>2, <1>3

\* The server's counts are numbers.
LEMMA CountsAreNumbers ==
  /\ Inv => \A u \in Turns : answered[u] \in Nat /\ written[u] \in Nat /\ answered[u] <= MaxAnswers
  /\ Inv' => \A u \in Turns : answered'[u] \in Nat /\ written'[u] \in Nat
  /\ MaxAnswers \in Nat /\ MaxChunks \in Nat
  /\ \A a \in Answers : Parent(a) \in Turns /\ a[2] \in Nat /\ a[2] > 0
<1>1. MaxAnswers \in Nat /\ MaxChunks \in Nat
  BY OpenCodeAssumption
<1>2. ASSUME Inv, NEW u \in Turns PROVE answered[u] \in Nat /\ written[u] \in Nat /\ answered[u] <= MaxAnswers
  <2>1. answered[u] \in 0 .. MaxAnswers /\ written[u] \in 0 .. MaxChunks
    BY <1>2 DEF Inv, ServerTypeOK
  <2> QED BY <1>1, <2>1
<1>3. ASSUME Inv', NEW u \in Turns PROVE answered'[u] \in Nat /\ written'[u] \in Nat
  <2>1. answered'[u] \in 0 .. MaxAnswers /\ written'[u] \in 0 .. MaxChunks
    BY <1>3 DEF Inv, ServerTypeOK
  <2> QED BY <1>1, <2>1
<1>4. \A a \in Answers : Parent(a) \in Turns /\ a[2] \in Nat /\ a[2] > 0
  BY <1>1 DEF Answers, Parent
<1> QED BY <1>1, <1>2, <1>3, <1>4

\* What the server has written stays.
LEMMA ServesGrows ==
  ASSUME Inv, Inv', WritingInv, NEW t \in Turns, Serves(t)
  PROVE  /\ \A a \in Answers : Chunks(text[a]) \subseteq Chunks(text'[a])
         /\ \A u \in Turns : /\ answered[u] \in Nat /\ answered'[u] \in Nat /\ answered[u] <= answered'[u]
                             /\ written[u] \in Nat /\ written'[u] \in Nat /\ written[u] <= written'[u]
                             /\ u # t => answered'[u] = answered[u] /\ written'[u] = written[u]
<1>1. \A u \in Turns : /\ answered[u] \in Nat /\ answered'[u] \in Nat
                       /\ written[u] \in Nat /\ written'[u] \in Nat
  BY CountsAreNumbers
<1>2. CASE UNCHANGED <<text, written, answered>>
  BY <1>1, <1>2
<1>3. CASE Begins(t)
  <2>1. /\ answered'[t] = answered[t] + 1 /\ \A u \in Turns : u # t => answered'[u] = answered[u]
        /\ UNCHANGED <<text, written>>
    BY <1>3 DEF Begins, Inv, ServerTypeOK
  <2>2. answered[t] <= answered'[t] /\ \A u \in Turns : written[u] <= written'[u] /\ written'[u] = written[u]
    BY <1>1, <2>1
  <2>3. \A u \in Turns : answered[u] <= answered'[u]
    <3> TAKE u \in Turns
    <3> QED BY <1>1, <2>1, <2>2
  <2>4. text' = text
    BY <2>1
  <2>5. \A a \in Answers : Chunks(text[a]) \subseteq Chunks(text'[a])
    BY <2>4, Zenon
  <2>6. ASSUME NEW u \in Turns
        PROVE  /\ answered[u] \in Nat /\ answered'[u] \in Nat /\ answered[u] <= answered'[u]
               /\ written[u] \in Nat /\ written'[u] \in Nat /\ written[u] <= written'[u]
               /\ u # t => answered'[u] = answered[u] /\ written'[u] = written[u]
    <3>1. answered[u] \in Nat /\ answered'[u] \in Nat /\ written[u] \in Nat /\ written'[u] \in Nat
      BY <1>1, <2>6
    <3>2. answered[u] <= answered'[u] /\ written[u] <= written'[u] /\ written'[u] = written[u]
      BY <2>2, <2>3, <2>6
    <3>3. u # t => answered'[u] = answered[u]
      BY <2>1, <2>6
    <3> QED BY <3>1, <3>2, <3>3
  <2> QED BY <2>5, <2>6
<1>4. CASE Writes(t)
  <2> DEFINE a == LastAnswer(t)
  <2>1. /\ answered' = answered /\ written'[t] = written[t] + 1
        /\ \A u \in Turns : u # t => written'[u] = written[u]
        /\ Chunks(text'[a]) = Chunks(text[a]) \union {written'[t]}
        /\ \A b \in Answers : b # a => text'[b] = text[b]
    BY <1>4, WritesAdds
  <2> HIDE DEF a
  <2>2. \A b \in Answers : Chunks(text[b]) \subseteq Chunks(text'[b])
    <3> TAKE b \in Answers
    <3>1. CASE b = a
      BY <2>1, <3>1
    <3>2. CASE b # a
      BY <2>1, <3>2, Zenon
    <3> QED BY <3>1, <3>2
  <2>3. \A u \in Turns : written[u] <= written'[u]
    BY <1>1, <2>1
  <2> QED BY <1>1, <2>1, <2>2, <2>3
<1> QED BY <1>2, <1>3, <1>4 DEF Serves

LEMMA ServesKeepsWriting ==
  ASSUME Inv, Inv', WritingInv, CountsInv, NEW t \in Turns, Serves(t)
  PROVE  WritingInv' /\ CountsInv'
<1>0. /\ UNCHANGED <<status, said>>
      /\ \A u \in Turns : /\ answered[u] \in Nat /\ answered'[u] \in Nat
                          /\ written[u] \in Nat /\ written'[u] \in Nat
      /\ \A a \in Answers : Parent(a) \in Turns /\ a[2] \in Nat
  BY CountsAreNumbers DEF Serves, turnVars
<1>1. CASE UNCHANGED <<text, written, answered>>
  BY <1>0, <1>1 DEF WritingInv, CountsInv
<1>2. CASE Begins(t) /\ status[t] # "none"
  <2>1. /\ answered'[t] = answered[t] + 1 /\ \A u \in Turns : u # t => answered'[u] = answered[u]
        /\ UNCHANGED <<text, written>> /\ answered[t] < MaxAnswers /\ status'[t] # "none"
    BY <1>0, <1>2 DEF Begins, Inv, ServerTypeOK
  <2>2. \A a \in Answers : a[2] > answered'[Parent(a)] => a[2] > answered[Parent(a)]
    BY <1>0, <2>1
  <2>3. answered'[t] = 1 => Len(text[<<t, 1>>]) = 0 /\ written[t] = 0
    <3> SUFFICES ASSUME answered[t] = 0 PROVE text[<<t, 1>>] = <<>> /\ written[t] = 0
      BY <1>0, <2>1
    <3>1. <<t, 1>> \in Answers /\ <<t, 1>>[2] = 1 /\ Parent(<<t, 1>>) = t
      BY <2>1, OpenCodeAssumption DEF Answers, Parent
    <3> QED BY <3>1 DEF WritingInv, CountsInv
  <2>4. \A u \in Turns :
          /\ answered'[u] = 0 => written'[u] = 0
          /\ answered'[u] = 1 => Len(text'[<<u, 1>>]) = written'[u]
                                 /\ \A i \in 1 .. written'[u] : text'[<<u, 1>>][i] = i
          /\ status'[u] = "none" => answered'[u] = 0 /\ said'[u] = <<>>
    <3> TAKE u \in Turns
    <3>1. CASE u = t
      <4>1. answered'[t] # 0 /\ status'[t] # "none"
        BY <1>0, <2>1
      <4>2. answered'[t] = 1 => Len(text'[<<t, 1>>]) = written'[t]
                                /\ \A i \in 1 .. written'[t] : text'[<<t, 1>>][i] = i
        <5>1. text' = text /\ written' = written
          BY <2>1
        <5> SUFFICES ASSUME answered'[t] = 1
                     PROVE  Len(text[<<t, 1>>]) = written[t]
                            /\ \A i \in 1 .. written[t] : text[<<t, 1>>][i] = i
          BY <5>1
        <5>2. Len(text[<<t, 1>>]) = written[t] /\ written[t] = 0
          BY <2>3
        <5>3. 1 .. written[t] = {}
          BY <5>2
        <5> QED BY <5>2, <5>3
      <4> QED BY <3>1, <4>1, <4>2
    <3>2. CASE u # t
      BY <1>0, <2>1, <3>2 DEF CountsInv
    <3> QED BY <3>1, <3>2
  <2> QED BY <2>1, <2>2, <2>4 DEF WritingInv, CountsInv
<1>3. CASE Writes(t)
  <2> DEFINE a == LastAnswer(t)
  <2>1. /\ a \in Answers /\ a[2] = answered[t] /\ Parent(a) = t /\ answered' = answered
        /\ written'[t] = written[t] + 1 /\ \A u \in Turns : u # t => written'[u] = written[u]
        /\ text'[a] = Append(text[a], written'[t])
        /\ Ascends(text'[a]) /\ Chunks(text'[a]) = Chunks(text[a]) \union {written'[t]}
        /\ \A b \in Answers : b # a => text'[b] = text[b]
    BY <1>3, WritesAdds
  <2>p. answered[t] > 0
    BY <1>3 DEF Writes
  <2>e. a = <<t, answered[t]>>
    BY DEF LastAnswer
  <2>s. text[a] \in Seq(0 .. MaxChunks)
    BY <2>1 DEF Inv, ServerTypeOK, Texts
  <2> HIDE DEF a
  <2>2. \A b \in Answers : /\ Ascends(text[b]) /\ Chunks(text[b]) \subseteq 1 .. written[Parent(b)]
                           /\ b[2] > answered[Parent(b)] => text[b] = <<>>
                           /\ b # a /\ Parent(b) = t => b[2] # answered[t]
    BY <2>e DEF WritingInv, Answers, Parent
  <2>3. \A b \in Answers : /\ Ascends(text'[b]) /\ Chunks(text'[b]) \subseteq 1 .. written'[Parent(b)]
                           /\ b[2] > answered'[Parent(b)] => text'[b] = <<>>
    <3> SUFFICES ASSUME NEW b \in Answers
                 PROVE  /\ Ascends(text'[b]) /\ Chunks(text'[b]) \subseteq 1 .. written'[Parent(b)]
                        /\ b[2] > answered[Parent(b)] => text'[b] = <<>>
      BY <2>1
    <3>0. 1 .. written[Parent(b)] \subseteq 1 .. written'[Parent(b)]
      <4>1. Parent(b) \in Turns
        BY <1>0
      <4> QED BY <1>0, <2>1, <4>1
    <3>1. CASE b = a
      <4>1. written'[t] \in 1 .. written'[t]
        BY <1>0, <2>1
      <4>2. Chunks(text'[a]) \subseteq 1 .. written'[t]
        BY <2>1, <2>2, <3>0, <3>1, <4>1
      <4>3. ~(a[2] > answered[Parent(a)])
        BY <1>0, <2>1
      <4> QED BY <2>1, <3>1, <4>2, <4>3
    <3>2. CASE b # a
      BY <2>1, <2>2, <3>0, <3>2
    <3> QED BY <3>1, <3>2
  <2>4. ASSUME NEW b \in Answers, NEW c \in Answers, Parent(b) = Parent(c), b[2] < c[2]
        PROVE  Before(Chunks(text'[b]), Chunks(text'[c]))
    <3>1. Before(Chunks(text[b]), Chunks(text[c]))
      BY <2>4 DEF WritingInv
    <3>2. CASE b = a
      <4>1. c # a /\ text[c] = <<>>
        BY <1>0, <2>1, <2>2, <2>4, <3>2
      <4> QED BY <2>1, <4>1, NoChunks DEF Before
    <3>3. CASE c = a /\ b # a
      <4>1. Before(Chunks(text[b]), {written'[t]})
        <5>1. Chunks(text[b]) \subseteq 1 .. written[t]
          BY <2>1, <2>2, <2>4, <3>3
        <5> QED BY <1>0, <2>1, <5>1 DEF Before
      <4> QED BY <2>1, <3>1, <3>3, <4>1 DEF Before
    <3>4. CASE c # a /\ b # a
      BY <2>1, <3>1, <3>4
    <3> QED BY <3>2, <3>3, <3>4
  <2>5. answered[t] = 1 => Len(text'[<<t, 1>>]) = written'[t]
                           /\ \A i \in 1 .. written'[t] : text'[<<t, 1>>][i] = i
    <3> SUFFICES ASSUME answered[t] = 1
                 PROVE  Len(text'[a]) = written'[t] /\ \A i \in 1 .. written'[t] : text'[a][i] = i
      BY <2>e
    <3>1. Len(text[a]) = written[t] /\ \A i \in 1 .. written[t] : text[a][i] = i
      BY <2>e DEF CountsInv
    <3>2. /\ Len(Append(text[a], written'[t])) = Len(text[a]) + 1
          /\ \A i \in 1 .. Len(text[a]) + 1 :
               Append(text[a], written'[t])[i] = IF i <= Len(text[a]) THEN text[a][i] ELSE written'[t]
      BY <2>s
    <3> QED BY <1>0, <2>1, <3>1, <3>2
  <2>6. \A u \in Turns :
          /\ answered'[u] = 0 => written'[u] = 0
          /\ answered'[u] = 1 => Len(text'[<<u, 1>>]) = written'[u]
                                 /\ \A i \in 1 .. written'[u] : text'[<<u, 1>>][i] = i
          /\ status'[u] = "none" => answered'[u] = 0 /\ said'[u] = <<>>
    <3> SUFFICES ASSUME NEW u \in Turns
                 PROVE  /\ answered[u] = 0 => written'[u] = 0
                        /\ answered[u] = 1 => Len(text'[<<u, 1>>]) = written'[u]
                                              /\ \A i \in 1 .. written'[u] : text'[<<u, 1>>][i] = i
                        /\ status[u] = "none" => answered[u] = 0 /\ said[u] = <<>>
      BY <1>0, <2>1
    <3>1. CASE u = t
      <4>1. answered[t] # 0
        <5>1. answered[t] \in Nat
          BY <1>0
        <5> QED BY <2>p, <5>1
      <4>2. status[t] = "none" => answered[t] = 0 /\ said[t] = <<>>
        BY DEF CountsInv
      <4> QED BY <2>5, <3>1, <4>1, <4>2
    <3>2. CASE u # t
      <4>1. <<u, 1>> # a /\ (answered[u] = 1 => <<u, 1>> \in Answers)
        <5>1. answered[u] \in 0 .. MaxAnswers /\ MaxAnswers \in Nat
          BY OpenCodeAssumption DEF Inv, ServerTypeOK
        <5> QED BY <2>e, <3>2, <5>1 DEF Answers
      <4> QED BY <2>1, <3>2, <4>1 DEF CountsInv
    <3> QED BY <3>1, <3>2
  <2>7. \A b \in Answers : \A c \in Answers :
          Parent(b) = Parent(c) /\ b[2] < c[2] => Before(Chunks(text'[b]), Chunks(text'[c]))
    BY <2>4
  <2> QED BY <2>3, <2>6, <2>7 DEF WritingInv, CountsInv
<1> QED BY <1>1, <1>2, <1>3 DEF Serves

-----------------------------------------------------------------------------
(* A step of the listener.                                                 *)

\* The new text the handler finds in an event of an answer.
NewText(e) ==
  IF e.kind = "delta" THEN e.text
  ELSE IF e.kind = "updated" /\ e.of \notin conflicts /\ IsStartOf(seen[e.of], e.text)
         THEN After(seen[e.of], e.text)
         ELSE <<>>

\* What is early of an answer becomes new, or new goes into the turn's queue.
Moves(a, new) ==
  \/ /\ UNCHANGED <<queue, bound>>
     /\ early' = [early EXCEPT ![a] = new]
     /\ new = early[a] \/ bound # a
  \/ /\ HasActiveQueue /\ current = Parent(a)
     /\ queue' = [queue EXCEPT ![current] = @ \o new]
     /\ early' = [early EXCEPT ![a] = <<>>] /\ bound' = a

\* What the handler remembers of an answer's text.
Remembers(e) ==
  LET a == e.of IN
  \/ e.kind = "delta" /\ a \notin conflicts /\ conflicts' = conflicts
     /\ seen' = [seen EXCEPT ![a] = @ \o e.text]
  \/ e.kind = "delta" /\ a \in conflicts /\ UNCHANGED <<seen, conflicts>>
  \/ e.kind = "updated" /\ a \notin conflicts /\ IsStartOf(seen[a], e.text)
     /\ conflicts' = conflicts /\ seen' = [seen EXCEPT ![a] = e.text]
  \/ e.kind = "updated" /\ ~(a \notin conflicts /\ IsStartOf(seen[a], e.text))
     /\ conflicts' = conflicts \union {a} /\ seen' = [seen EXCEPT ![a] = e.text]
  \/ e.kind \notin {"delta", "updated"} /\ UNCHANGED <<seen, conflicts>>

\* The events that end a turn have no text.
Worded == {ev \in AgentEvents : ev.kind \in {"completed", "failed"} => ev.text = <<>>}
Closings == {ev \in Worded : ev.kind \in {"completed", "failed"}}

Adds(e, new) ==
  \/ new = early[e.of] /\ NewText(e) = <<>>
  \/ \E ev \in Worded : ev.text = NewText(e) /\ new = Append(early[e.of], ev)

HearsAnswer(e) ==
  /\ e.of \in Answers /\ UNCHANGED users
  /\ \E new \in Seq(AgentEvents) : Adds(e, new) /\ Moves(e.of, new)
  /\ Remembers(e)

HearsPrompt(e) ==
  /\ e.of \in Prompts /\ UNCHANGED <<early, bound, seen, conflicts>>
  /\ users' = IF e.kind = "userInfo" THEN users \union {Parent(e.of)} ELSE users
  /\ \/ UNCHANGED queue
     \/ \E ev \in Closings :
          HasActiveQueue /\ queue' = [queue EXCEPT ![current] = Append(@, ev)]

LEMMA PutBoundMoves ==
  ASSUME Inv, AnsweredInv, NEW a \in Answers, NEW ev \in Worded, PutBound(a, ev)
  PROVE  Append(early[a], ev) \in Seq(AgentEvents) /\ Moves(a, Append(early[a], ev))
<1>0. early \in [Answers -> Seq(AgentEvents)] /\ early[a] \in Seq(AgentEvents) /\ a # NoAnswer
  BY AnswersHaveParents DEF Inv, RouterInv, RouterTypeOK
<1>1. Append(early[a], ev) \in Seq(AgentEvents)
  BY <1>0 DEF Worded
<1>2. bound = a => current = Parent(a) /\ HasActiveQueue /\ early[a] = <<>>
  <2> SUFFICES ASSUME bound = a PROVE current = Parent(a) /\ HasActiveQueue /\ early[a] = <<>>
    OBVIOUS
  <2>1. current = Parent(a) /\ early[a] = <<>>
    BY <1>0 DEF Inv, RouterInv, BoundToCurrent, AnsweredInv
  <2>2. current # NoTurn
    BY <2>1, AnswersHaveParents DEF NoTurn, Turns
  <2> QED BY <2>1, <2>2 DEF AnsweredInv, HasActiveQueue
<1>3. CASE IsBound(a) /\ Put(current, <<ev>>) /\ UNCHANGED <<bound, early>>
  <2>1. bound = a /\ early[a] = <<>> /\ current = Parent(a) /\ HasActiveQueue
    BY <1>2, <1>3 DEF IsBound
  <2>2. Append(early[a], ev) = <<ev>>
    BY <2>1
  <2>3. early' = [early EXCEPT ![a] = <<>>]
    BY <1>0, <1>3, <2>1
  <2>4. queue' = [queue EXCEPT ![current] = @ \o Append(early[a], ev)] /\ bound' = a
    BY <1>3, <2>1, <2>2 DEF Put
  <2> QED BY <1>1, <2>1, <2>3, <2>4 DEF Moves
<1>4. CASE Binds(a) /\ Put(current, Append(early[a], ev)) /\ bound' = a
           /\ early' = [early EXCEPT ![a] = <<>>]
  BY <1>1, <1>4 DEF Binds, Put, Moves
<1>5. CASE ~IsBound(a) /\ ~Binds(a) /\ early' = [early EXCEPT ![a] = Append(@, ev)]
           /\ UNCHANGED <<queue, bound>>
  <2>1. bound # a
    BY <1>2, <1>5 DEF IsBound
  <2> QED BY <1>1, <1>5, <2>1 DEF Moves
<1> QED BY <1>3, <1>4, <1>5 DEF PutBound

\* Nothing happens to an answer's events.
LEMMA NothingMoves ==
  ASSUME Inv, NEW a \in Answers, UNCHANGED <<queue, bound, early>>
  PROVE  early[a] \in Seq(AgentEvents) /\ Moves(a, early[a])
<1>1. early \in [Answers -> Seq(AgentEvents)]
  BY DEF Inv, RouterInv, RouterTypeOK
<1>2. early[a] \in Seq(AgentEvents) /\ early' = [early EXCEPT ![a] = early[a]]
  BY <1>1
<1> QED BY <1>2 DEF Moves

LEMMA EventFields ==
  \A kind, m, txt : /\ Event(kind, m, txt).kind = kind /\ Event(kind, m, txt).of = m
                    /\ Event(kind, m, txt).text = txt
BY DEF Event

LEMMA AnswersAreHeard ==
  ASSUME Inv, AnsweredInv, NEW e \in RawEvents, e.of \in Answers, handle_event(e)
  PROVE  HearsAnswer(e)
<1> DEFINE a == e.of
<1>0. /\ e.text \in Texts /\ <<>> \in Texts /\ e.of \notin Prompts
      /\ seen \in [Answers -> Texts] /\ seen[a] \in Texts
  <2>1. e.of \notin Prompts
    BY PromptsHaveParents, PromptsAreNoAnswers
  <2> QED BY <2>1, RawEventKinds, TextsClosed DEF Inv, RouterInv, RouterTypeOK
<1>1. e.kind \notin {"userInfo", "userPart", "idle", "error"}
  BY <1>0, RawEventKinds
<1>k. \A txt \in Texts, kind \in {"text", "approval", "failed"} :
        /\ Event(kind, a, txt).text = txt
        /\ kind # "failed" \/ txt = <<>> => Event(kind, a, txt) \in Worded
  <2>1. \A txt \in Texts, kind \in {"text", "approval", "failed"} : Event(kind, a, txt) \in AgentEvents
    BY EventIsOwn DEF Own
  <2> QED BY <2>1, EventFields DEF Worded
<1>2. CASE e.kind = "info" /\ HandleInfo(e)
  <2>1. NewText(e) = <<>> /\ Remembers(e) /\ UNCHANGED users
    BY <1>2 DEF NewText, HandleInfo, Remembers
  <2>2. early[a] \in Seq(AgentEvents) /\ Moves(a, early[a])
    <3>1. CASE HasActiveQueue /\ current = Parent(e.of)
      BY <1>2, <3>1 DEF HandleInfo, Moves, Put, Inv, RouterInv, RouterTypeOK
    <3>2. CASE ~(HasActiveQueue /\ current = Parent(e.of))
      BY <1>2, <3>2, NothingMoves DEF HandleInfo
    <3> QED BY <3>1, <3>2
  <2> QED BY <2>1, <2>2 DEF HearsAnswer, Adds
<1>3. CASE e.kind = "delta" /\ HandleDelta(e)
  <2>1. NewText(e) = e.text /\ UNCHANGED users
    BY <1>3 DEF NewText, HandleDelta
  <2>2. Remembers(e)
    <3>1. seen' = [seen EXCEPT ![a] = IF a \in conflicts THEN seen[a] ELSE seen[a] \o e.text]
          /\ conflicts' = conflicts
      BY <1>3 DEF HandleDelta
    <3>2. CASE a \in conflicts
      BY <1>0, <1>3, <3>1, <3>2 DEF Remembers
    <3>3. CASE a \notin conflicts
      BY <1>0, <1>3, <3>1, <3>3 DEF Remembers
    <3> QED BY <3>2, <3>3
  <2>3. PutBound(a, Event("text", a, e.text))
    BY <1>3 DEF HandleDelta
  <2>4. PICK ev \in Worded : ev.text = e.text /\ PutBound(a, ev)
    BY <1>0, <1>k, <2>3
  <2>5. Append(early[a], ev) \in Seq(AgentEvents) /\ Moves(a, Append(early[a], ev))
    BY <2>4, PutBoundMoves
  <2> QED BY <2>1, <2>2, <2>4, <2>5 DEF HearsAnswer, Adds
<1>4. CASE e.kind = "updated" /\ HandleUpdated(e)
  <2> DEFINE extends == a \notin conflicts /\ IsStartOf(seen[a], e.text)
             new == IF extends THEN After(seen[a], e.text) ELSE <<>>
  <2>1. /\ NewText(e) = new /\ UNCHANGED users /\ seen' = [seen EXCEPT ![a] = e.text]
        /\ conflicts' = IF extends THEN conflicts ELSE conflicts \union {a}
        /\ IF new = <<>> THEN UNCHANGED <<queue, bound, early>>
                         ELSE PutBound(a, Event("text", a, new))
    BY <1>4 DEF NewText, HandleUpdated
  <2>2. Remembers(e)
    BY <1>4, <2>1 DEF Remembers
  <2>3. new \in Texts
    BY <1>0, TextsClosed
  <2> HIDE DEF new, extends
  <2>4. CASE new = <<>>
    BY <2>1, <2>2, <2>4, NothingMoves DEF HearsAnswer, Adds
  <2>5. CASE new # <<>>
    <3>1. PICK ev \in Worded : ev.text = new /\ PutBound(a, ev)
      BY <1>k, <2>1, <2>3, <2>5
    <3>2. Append(early[a], ev) \in Seq(AgentEvents) /\ Moves(a, Append(early[a], ev))
      BY <3>1, PutBoundMoves
    <3> QED BY <2>1, <2>2, <3>1, <3>2 DEF HearsAnswer, Adds
  <2> QED BY <2>4, <2>5
<1>5. CASE e.kind \in {"asked", "question"}
           /\ (PutBound(a, Event("approval", a, <<>>)) \/ PutBound(a, Event("failed", a, <<>>)))
           /\ UNCHANGED <<users, seen, conflicts>>
  <2>1. NewText(e) = <<>> /\ Remembers(e)
    BY <1>5 DEF NewText, Remembers
  <2>2. PICK ev \in Worded : ev.text = <<>> /\ PutBound(a, ev)
    BY <1>0, <1>k, <1>5
  <2>3. Append(early[a], ev) \in Seq(AgentEvents) /\ Moves(a, Append(early[a], ev))
    BY <2>2, PutBoundMoves
  <2> QED BY <1>5, <2>1, <2>2, <2>3 DEF HearsAnswer, Adds
<1>6. CASE e.kind \in {"asked", "question"} /\ UNCHANGED <<queue, bound, early>>
           /\ UNCHANGED <<users, seen, conflicts>>
  <2>1. NewText(e) = <<>> /\ Remembers(e)
    BY <1>6 DEF NewText, Remembers
  <2> QED BY <1>6, <2>1, NothingMoves DEF HearsAnswer, Adds
<1>7. CASE e.kind = "asked" /\ HandleAsked(e)
  BY <1>5, <1>6, <1>7 DEF HandleAsked
<1>8. CASE e.kind = "question" /\ HandleQuestion(e)
  BY <1>5, <1>6, <1>8 DEF HandleQuestion
<1> QED BY <1>1, <1>2, <1>3, <1>4, <1>7, <1>8 DEF handle_event

LEMMA PromptsAreHeard ==
  ASSUME Inv, NEW e \in RawEvents, e.of \in Prompts, handle_event(e),
         e.kind = "userPart" => Parent(e.of) \in users
  PROVE  HearsPrompt(e)
<1>0. e.kind \notin {"info", "delta", "updated", "asked", "question"} /\ <<>> \in Texts
  BY RawEventKinds, PromptsHaveParents, PromptsAreNoAnswers, TextsClosed
<1>1. CASE e.kind = "userInfo" /\ HandleUserInfo(e)
  BY <1>1 DEF HandleUserInfo, HearsPrompt
<1>2. CASE e.kind = "userPart" /\ HandleUserPart(e)
  BY <1>2 DEF HandleUserPart, HearsPrompt
<1>3. CASE e.kind \in {"idle", "error"} /\ HandleEnd(e)
  <2>1. PICK kind \in {"completed", "failed"} : PutActive(Event(kind, e.of, <<>>))
    BY <1>3 DEF HandleEnd
  <2>2. Event(kind, e.of, <<>>) \in Closings
    BY <1>0, EventIsOwn, EventFields DEF Own, Closings, Worded
  <2>3. PICK ev \in Closings : PutActive(ev)
    BY <2>1, <2>2
  <2>4. HasActiveQueue => queue' = [queue EXCEPT ![current] = Append(@, ev)]
    <3> SUFFICES ASSUME HasActiveQueue PROVE queue' = [queue EXCEPT ![current] = Append(@, ev)]
      OBVIOUS
    <3>1. current \in Turns
      BY ActiveIsTurn DEF Inv
    <3>2. queue[current] \o <<ev>> = Append(queue[current], ev)
      BY <3>1 DEF Inv, RouterInv, RouterTypeOK, Closings, Worded
    <3> QED BY <2>3, <3>2 DEF PutActive, Put
  <2>5. UNCHANGED <<early, bound, seen, conflicts, users>> /\ (~HasActiveQueue => UNCHANGED queue)
    BY <1>3, <2>3 DEF HandleEnd, PutActive
  <2> QED BY <1>3, <2>4, <2>5 DEF HearsPrompt
<1> QED BY <1>0, <1>1, <1>2, <1>3 DEF handle_event

\* What the listener does with the next event.
LEMMA ListenHears ==
  ASSUME Inv, HeardOf, Listen
  PROVE  LET e == Head(wire) IN
         /\ e \in RawEvents /\ e = wire[1] /\ 1 \in 1 .. Len(wire) /\ Fits(e)
         /\ HearsAnswer(e) \/ HearsPrompt(e)
         /\ wire' = Tail(wire) /\ stream = "up"
         /\ UNCHANGED <<registered, current, turnVars, stream, serverVars, history>>
<1> DEFINE e == Head(wire)
<1>1. /\ e \in RawEvents /\ e = wire[1] /\ 1 \in 1 .. Len(wire)
      /\ wire' = Tail(wire) /\ stream = "up" /\ handle_event(e)
      /\ UNCHANGED <<registered, current, turnVars, stream, serverVars, history>>
  BY HeadTailProperties DEF Listen, Inv, StreamTypeOK
<1>2. Fits(e) /\ (e.kind = "userPart" => Parent(e.of) \in users)
  <2>1. 1 .. 1 - 1 = {}
    OBVIOUS
  <2> QED BY <1>1, <2>1 DEF HeardOf, WireInv
<1> HIDE DEF e
<1>3. HearsAnswer(e) \/ HearsPrompt(e)
  <2>1. e.of \in Answers \/ e.of \in Prompts
    BY <1>1, RawEventKinds
  <2> QED BY <1>1, <1>2, <2>1, AnswersAreHeard, PromptsAreHeard DEF HeardOf
<1> QED BY <1>1, <1>2, <1>3 DEF e

-----------------------------------------------------------------------------
(* HeardOf holds.                                                          *)

\* What the server sends keeps the wire in order.
LEMMA ServesKeepsWire ==
  ASSUME Inv, Inv', HeardOf, NEW t \in Turns, Serves(t)
  PROVE  WireInv'
<1>1. PICK s \in Seq(RawEvents) : SentBy(t, s) /\ wire' = wire \o s
  BY DEF Serves
<1>2. /\ Len(wire) \in Nat /\ Len(s) \in Nat /\ Len(wire') = Len(wire) + Len(s)
      /\ \A i \in 1 .. Len(wire) : i \in 1 .. Len(wire') /\ wire'[i] = wire[i]
      /\ \A i \in 1 .. Len(s) : i + Len(wire) \in 1 .. Len(wire') /\ wire'[i + Len(wire)] = s[i]
      /\ \A i \in 1 .. Len(wire') :
           i \in 1 .. Len(wire) \/ (i - Len(wire) \in 1 .. Len(s) /\ wire'[i] = s[i - Len(wire)])
  <2>1. wire \in Seq(RawEvents)
    BY DEF Inv, StreamTypeOK
  <2>2. /\ Len(wire) \in Nat /\ Len(s) \in Nat /\ Len(wire \o s) = Len(wire) + Len(s)
        /\ \A i \in 1 .. Len(wire) + Len(s) :
             (wire \o s)[i] = IF i <= Len(wire) THEN wire[i] ELSE s[i - Len(wire)]
    BY <2>1, ConcatProperties
  <2> QED BY <1>1, <2>2
<1>3. /\ \A a \in Answers : Chunks(text[a]) \subseteq Chunks(text'[a])
      /\ \A u \in Turns : answered[u] \in Nat /\ answered'[u] \in Nat /\ answered[u] <= answered'[u]
                          /\ written[u] \in Nat
  BY ServesGrows DEF HeardOf
<1>4. users' = users
  BY DEF Serves, routerVars
<1>5. \A a \in Answers : Parent(a) \in Turns /\ a[2] \in Nat
  BY CountsAreNumbers
<1>6. \A i \in 1 .. Len(wire) : Fits(wire[i])'
  <2> SUFFICES ASSUME NEW i \in 1 .. Len(wire), wire'[i].of \in Answers
               PROVE  LET e == wire'[i] IN
                      /\ e.of[2] <= answered'[Parent(e.of)]
                      /\ Ascends(e.text) /\ Chunks(e.text) \subseteq Chunks(text'[e.of])
    BY DEF Fits
  <2>1. LET e == wire[i] IN
        /\ e.of[2] <= answered[Parent(e.of)]
        /\ Ascends(e.text) /\ Chunks(e.text) \subseteq Chunks(text[e.of])
    BY <1>2 DEF HeardOf, WireInv, Fits
  <2>2. LET a == wire[i].of IN
        /\ wire'[i] = wire[i] /\ a \in Answers /\ a[2] \in Nat
        /\ answered[Parent(a)] \in Nat /\ answered'[Parent(a)] \in Nat
        /\ answered[Parent(a)] <= answered'[Parent(a)]
        /\ Chunks(text[a]) \subseteq Chunks(text'[a])
    BY <1>2, <1>3, <1>5
  <2> QED BY <2>1, <2>2
<1>7. \A k \in 1 .. Len(s) : s[k].of \in Answers =>
        /\ s[k].of[2] = answered'[t] /\ Parent(s[k].of) = t
        /\ Ascends(s[k].text) /\ Chunks(s[k].text) \subseteq Chunks(text'[s[k].of])
  BY <1>1 DEF SentBy
<1>8. \A k \in 1 .. Len(s) :
        s[k].of \in Answers => /\ s[k].of[2] <= answered'[Parent(s[k].of)]
                               /\ Ascends(s[k].text)
                               /\ Chunks(s[k].text) \subseteq Chunks(text'[s[k].of])
  <2>1. answered'[t] <= answered'[t]
    BY <1>3
  <2> QED BY <1>7, <2>1
<1>9. ASSUME NEW j \in 1 .. Len(wire), NEW k \in 1 .. Len(s)
      PROVE  Follows(wire[j], s[k])
  <2> SUFFICES ASSUME wire[j].of \in Answers, s[k].of \in Answers, Parent(wire[j].of) = Parent(s[k].of)
               PROVE  /\ wire[j].of[2] <= s[k].of[2]
                      /\ s[k].kind = "delta" => Before(Chunks(wire[j].text), Chunks(s[k].text))
    BY DEF Follows
  <2> DEFINE a == wire[j].of
  <2>1. Parent(a) = t /\ s[k].of[2] = answered'[t] /\ a \in Answers
    BY <1>7
  <2>2. a[2] <= answered[t] /\ Chunks(wire[j].text) \subseteq Chunks(text[a])
    BY <2>1 DEF HeardOf, WireInv, Fits
  <2>3. Chunks(text[a]) \subseteq 1 .. written[t]
    BY <2>1 DEF HeardOf, WritingInv
  <2>4. a[2] <= s[k].of[2]
    BY <1>3, <1>5, <2>1, <2>2
  <2>5. ASSUME s[k].kind = "delta" PROVE Before(Chunks(wire[j].text), Chunks(s[k].text))
    <3>1. s[k].text = <<written'[t]>> /\ written'[t] = written[t] + 1
      BY <1>1, <2>5 DEF SentBy
    <3>2. Chunks(s[k].text) = {written[t] + 1}
      BY <3>1, OneChunk
    <3>3. Chunks(wire[j].text) \subseteq 1 .. written[t]
      BY <2>2, <2>3
    <3> QED BY <1>3, <3>2, <3>3 DEF Before
  <2> QED BY <2>4, <2>5
<1>10. ASSUME NEW k \in 1 .. Len(s), NEW l \in 1 .. k - 1
       PROVE  Follows(s[l], s[k])
  <2>1. l \in 1 .. Len(s) /\ k # 1
    BY <1>2
  <2>2. s[k].kind # "delta"
    BY <1>1, <2>1 DEF SentBy
  <2>3. s[l].of \in Answers /\ s[k].of \in Answers => s[l].of[2] <= s[k].of[2]
    BY <1>3, <1>7, <2>1
  <2> QED BY <2>2, <2>3 DEF Follows
<1>11. ASSUME NEW i \in 1 .. Len(wire')
       PROVE  /\ Fits(wire[i])'
              /\ \A j \in 1 .. i - 1 : Follows(wire'[j], wire'[i])
              /\ wire'[i].kind = "userPart" =>
                   \/ Parent(wire'[i].of) \in users'
                   \/ \E j \in 1 .. i - 1 : wire'[j].kind = "userInfo" /\ wire'[j].of = wire'[i].of
  <2>1. CASE i \in 1 .. Len(wire)
    <3>1. /\ wire'[i] = wire[i] /\ \A j \in 1 .. i - 1 : wire'[j] = wire[j]
      BY <1>2, <2>1
    <3>2. /\ \A j \in 1 .. i - 1 : Follows(wire[j], wire[i])
          /\ wire[i].kind = "userPart" =>
               \/ Parent(wire[i].of) \in users
               \/ \E j \in 1 .. i - 1 : wire[j].kind = "userInfo" /\ wire[j].of = wire[i].of
      BY <2>1 DEF HeardOf, WireInv
    <3>3. \A j \in 1 .. i - 1 : Follows(wire'[j], wire'[i])
      BY <3>1, <3>2
    <3>4. wire'[i].kind = "userPart" =>
            \/ Parent(wire'[i].of) \in users'
            \/ \E j \in 1 .. i - 1 : wire'[j].kind = "userInfo" /\ wire'[j].of = wire'[i].of
      BY <1>4, <3>1, <3>2
    <3> QED BY <1>6, <2>1, <3>3, <3>4
  <2>2. CASE i \notin 1 .. Len(wire)
    <3> DEFINE k == i - Len(wire)
    <3>1. k \in 1 .. Len(s) /\ wire'[i] = s[k]
      BY <1>2, <2>2
    <3>2. Fits(wire[i])'
      BY <1>8, <3>1 DEF Fits
    <3>3. ASSUME NEW j \in 1 .. i - 1 PROVE Follows(wire'[j], wire'[i])
      <4>1. CASE j \in 1 .. Len(wire)
        BY <1>2, <1>9, <3>1, <4>1
      <4>2. CASE j \notin 1 .. Len(wire)
        <5>1. j - Len(wire) \in 1 .. k - 1 /\ j \in 1 .. Len(wire')
          BY <1>2, <4>2
        <5>2. wire'[j] = s[j - Len(wire)]
          BY <1>2, <4>2, <5>1
        <5> QED BY <1>10, <3>1, <5>1, <5>2
      <4> QED BY <4>1, <4>2
    <3>4. ASSUME s[k].kind = "userPart"
          PROVE  \E j \in 1 .. i - 1 : wire'[j].kind = "userInfo" /\ wire'[j].of = s[k].of
      <4>1. k = 2 /\ s[1].kind = "userInfo" /\ s[1].of = s[k].of
        BY <1>1, <3>1, <3>4 DEF SentBy
      <4>2. 1 \in 1 .. Len(s)
        BY <1>2, <3>1, <4>1
      <4>3. wire'[1 + Len(wire)] = s[1] /\ 1 + Len(wire) \in 1 .. i - 1
        BY <1>2, <4>1, <4>2
      <4> QED BY <4>1, <4>3
    <3> QED BY <3>1, <3>2, <3>3, <3>4
  <2> QED BY <2>1, <2>2
<1> QED BY <1>11 DEF WireInv

\* What the listener takes off the wire leaves the rest in order.
LEMMA ListenKeepsWire ==
  ASSUME Inv, HeardOf, Listen
  PROVE  WireInv'
<1> DEFINE e == Head(wire)
<1>1. /\ e = wire[1] /\ wire' = Tail(wire) /\ UNCHANGED <<text, answered>>
      /\ users' = users \/ (e.kind = "userInfo" /\ users' = users \union {Parent(e.of)})
      /\ e.kind = "userInfo" => Parent(e.of) \in users'
  <2>1. e.kind = "userInfo" => e.of \notin Answers
    BY ListenHears, RawEventKinds, PromptsHaveParents, PromptsAreNoAnswers
  <2> QED BY <2>1, ListenHears DEF HearsAnswer, HearsPrompt, serverVars
<1>2. /\ Len(wire) \in Nat /\ Len(wire') = Len(wire) - 1
      /\ \A i \in 1 .. Len(wire') : i + 1 \in 1 .. Len(wire) /\ wire'[i] = wire[i + 1]
  BY <1>1, HeadTailProperties DEF Listen, Inv, StreamTypeOK
<1> HIDE DEF e
<1> SUFFICES ASSUME NEW i \in 1 .. Len(wire')
             PROVE  /\ Fits(wire[i])'
                    /\ \A j \in 1 .. i - 1 : Follows(wire'[j], wire'[i])
                    /\ wire'[i].kind = "userPart" =>
                         \/ Parent(wire'[i].of) \in users'
                         \/ \E j \in 1 .. i - 1 : wire'[j].kind = "userInfo" /\ wire'[j].of = wire'[i].of
  BY DEF WireInv
<1>3. /\ i + 1 \in 1 .. Len(wire) /\ wire'[i] = wire[i + 1] /\ i \in Nat
      /\ \A j \in 1 .. i - 1 : j + 1 \in 1 .. (i + 1) - 1 /\ wire'[j] = wire[j + 1]
      /\ \A j \in 1 .. (i + 1) - 1 : j = 1 \/ (j - 1 \in 1 .. i - 1 /\ wire'[j - 1] = wire[j])
  BY <1>2
<1>4. /\ Fits(wire[i + 1]) /\ \A j \in 1 .. (i + 1) - 1 : Follows(wire[j], wire[i + 1])
      /\ wire[i + 1].kind = "userPart" =>
           \/ Parent(wire[i + 1].of) \in users
           \/ \E j \in 1 .. (i + 1) - 1 : wire[j].kind = "userInfo" /\ wire[j].of = wire[i + 1].of
  BY <1>3 DEF HeardOf, WireInv
<1>5. Fits(wire[i])'
  BY <1>1, <1>3, <1>4 DEF Fits
<1>6. \A j \in 1 .. i - 1 : Follows(wire'[j], wire'[i])
  BY <1>3, <1>4
<1>7. ASSUME wire[i + 1].kind = "userPart"
      PROVE  \/ Parent(wire[i + 1].of) \in users'
             \/ \E j \in 1 .. i - 1 : wire'[j].kind = "userInfo" /\ wire'[j].of = wire[i + 1].of
  <2>1. CASE Parent(wire[i + 1].of) \in users
    BY <1>1, <2>1
  <2>2. ASSUME NEW j \in 1 .. (i + 1) - 1, wire[j].kind = "userInfo", wire[j].of = wire[i + 1].of
        PROVE  \/ Parent(wire[i + 1].of) \in users'
               \/ \E k \in 1 .. i - 1 : wire'[k].kind = "userInfo" /\ wire'[k].of = wire[i + 1].of
    <3>1. CASE j = 1
      BY <1>1, <2>2, <3>1
    <3>2. CASE j # 1
      BY <1>3, <2>2, <3>2
    <3> QED BY <3>1, <3>2
  <2> QED BY <1>4, <1>7, <2>1, <2>2
<1> QED BY <1>3, <1>5, <1>6, <1>7

\* A wire that is left alone or emptied stays in order.
LEMMA WireStays ==
  ASSUME WireInv, wire' \in {wire, <<>>}, UNCHANGED <<users, text, answered>>
  PROVE  WireInv'
<1>1. CASE wire' = wire
  BY <1>1 DEF WireInv, Fits
<1>2. CASE wire' = <<>>
  BY <1>2 DEF WireInv
<1> QED BY <1>1, <1>2

\* A terminal event is taken, which has no text to be said.
Drops(t) ==
  /\ queue[t] # <<>> /\ Head(queue[t]).kind \in {"completed", "failed"}
  /\ queue' = [queue EXCEPT ![t] = Tail(@)]
Keeps(t) == status[t] \in Live /\ said' = said /\ (queue' = queue \/ Drops(t))

\* The step of a turn leaves the server and what the router knows of answers alone.
TurnSteps(t) ==
  /\ UNCHANGED <<users, early, seen, conflicts, wire, stream, text, answered, written, missed>>
  /\ \E s \in Statuses \ {"none"} : status' = [status EXCEPT ![t] = s]
  /\ \/ StartTurn(t)
     \/ Keeps(t)
     \/ TakeEvent(t)
     \/ MessagesReturn(t)
  /\ \/ StartTurn(t)
     \/ UNCHANGED <<registered, current, bound>>
     \/ unregister(t)

LEMMA TurnsStep ==
  ASSUME Inv, NEW t \in Turns, TurnNext(t)
  PROVE  TurnSteps(t)
<1>1. \E s \in Statuses \ {"none"} : status' = [status EXCEPT ![t] = s]
  <2>1. CASE StartTurn(t)
    BY <2>1 DEF StartTurn, Statuses, Live
  <2>2. CASE ~StartTurn(t)
    BY <2>2, TurnsGoOn DEF Inv, GoesOn
  <2> QED BY <2>1, <2>2
<1>2. UNCHANGED <<users, early, seen, conflicts, wire, stream, text, answered, written, missed>>
  BY DEF TurnNext, StartTurn, PromptReturns, PromptRefused, PromptLost, TakeEvent, TakeFailed,
         TakeCompleted, MessagesRead, MessagesReturn, MessagesRaise, Stop, TimeOut, Answer, Occur,
         routerVars, streamVars, serverVars, history
<1>3. StartTurn(t) \/ Keeps(t) \/ TakeEvent(t) \/ MessagesReturn(t)
  <2>1. StartTurn(t) \/ status[t] \in Live
    BY TurnsGoOn DEF Inv, GoesOn
  <2> QED BY <2>1 DEF TurnNext, PromptReturns, PromptRefused, PromptLost, TakeFailed,
              TakeCompleted, MessagesRead, MessagesRaise, Stop, TimeOut, Answer, routerVars, Keeps,
              Drops
<1>4. StartTurn(t) \/ UNCHANGED <<registered, current, bound>> \/ unregister(t)
  BY DEF TurnNext, PromptReturns, PromptRefused, PromptLost, TakeEvent, TakeFailed,
         TakeCompleted, MessagesRead, MessagesReturn, MessagesRaise, Stop, TimeOut, Answer, routerVars
<1> QED BY <1>1, <1>2, <1>3, <1>4 DEF TurnSteps

\* A step of turn u leaves the reply turn t waits for, and what t had yielded, or ends the
\* wait, or is the server's reading.
LEMMA ReplyGoes ==
  ASSUME TurnsTypeOK, NEW u \in Turns, NEW t \in Turns, TurnNext(u)
  PROVE  \/ reply'[t] = NoReply
         \/ /\ reply'[t] = reply[t]
            /\ status[t] = "completing" =>
                 status'[t] = "completing" /\ said'[t] = said[t] /\ saw'[t] = saw[t]
         \/ t = u /\ MessagesRead(u)
<1>0. /\ status \in [Turns -> Statuses] /\ said \in [Turns -> Texts]
      /\ saw \in [Turns -> BOOLEAN] /\ DOMAIN reply = Turns
  BY DEF TurnsTypeOK
<1>1. CASE StartTurn(u)
  BY <1>0, <1>1 DEF StartTurn
<1>2. CASE PromptReturns(u) \/ PromptRefused(u) \/ PromptLost(u)
  BY <1>0, <1>2 DEF PromptReturns, PromptRefused, PromptLost
<1>3. CASE TakeEvent(u)
  BY <1>0, <1>3 DEF TakeEvent
<1>4. CASE TakeFailed(u) \/ TakeCompleted(u)
  BY <1>0, <1>4 DEF TakeFailed, TakeCompleted
<1>5. CASE MessagesRead(u)
  <2>1. t # u => /\ reply'[t] = reply[t] /\ status'[t] = status[t]
                 /\ said'[t] = said[t] /\ saw'[t] = saw[t]
    BY <1>0, <1>5 DEF MessagesRead
  <2> QED BY <1>5, <2>1
<1>6. CASE MessagesReturn(u)
  <2>1. CASE t = u
    BY <1>0, <1>6, <2>1 DEF MessagesReturn
  <2>2. CASE t # u
    <3>1. reply'[t] = reply[t] /\ said'[t] = said[t] /\ saw'[t] = saw[t]
      BY <1>0, <1>6, <2>2 DEF MessagesReturn
    <3>2. status'[t] = status[t]
      BY <1>0, <1>6, <2>2 DEF MessagesReturn
    <3> QED BY <3>1, <3>2
  <2> QED BY <2>1, <2>2
<1>7. CASE MessagesRaise(u)
  <2>1. CASE t = u
    BY <1>0, <1>7, <2>1 DEF MessagesRaise
  <2>2. CASE t # u
    BY <1>0, <1>7, <2>2 DEF MessagesRaise
  <2> QED BY <2>1, <2>2
<1>8. CASE Stop(u)
  <2>1. UNCHANGED <<reply, said, saw>>
    BY <1>8 DEF Stop
  <2>2. status[t] = "completing" => status'[t] = "completing"
    BY <1>0, <1>8 DEF Stop
  <2> QED BY <2>1, <2>2
<1>9. CASE TimeOut(u) \/ Answer(u)
  BY <1>0, <1>9 DEF TimeOut, Answer
<1> QED BY <1>1, <1>2, <1>3, <1>4, <1>5, <1>6, <1>7, <1>8, <1>9 DEF TurnNext

\* A turn's step that shows activity or completes it has seen an answer.
LEMMA ActivityIsAnswered ==
  ASSUME Inv, AnsweredInv, RepliesInv, NEW t \in Turns, TurnNext(t)
  PROVE  \A u \in Turns : saw'[u] \/ result'[u] = "completed" => answered[u] > 0
<1>0. /\ saw \in [Turns -> BOOLEAN] /\ result \in [Turns -> {"none", "completed", "failed"}]
      /\ answered[t] \in Nat
      /\ \A u \in Turns : saw[u] \/ result[u] = "completed" => answered[u] > 0
  BY CountsAreNumbers DEF Inv, TurnsTypeOK, AnsweredInv
<1>1. CASE TakeEvent(t)
  <2>1. /\ queue[t] # <<>> /\ Head(queue[t]).kind \in {"text", "approval"}
        /\ saw' = [saw EXCEPT ![t] = TRUE] /\ result' = result
    BY <1>1 DEF TakeEvent
  <2>2. Head(queue[t]) = queue[t][1] /\ 1 \in 1 .. Len(queue[t])
    BY <2>1, HeadTailProperties DEF Inv, RouterInv, RouterTypeOK
  <2>3. answered[t] > 0
    BY <2>1, <2>2 DEF AnsweredInv
  <2> QED BY <1>0, <2>1, <2>3
<1>2. CASE MessagesReturn(t)
  <2>1. /\ saw' = [saw EXCEPT ![t] = saw[t] \/ Backfill(t) # <<>>]
        /\ result' = result \/ (~Ignored(t) /\ result' = [result EXCEPT ![t] = "completed"])
    BY <1>2 DEF MessagesReturn
  <2>2. Backfill(t) # <<>> => answered[t] > 0
    BY DEF Backfill, RepliesInv
  <2>3. ~Ignored(t) => answered[t] > 0
    <3>1. reply[t].state \in {"unanswered", "answered"}
      BY <1>2 DEF MessagesReturn, Inv, TurnsTypeOK
    <3> QED BY <1>0, <3>1 DEF Ignored, RepliesInv
  <2>4. \A u \in Turns : saw'[u] => answered[u] > 0
    <3> TAKE u \in Turns
    <3>1. CASE u = t
      BY <1>0, <2>1, <2>2, <3>1
    <3>2. CASE u # t
      BY <1>0, <2>1, <3>2
    <3> QED BY <3>1, <3>2
  <2>5. \A u \in Turns : result'[u] = "completed" => answered[u] > 0
    BY <1>0, <2>1, <2>3
  <2> QED BY <2>4, <2>5
<1>3. CASE TakeFailed(t)
  BY <1>0, <1>3 DEF TakeFailed
<1>4. CASE UNCHANGED <<saw, result>>
  BY <1>0, <1>4
<1>5. TakeEvent(t) \/ MessagesReturn(t) \/ TakeFailed(t) \/ UNCHANGED <<saw, result>>
  BY DEF TurnNext, StartTurn, PromptReturns, PromptRefused, PromptLost,
         TakeCompleted, MessagesRead, MessagesRaise, Stop, TimeOut, Answer
<1> QED BY <1>1, <1>2, <1>3, <1>4, <1>5

LEMMA TurnKeepsHeardOf ==
  ASSUME Inv, HeardOf, RepliesInv, NEW t \in Turns, TurnNext(t)
  PROVE  HeardOf'
<1>0. TurnSteps(t)
  BY TurnsStep
<1>1. UNCHANGED <<users, early, seen, conflicts, wire, text, answered, written>>
  BY <1>0 DEF TurnSteps
<1>2. WireInv'
  BY <1>1, WireStays DEF HeardOf
<1>3. WritingInv'
  BY <1>1 DEF HeardOf, WritingInv
<1>4. CountsInv'
  <2>1. \A u \in Turns : status'[u] = "none" => status[u] = "none" /\ said'[u] = said[u]
    <3> TAKE u \in Turns
    <3>1. status'[t] # "none" /\ \A v \in Turns : v # t => status'[v] = status[v]
      BY <1>0 DEF TurnSteps, Inv, TurnsTypeOK
    <3>2. u # t => said'[u] = said[u]
      BY <1>0 DEF TurnSteps, StartTurn, Keeps, TakeEvent, MessagesReturn, Inv, TurnsTypeOK
    <3> QED BY <3>1, <3>2
  <2>2. \A u \in Turns : /\ answered'[u] = answered[u] /\ written'[u] = written[u]
                         /\ text'[<<u, 1>>] = text[<<u, 1>>]
    BY <1>1
  <2> QED BY <2>1, <2>2 DEF HeardOf, CountsInv
<1>5. AnsweredInv'
  <2>1. \A u \in Turns : saw'[u] \/ result'[u] = "completed" => answered[u] > 0
    BY ActivityIsAnswered DEF HeardOf
  <2>2. \A u \in Turns : \A i \in 1 .. Len(queue'[u]) :
          queue'[u][i].kind \in {"text", "approval"} => answered[u] > 0
    <3> TAKE u \in Turns
    <3>1. \/ queue'[u] \in {queue[u], <<>>}
          \/ queue[u] # <<>> /\ queue'[u] = Tail(queue[u])
      BY <1>0 DEF TurnSteps, StartTurn, register, Keeps, Drops, TakeEvent, MessagesReturn, Inv,
                  RouterInv, RouterTypeOK
    <3>2. CASE queue'[u] = queue[u]
      BY <3>2 DEF HeardOf, AnsweredInv
    <3>3. CASE queue'[u] = <<>>
      BY <3>3
    <3>4. CASE queue[u] # <<>> /\ queue'[u] = Tail(queue[u])
      <4>1. \A i \in 1 .. Len(queue'[u]) : i + 1 \in 1 .. Len(queue[u]) /\ queue'[u][i] = queue[u][i + 1]
        BY <3>4, HeadTailProperties DEF Inv, RouterInv, RouterTypeOK
      <4> QED BY <4>1 DEF HeardOf, AnsweredInv
    <3> QED BY <3>1, <3>2, <3>3, <3>4
  <2>3. /\ bound' # NoAnswer => bound' = bound
        /\ current' # NoTurn => current' \in registered'
    <3>1. CASE StartTurn(t)
      BY <3>1 DEF StartTurn, register
    <3>2. CASE UNCHANGED <<registered, current, bound>>
      BY <3>2 DEF HeardOf, AnsweredInv
    <3>3. CASE unregister(t)
      BY <3>3 DEF unregister, HeardOf, AnsweredInv
    <3> QED BY <1>0, <3>1, <3>2, <3>3 DEF TurnSteps
  <2> QED BY <1>1, <2>1, <2>2, <2>3 DEF HeardOf, AnsweredInv
<1> QED BY <1>2, <1>3, <1>4, <1>5 DEF HeardOf

\* An answer the listener hears of has begun, and nothing else of the turns changes.
LEMMA ListenKeepsAnswered ==
  ASSUME Inv, Inv', HeardOf, Listen
  PROVE  AnsweredInv'
<1> DEFINE e == Head(wire)
           a == e.of
<1>1. /\ Fits(e) /\ (HearsAnswer(e) \/ HearsPrompt(e))
      /\ UNCHANGED <<registered, current, saw, result, answered>>
  BY ListenHears DEF turnVars, serverVars
<1>0. /\ queue \in [Turns -> Seq(AgentEvents)] /\ early \in [Answers -> Seq(AgentEvents)]
      /\ seen \in [Answers -> Texts] /\ bound' \in Answers \union {NoAnswer}
      /\ \A t \in Turns : answered[t] \in Nat
      /\ \A b \in Answers : Parent(b) \in Turns /\ b[2] \in Nat /\ b[2] > 0
  BY CountsAreNumbers DEF Inv, RouterInv, RouterTypeOK
<1>2. ASSUME a \in Answers PROVE a[2] <= answered[Parent(a)] /\ answered[Parent(a)] > 0
  <2>1. a[2] <= answered[Parent(a)]
    BY <1>1, ListenHears, <1>2 DEF Fits
  <2> QED BY <1>0, <1>2, <2>1
<1> HIDE DEF e
<1>3. CASE HearsAnswer(e)
  <2>1. a \in Answers
    BY <1>3 DEF HearsAnswer
  <2>2. PICK new \in Seq(AgentEvents) : Moves(a, new)
    BY <1>3 DEF HearsAnswer
  <2>3. Remembers(e)
    BY <1>3 DEF HearsAnswer
  <2> HIDE DEF a
  <2>4. \A b \in Answers : b # a =>
          early'[b] = early[b] /\ seen'[b] = seen[b] /\ (b \in conflicts' => b \in conflicts)
    <3>1. \A b \in Answers : b # a => early'[b] = early[b]
      BY <1>0, <2>2 DEF Moves
    <3>2. \A b \in Answers : b # a => seen'[b] = seen[b] /\ (b \in conflicts' => b \in conflicts)
      BY <1>0, <2>3 DEF Remembers, a
    <3> QED BY <3>1, <3>2
  <2>5. \A b \in Answers :
          b[2] > answered[Parent(b)] => early'[b] = <<>> /\ seen'[b] = <<>> /\ b \notin conflicts'
    <3> SUFFICES ASSUME NEW b \in Answers, b[2] > answered[Parent(b)]
                 PROVE  early'[b] = <<>> /\ seen'[b] = <<>> /\ b \notin conflicts'
      OBVIOUS
    <3>1. b # a
      BY <1>0, <1>2, <2>1
    <3> QED BY <2>4, <3>1 DEF HeardOf, AnsweredInv
  <2>6. \A t \in Turns : answered[t] > 0 \/ queue'[t] = queue[t]
    BY <1>0, <1>2, <2>1, <2>2 DEF Moves
  <2>7. bound' # NoAnswer => early'[bound'] = <<>>
    BY <1>0, <2>1, <2>2 DEF HeardOf, AnsweredInv, Moves
  <2>8. \A t \in Turns : \A i \in 1 .. Len(queue'[t]) :
          queue'[t][i].kind \in {"text", "approval"} => answered[t] > 0
    BY <2>6 DEF HeardOf, AnsweredInv
  <2> QED BY <1>1, <2>5, <2>7, <2>8 DEF HeardOf, AnsweredInv
<1>4. CASE HearsPrompt(e)
  <2>1. UNCHANGED <<early, bound, seen, conflicts>>
    BY <1>4 DEF HearsPrompt
  <2>2. \A t \in Turns : queue'[t] = queue[t] \/ \E ev \in Closings : queue'[t] = Append(queue[t], ev)
    BY <1>0, <1>4 DEF HearsPrompt
  <2>3. \A t \in Turns : \A i \in 1 .. Len(queue'[t]) :
          queue'[t][i].kind \in {"text", "approval"} => answered[t] > 0
    <3> TAKE t \in Turns
    <3>1. CASE queue'[t] = queue[t]
      BY <3>1 DEF HeardOf, AnsweredInv
    <3>2. ASSUME NEW ev \in Closings, queue'[t] = Append(queue[t], ev)
          PROVE  \A i \in 1 .. Len(queue'[t]) :
                   queue'[t][i].kind \in {"text", "approval"} => answered[t] > 0
      BY <1>0, <3>2 DEF Closings, Worded, HeardOf, AnsweredInv
    <3> QED BY <2>2, <3>1, <3>2
  <2> QED BY <1>1, <2>1, <2>3 DEF HeardOf, AnsweredInv
<1> QED BY <1>1, <1>3, <1>4

LEMMA ServesKeepsAnswered ==
  ASSUME Inv, Inv', HeardOf, NEW t \in Turns, Serves(t)
  PROVE  AnsweredInv'
<1>1. UNCHANGED <<routerVars, turnVars>>
  BY DEF Serves
<1>2. \A u \in Turns : answered[u] \in Nat /\ answered'[u] \in Nat /\ answered[u] <= answered'[u]
  BY ServesGrows DEF HeardOf
<1>3. \A a \in Answers : a[2] > answered'[Parent(a)] => a[2] > answered[Parent(a)]
  BY <1>2, CountsAreNumbers
<1>4. \A u \in Turns : answered[u] > 0 => answered'[u] > 0
  BY <1>2
<1> QED BY <1>1, <1>3, <1>4 DEF HeardOf, AnsweredInv, routerVars, turnVars

LEMMA ServesKeepsHeardOf ==
  ASSUME Inv, Inv', HeardOf, NEW t \in Turns, Serves(t)
  PROVE  HeardOf'
BY ServesKeepsWriting, ServesKeepsWire, ServesKeepsAnswered DEF HeardOf

\* The interruption closes the queues of the turns registered.
LEMMA DisconnectCloses ==
  ASSUME Inv, Disconnect
  PROVE  \A u \in Turns :
           queue'[u] = queue[u] \/ \E ev \in Closings : queue'[u] = Append(queue[u], ev)
<1> TAKE u \in Turns
<1>1. Event("failed", Prompt(u), <<>>) \in Closings
  <2>1. <<>> \in Texts /\ Prompt(u) \in Prompts
    BY PromptsAreNoAnswers DEF Texts
  <2>2. Event("failed", Prompt(u), <<>>) \in AgentEvents
    BY <2>1, EventIsOwn DEF Own
  <2> QED BY <2>2, EventFields DEF Closings, Worded
<1>2. queue'[u] = IF u \in registered THEN Append(queue[u], Event("failed", Prompt(u), <<>>))
                                      ELSE queue[u]
  BY DEF Disconnect
<1> QED BY <1>1, <1>2

LEMMA DisconnectKeepsHeardOf ==
  ASSUME Inv, HeardOf, Disconnect
  PROVE  HeardOf'
<1>1. /\ wire' = <<>>
      /\ UNCHANGED <<registered, current, bound, users, early, seen, conflicts, status, said, saw,
                     result, text, answered, written>>
  BY DEF Disconnect, turnVars, serverVars
<1>2. WireInv'
  BY <1>1, WireStays DEF HeardOf
<1>3. WritingInv' /\ CountsInv'
  BY <1>1 DEF HeardOf, WritingInv, CountsInv
<1>4. \A t \in Turns : \A i \in 1 .. Len(queue'[t]) :
        queue'[t][i].kind \in {"text", "approval"} => answered[t] > 0
  <2> TAKE t \in Turns
  <2>1. CASE queue'[t] = queue[t]
    BY <2>1 DEF HeardOf, AnsweredInv
  <2>2. ASSUME NEW ev \in Closings, queue'[t] = Append(queue[t], ev)
        PROVE  \A i \in 1 .. Len(queue'[t]) :
                 queue'[t][i].kind \in {"text", "approval"} => answered[t] > 0
    <3>1. queue[t] \in Seq(AgentEvents) /\ ev.kind \notin {"text", "approval"}
      BY DEF Closings, Inv, RouterInv, RouterTypeOK
    <3>2. \A i \in 1 .. Len(queue[t]) :
            queue[t][i].kind \in {"text", "approval"} => answered[t] > 0
      BY DEF HeardOf, AnsweredInv
    <3> QED BY <2>2, <3>1, <3>2
  <2> QED BY <2>1, <2>2, DisconnectCloses
<1>5. AnsweredInv'
  BY <1>1, <1>4 DEF HeardOf, AnsweredInv
<1> QED BY <1>2, <1>3, <1>5 DEF HeardOf

LEMMA NothingKeepsHeardOf ==
  ASSUME HeardOf, UNCHANGED <<routerVars, turnVars, wire, text, written, answered>>
  PROVE  HeardOf'
<1>1. WireInv'
  BY WireStays DEF HeardOf, routerVars
<1>2. WritingInv' /\ CountsInv'
  BY DEF HeardOf, WritingInv, CountsInv, turnVars
<1>3. AnsweredInv'
  BY DEF HeardOf, AnsweredInv, routerVars, turnVars
<1> QED BY <1>1, <1>2, <1>3 DEF HeardOf

\* The cases of a step, as the lemmas about what is heard have them.
LEMMA StepCases ==
  ASSUME Inv, FreshInv, HeardOf, [Next]_vars
  PROVE  \/ Listen
         \/ Disconnect
         \/ \E t \in Turns : TurnNext(t)
         \/ \E t \in Turns : Serves(t)
         \/ /\ UNCHANGED <<routerVars, turnVars, wire, text, written, answered, missed>>
            /\ stream' # "down" => stream # "down"
<1>1. CASE Connect
  BY <1>1 DEF Connect, serverVars, history
<1>2. CASE UNCHANGED vars
  BY <1>2 DEF vars, streamVars, serverVars, history
<1>3. CASE ServerAborts
  BY <1>3, AbortServes
<1> QED BY <1>1, <1>2, <1>3, ServerServes DEF Next

LEMMA StepKeepsHeardOf ==
  ASSUME Inv, Inv', FreshInv, HeardOf, RepliesInv, [Next]_vars
  PROVE  HeardOf'
<1>1. CASE Listen
  <2>1. UNCHANGED <<status, said, text, written, answered>>
    BY <1>1 DEF Listen, turnVars, serverVars
  <2>2. WritingInv' /\ CountsInv'
    BY <2>1 DEF HeardOf, WritingInv, CountsInv
  <2> QED BY <1>1, <2>2, ListenKeepsWire, ListenKeepsAnswered DEF HeardOf
<1> QED BY <1>1, StepCases, DisconnectKeepsHeardOf, TurnKeepsHeardOf, ServesKeepsHeardOf,
           NothingKeepsHeardOf

\* The answers of a turn never become fewer.
LEMMA AnsweredGrows ==
  ASSUME Inv, Inv', FreshInv, HeardOf, [Next]_vars, NEW t \in Turns
  PROVE  answered[t] \in Nat /\ answered'[t] \in Nat /\ answered[t] <= answered'[t]
<1>0. answered[t] \in Nat
  BY CountsAreNumbers
<1>1. CASE UNCHANGED answered
  BY <1>0, <1>1
<1>2. ASSUME NEW u \in Turns, Serves(u)
      PROVE  answered[t] \in Nat /\ answered'[t] \in Nat /\ answered[t] <= answered'[t]
  <2>1. \A v \in Turns : /\ answered[v] \in Nat /\ answered'[v] \in Nat
                         /\ answered[v] <= answered'[v]
    BY <1>2, ServesGrows DEF HeardOf
  <2> QED BY <2>1
<1>3. ASSUME NEW u \in Turns, TurnNext(u) PROVE UNCHANGED answered
  BY <1>3, TurnsStep DEF TurnSteps
<1> QED BY <1>1, <1>2, <1>3, StepCases DEF Listen, Disconnect, serverVars

\* So a reply stays what the server read.
LEMMA RepliesKept ==
  ASSUME Inv, Inv', FreshInv, HeardOf, RepliesInv, [Next]_vars
  PROVE  RepliesInv'
<1>1. ASSUME UNCHANGED <<reply, status, saw>> PROVE RepliesInv'
  <2> SUFFICES ASSUME NEW t \in Turns
               PROVE  /\ reply[t].state # "none" => status[t] = "completing"
                      /\ reply[t].state = "answered" => answered'[t] > 0 /\ Ascends(reply[t].text)
                      /\ reply[t].state = "unanswered" => ~saw[t]
    BY <1>1 DEF RepliesInv
  <2> QED BY AnsweredGrows DEF RepliesInv
<1>2. ASSUME NEW u \in Turns, TurnNext(u) PROVE RepliesInv'
  <2>1. UNCHANGED answered /\ TurnsTypeOK
    BY <1>2, TurnsStep DEF TurnSteps, Inv
  <2> SUFFICES ASSUME NEW t \in Turns
               PROVE  /\ reply'[t].state # "none" => status'[t] = "completing"
                      /\ reply'[t].state = "answered" => answered[t] > 0 /\ Ascends(reply'[t].text)
                      /\ reply'[t].state = "unanswered" => ~saw'[t]
    BY <2>1 DEF RepliesInv
  <2>2. CASE reply'[t] = NoReply
    BY <2>2 DEF NoReply
  <2>3. CASE reply'[t] = reply[t] /\ (status[t] = "completing" =>
                 status'[t] = "completing" /\ said'[t] = said[t] /\ saw'[t] = saw[t])
    BY <2>3 DEF RepliesInv
  <2>4. CASE t = u /\ MessagesRead(u)
    <3>1. /\ status'[t] = "completing" /\ saw'[t] = saw[t]
          /\ reply'[t] = IF answered[t] > 0
               THEN [state |-> "answered", text |-> text[<<t, 1>>], final |-> t \in ended]
               ELSE [state |-> "unanswered", text |-> <<>>, final |-> t \in ended]
      BY <2>1, <2>4 DEF MessagesRead, TurnsTypeOK
    <3>2. CASE answered[t] > 0
      <4>1. answered[t] \in Nat /\ answered[t] <= MaxAnswers /\ MaxAnswers \in Nat
        BY CountsAreNumbers
      <4>2. <<t, 1>> \in Answers
        BY <3>2, <4>1 DEF Answers
      <4>3. Ascends(text[<<t, 1>>])
        BY <4>2 DEF HeardOf, WritingInv
      <4> QED BY <3>1, <3>2, <4>3
    <3>3. CASE ~(answered[t] > 0)
      <4>1. ~saw[t]
        BY <3>3 DEF HeardOf, AnsweredInv
      <4> QED BY <3>1, <3>3, <4>1
    <3> QED BY <3>2, <3>3
  <2> QED BY <1>2, <2>1, <2>2, <2>3, <2>4, ReplyGoes
<1>3. Listen \/ Disconnect => UNCHANGED <<reply, status, saw>>
  BY DEF Listen, Disconnect, turnVars
<1>4. ASSUME NEW u \in Turns, Serves(u) PROVE UNCHANGED <<reply, status, saw>>
  BY <1>4 DEF Serves, turnVars
<1>5. UNCHANGED turnVars => UNCHANGED <<reply, status, saw>>
  BY DEF turnVars
<1> QED BY <1>1, <1>2, <1>3, <1>4, <1>5, StepCases

LEMMA InitHeardOf ==
  ASSUME Init
  PROVE  HeardOf
<1>1. /\ \A a \in Answers : text[a] = <<>> /\ early[a] = <<>> /\ seen[a] = <<>>
      /\ \A t \in Turns : answered[t] = 0 /\ written[t] = 0 /\ said[t] = <<>> /\ queue[t] = <<>>
                          /\ saw[t] = FALSE /\ result[t] = "none"
      /\ wire = <<>> /\ conflicts = {} /\ bound = NoAnswer /\ current = NoTurn
  BY DEF Init
<1>2. WritingInv
  <2>1. \A a \in Answers : Ascends(text[a]) /\ Chunks(text[a]) = {}
    BY <1>1, NoChunks
  <2> QED BY <1>1, <2>1 DEF WritingInv, Before
<1>3. CountsInv
  BY <1>1 DEF CountsInv
<1>4. WireInv
  BY <1>1 DEF WireInv
<1>5. AnsweredInv
  BY <1>1 DEF AnsweredInv
<1> QED BY <1>2, <1>3, <1>4, <1>5 DEF HeardOf

\* An event is of an answer the server has begun and holds text of it, deltas are new, and
\* no answer is remembered, queued, said of or in a reply before it is begun.
THEOREM HeardOfHolds == Spec => [](HeardOf /\ RepliesInv)
<1>1. Init => HeardOf /\ RepliesInv
  <2>1. Init => RepliesInv
    BY DEF Init, RepliesInv, NoReply
  <2> QED BY <2>1, InitHeardOf
<1>2. Inv /\ Inv' /\ FreshInv /\ HeardOf /\ RepliesInv /\ [Next]_vars => HeardOf' /\ RepliesInv'
  BY StepKeepsHeardOf, RepliesKept
<1> QED BY <1>1, <1>2, InvHolds, FreshHolds, PTL DEF Spec

\* A turn completes only once the server has begun an answer to its prompt: an idle
\* of the turn before, or one sent twice, does not complete it.
THEOREM CompletionsAreAnswered == Spec => []CompletesOnlyAnswered
<1>1. HeardOf => CompletesOnlyAnswered
  BY DEF HeardOf, AnsweredInv, CompletesOnlyAnswered
<1> QED BY <1>1, HeardOfHolds, PTL

-----------------------------------------------------------------------------
(* The text a turn is given is in order.                                   *)

\* The parts of an ascending text ascend, one before the other.
LEMMA SplitAscends ==
  ASSUME NEW s \in Texts, NEW u \in Texts, Ascends(s \o u)
  PROVE  Ascends(s) /\ Ascends(u) /\ Before(Chunks(s), Chunks(u))
<1>1. /\ s \in Seq(Nat) /\ u \in Seq(Nat) /\ Len(s) \in Nat /\ Len(u) \in Nat
  BY TextsAreNumbers
<1>2. /\ Len(s \o u) = Len(s) + Len(u)
      /\ \A i \in 1 .. Len(s) + Len(u) :
           (s \o u)[i] = IF i <= Len(s) THEN s[i] ELSE u[i - Len(s)]
  BY <1>1, ConcatProperties
<1>3. \A i \in 1 .. Len(s) : i \in 1 .. Len(s \o u) /\ (s \o u)[i] = s[i]
  BY <1>1, <1>2
<1>4. \A i \in 1 .. Len(u) : i + Len(s) \in 1 .. Len(s \o u) /\ (s \o u)[i + Len(s)] = u[i]
  BY <1>1, <1>2
<1>5. Ascends(s)
  <2> SUFFICES ASSUME NEW i \in 1 .. Len(s) PROVE s[i] > 0 /\ \A j \in 1 .. i - 1 : s[j] < s[i]
    BY DEF Ascends
  <2>1. \A j \in 1 .. i - 1 : j \in 1 .. Len(s)
    BY <1>1
  <2> QED BY <1>3, <2>1 DEF Ascends
<1>6. Ascends(u)
  <2> SUFFICES ASSUME NEW i \in 1 .. Len(u) PROVE u[i] > 0 /\ \A j \in 1 .. i - 1 : u[j] < u[i]
    BY DEF Ascends
  <2>1. \A j \in 1 .. i - 1 : j \in 1 .. Len(u) /\ j + Len(s) \in 1 .. (i + Len(s)) - 1
    BY <1>1
  <2> QED BY <1>4, <2>1 DEF Ascends
<1>7. ASSUME NEW i \in 1 .. Len(s), NEW j \in 1 .. Len(u) PROVE s[i] < u[j]
  <2>1. i \in 1 .. (j + Len(s)) - 1
    BY <1>1
  <2> QED BY <1>3, <1>4, <2>1 DEF Ascends
<1> QED BY <1>5, <1>6, <1>7 DEF Before, Chunks

\* A text is what it starts with and what comes after that.
LEMMA AfterTheStart ==
  ASSUME NEW s \in Texts, NEW u \in Texts, IsStartOf(s, u)
  PROVE  /\ s \o After(s, u) = u /\ After(s, u) \in Texts
         /\ Chunks(u) = Chunks(s) \union Chunks(After(s, u))
         /\ Ascends(u) => Ascends(After(s, u)) /\ Before(Chunks(s), Chunks(After(s, u)))
<1>1. Len(s) \in Nat /\ Len(u) \in Nat /\ Len(s) <= Len(u) /\ SubSeq(u, 1, Len(s)) = s
  BY TextsAreNumbers DEF IsStartOf
<1>2. SubSeq(u, 1, Len(s)) \o SubSeq(u, Len(s) + 1, Len(u)) = SubSeq(u, 1, Len(u))
  <2>1. 1 \in 1 .. Len(u) + 1 /\ Len(s) \in 1 - 1 .. Len(u) /\ Len(u) \in Len(s) .. Len(u)
    BY <1>1
  <2> QED BY <2>1, ConcatAdjacentSubSeq DEF Texts
<1>3. SubSeq(u, 1, Len(u)) = u
  BY SubSeqFull DEF Texts
<1>4. s \o After(s, u) = u
  BY <1>1, <1>2, <1>3 DEF After
<1>5. After(s, u) \in Texts
  BY TextsClosed
<1> QED BY <1>4, <1>5, ConcatChunks, SplitAscends

\* What turn t has yielded or has in its queue; and with it what is early.
Given(t) == Chunks(said[t]) \union ChunksOf(queue[t])
Heard(t) == {c \in 0 .. MaxChunks : c \in Given(t) \/ \E a \in Of(t) : c \in ChunksOf(early[a])}

OnWire(a) == \E i \in 1 .. Len(wire) : wire[i].of = a
Coming(a) == OnWire(a) \/ a[2] = answered[Parent(a)]

\* No chunk is given twice or out of order; events of an answer can still come only
\* if what is heard is in what the router has seen of it, or before all of it.
QueueOrder(t) == InLine(queue[t]) /\ Before(Chunks(said[t]), ChunksOf(queue[t]))
EarlyOrder(t) ==
  /\ \A a \in Of(t) : InLine(early[a]) /\ (Coming(a) => Before(Given(t), ChunksOf(early[a])))
  /\ \A a, b \in Of(t) : OnWire(a) /\ early[b] # <<>> => b[2] <= a[2]
SeenOrder(t) ==
  \A a \in Of(t) : Coming(a) /\ a \notin conflicts =>
    \A h \in Heard(t) : h \in Chunks(seen[a]) \/ Before({h}, Chunks(text[a]))
WireOrder(t) ==
  \A i \in 1 .. Len(wire) :
    wire[i].kind = "delta" /\ Parent(wire[i].of) = t => Before(Heard(t), Chunks(wire[i].text))
OrderInv(t) ==
  QueueOrder(t) /\ EarlyOrder(t) /\ SeenOrder(t) /\ WireOrder(t) /\ Heard(t) \subseteq 1 .. written[t]

OrderedInv == \A t \in Turns : Ascends(said[t]) /\ (status[t] \in Live => OrderInv(t))

LEMMA HeardChunks ==
  ASSUME Inv, NEW t \in Turns
  PROVE  /\ Given(t) \subseteq Heard(t) /\ \A a \in Of(t) : ChunksOf(early[a]) \subseteq Heard(t)
         /\ \A h \in Heard(t) : h \in Given(t) \/ \E a \in Of(t) : h \in ChunksOf(early[a])
<1>1. said[t] \in Texts /\ queue[t] \in Seq(AgentEvents)
  BY DEF Inv, TurnsTypeOK, RouterInv, RouterTypeOK
<1>2. Given(t) \subseteq 0 .. MaxChunks
  BY <1>1, TextsAreNumbers, EventTexts DEF Given
<1>3. \A a \in Of(t) : ChunksOf(early[a]) \subseteq 0 .. MaxChunks
  BY DEF ChunksOf
<1> QED BY <1>2, <1>3 DEF Heard

\* Turn t is given no more than it has been, and the router and the wire hold no more.
LEMMA LessIsInOrder ==
  ASSUME Inv, Inv', NEW t \in Turns, OrderInv(t),
         \A a \in Of(t) : /\ early'[a] = early[a] /\ seen'[a] = seen[a] /\ text'[a] = text[a]
                          /\ a \in conflicts => a \in conflicts',
         answered'[t] = answered[t], written'[t] = written[t],
         \A i \in 1 .. Len(wire') : Parent(wire'[i].of) = t => \E j \in 1 .. Len(wire) : wire[j] = wire'[i],
         QueueOrder(t)', Given(t)' \subseteq Given(t)
  PROVE  OrderInv(t)'
<1>1. \A a \in Of(t) : OnWire(a)' => OnWire(a)
  <2> SUFFICES ASSUME NEW a \in Of(t), NEW i \in 1 .. Len(wire'), wire'[i].of = a
               PROVE  \E j \in 1 .. Len(wire) : wire[j].of = a
    BY DEF OnWire
  <2>1. Parent(wire'[i].of) = t
    BY DEF Of
  <2> QED BY <2>1
<1>2. \A a \in Of(t) : Coming(a)' => Coming(a)
  BY <1>1 DEF Coming, Of
<1>3. Heard(t)' \subseteq Heard(t)
  BY HeardChunks DEF Heard
<1>4. EarlyOrder(t)'
  <2>1. \A a \in Of(t) : InLine(early'[a]) /\ (Coming(a)' => Before(Given(t)', ChunksOf(early'[a])))
    BY <1>2 DEF OrderInv, EarlyOrder, Before
  <2>2. \A a, b \in Of(t) : OnWire(a)' /\ early'[b] # <<>> => b[2] <= a[2]
    BY <1>1 DEF OrderInv, EarlyOrder
  <2> QED BY <2>1, <2>2 DEF EarlyOrder
<1>5. SeenOrder(t)'
  <2>1. \A a \in Of(t) : Coming(a)' /\ a \notin conflicts' =>
          \A h \in Heard(t)' : h \in Chunks(seen'[a]) \/ Before({h}, Chunks(text'[a]))
    BY <1>2, <1>3 DEF OrderInv, SeenOrder
  <2> QED BY <2>1 DEF SeenOrder
<1>6. WireOrder(t)'
  <2> SUFFICES ASSUME NEW i \in 1 .. Len(wire'), wire'[i].kind = "delta", Parent(wire'[i].of) = t
               PROVE  Before(Heard(t)', Chunks(wire'[i].text))
    BY DEF WireOrder
  <2>1. PICK j \in 1 .. Len(wire) : wire[j] = wire'[i]
    OBVIOUS
  <2>2. Before(Heard(t), Chunks(wire'[i].text))
    BY <2>1 DEF OrderInv, WireOrder
  <2> QED BY <1>3, <2>2 DEF Before
<1>7. Heard(t)' \subseteq 1 .. written'[t]
  BY <1>3 DEF OrderInv
<1> QED BY <1>4, <1>5, <1>6, <1>7 DEF OrderInv

\* A queue that is left alone, or closed, holds what it held.
LEMMA ClosingKeepsGiven ==
  ASSUME Inv, NEW t \in Turns, QueueOrder(t), said'[t] = said[t],
         queue'[t] = queue[t] \/ \E ev \in Closings : queue'[t] = Append(queue[t], ev)
  PROVE  QueueOrder(t)' /\ Given(t)' = Given(t)
<1>1. CASE queue'[t] = queue[t]
  BY <1>1 DEF QueueOrder, Given
<1>2. ASSUME NEW ev \in Closings, queue'[t] = Append(queue[t], ev)
      PROVE  QueueOrder(t)' /\ Given(t)' = Given(t)
  <2>1. queue[t] \in Seq(AgentEvents) /\ ev \in AgentEvents /\ ev.text = <<>>
    BY DEF Inv, RouterInv, RouterTypeOK, Closings, Worded
  <2>2. Chunks(ev.text) = {} /\ Ascends(ev.text)
    BY <2>1, NoChunks
  <2>3. ChunksOf(queue'[t]) = ChunksOf(queue[t]) /\ (InLine(queue[t]) => InLine(queue'[t]))
    BY <1>2, <2>1, <2>2, AppendEvents DEF Before
  <2> QED BY <2>3 DEF QueueOrder, Given
<1> QED BY <1>1, <1>2

\* The text the listener finds is new to the turn.
LEMMA NewTextIsNew ==
  ASSUME Inv, HeardOf, NEW t \in Turns, OrderInv(t), NEW e \in RawEvents, e.of \in Of(t),
         Fits(e), e = wire[1], 1 \in 1 .. Len(wire)
  PROVE  /\ NewText(e) \in Texts /\ Ascends(NewText(e)) /\ Chunks(NewText(e)) \subseteq Chunks(e.text)
         /\ Before(Heard(t), Chunks(NewText(e)))
         /\ e.kind \notin {"delta", "updated"} => NewText(e) = <<>>
<1> DEFINE a == e.of
<1>0. /\ e.text \in Texts /\ a \in Answers /\ Parent(a) = t /\ seen[a] \in Texts
      /\ Ascends(e.text) /\ Chunks(e.text) \subseteq Chunks(text[a])
      /\ <<>> \in Texts /\ Chunks(<<>>) = {} /\ Ascends(<<>>)
  BY RawEventKinds, NoChunks, TextsClosed DEF Of, Fits, Inv, RouterInv, RouterTypeOK
<1>1. CASE e.kind = "delta"
  <2>1. NewText(e) = e.text
    BY <1>1 DEF NewText
  <2>2. Before(Heard(t), Chunks(e.text))
    BY <1>0, <1>1 DEF OrderInv, WireOrder
  <2> QED BY <1>0, <1>1, <2>1, <2>2
<1>2. CASE e.kind = "updated" /\ a \notin conflicts /\ IsStartOf(seen[a], e.text)
  <2> DEFINE new == After(seen[a], e.text)
  <2>1. NewText(e) = new
    BY <1>2 DEF NewText
  <2>2. /\ new \in Texts /\ Chunks(e.text) = Chunks(seen[a]) \union Chunks(new)
        /\ Ascends(new) /\ Before(Chunks(seen[a]), Chunks(new))
    BY <1>0, <1>2, AfterTheStart
  <2> HIDE DEF new
  <2>3. Coming(a)
    BY DEF Coming, OnWire
  <2>4. \A h \in Heard(t) : h \in Chunks(seen[a]) \/ Before({h}, Chunks(text[a]))
    BY <1>2, <2>3 DEF OrderInv, SeenOrder
  <2>5. Before(Heard(t), Chunks(new))
    BY <1>0, <2>2, <2>4 DEF Before
  <2> QED BY <1>2, <2>1, <2>2, <2>5
<1>3. CASE e.kind # "delta" /\ ~(e.kind = "updated" /\ a \notin conflicts /\ IsStartOf(seen[a], e.text))
  <2>1. NewText(e) = <<>>
    BY <1>3 DEF NewText
  <2> QED BY <1>0, <2>1 DEF Before
<1> QED BY <1>1, <1>2, <1>3

\* What the router has seen of an answer grows by the new text.
LEMMA RemembersNew ==
  ASSUME Inv, NEW e \in RawEvents, e.of \in Answers, Remembers(e)
  PROVE  /\ \A b \in Answers : b # e.of => seen'[b] = seen[b]
         /\ conflicts \subseteq conflicts' /\ conflicts' \subseteq conflicts \union {e.of}
         /\ e.of \notin conflicts' =>
              e.of \notin conflicts /\ Chunks(seen'[e.of]) = Chunks(seen[e.of]) \union Chunks(NewText(e))
<1> DEFINE a == e.of
<1>0. /\ seen \in [Answers -> Texts] /\ seen[a] \in Texts /\ e.text \in Texts
      /\ Chunks(<<>>) = {}
  BY RawEventKinds, NoChunks DEF Inv, RouterInv, RouterTypeOK
<1>1. CASE /\ e.kind = "delta" /\ a \notin conflicts /\ conflicts' = conflicts
           /\ seen' = [seen EXCEPT ![a] = @ \o e.text]
  <2>1. NewText(e) = e.text /\ seen'[a] = seen[a] \o e.text
    BY <1>0, <1>1 DEF NewText
  <2>2. Chunks(seen[a] \o e.text) = Chunks(seen[a]) \union Chunks(e.text)
    BY <1>0, ConcatChunks
  <2> QED BY <1>0, <1>1, <2>1, <2>2
<1>2. CASE e.kind = "delta" /\ a \in conflicts /\ UNCHANGED <<seen, conflicts>>
  BY <1>2
<1>3. CASE /\ e.kind = "updated" /\ a \notin conflicts /\ IsStartOf(seen[a], e.text)
           /\ conflicts' = conflicts /\ seen' = [seen EXCEPT ![a] = e.text]
  <2>1. NewText(e) = After(seen[a], e.text) /\ seen'[a] = e.text
    BY <1>0, <1>3 DEF NewText
  <2>2. Chunks(e.text) = Chunks(seen[a]) \union Chunks(After(seen[a], e.text))
    BY <1>0, <1>3, AfterTheStart
  <2> QED BY <1>0, <1>3, <2>1, <2>2
<1>4. CASE /\ e.kind = "updated" /\ ~(a \notin conflicts /\ IsStartOf(seen[a], e.text))
           /\ conflicts' = conflicts \union {a} /\ seen' = [seen EXCEPT ![a] = e.text]
  BY <1>0, <1>4
<1>5. CASE e.kind \notin {"delta", "updated"} /\ UNCHANGED <<seen, conflicts>>
  <2>1. NewText(e) = <<>>
    BY <1>5 DEF NewText
  <2> QED BY <1>0, <1>5, <2>1
<1> QED BY <1>1, <1>2, <1>3, <1>4, <1>5 DEF Remembers

\* What is added to the early events of an answer.
LEMMA AddsNew ==
  ASSUME Inv, NEW e, e.of \in Answers, NEW new, Adds(e, new)
  PROVE  /\ new \in Seq(AgentEvents)
         /\ ChunksOf(new) = ChunksOf(early[e.of]) \union Chunks(NewText(e))
         /\ InLine(early[e.of]) /\ Ascends(NewText(e)) /\ Before(ChunksOf(early[e.of]), Chunks(NewText(e)))
              => InLine(new)
<1>1. early[e.of] \in Seq(AgentEvents)
  BY DEF Inv, RouterInv, RouterTypeOK
<1>2. CASE new = early[e.of] /\ NewText(e) = <<>>
  BY <1>1, <1>2, NoChunks
<1>3. ASSUME NEW ev \in Worded, ev.text = NewText(e), new = Append(early[e.of], ev)
      PROVE  /\ new \in Seq(AgentEvents)
             /\ ChunksOf(new) = ChunksOf(early[e.of]) \union Chunks(NewText(e))
             /\ InLine(early[e.of]) /\ Ascends(NewText(e)) /\ Before(ChunksOf(early[e.of]), Chunks(NewText(e)))
                  => InLine(new)
  BY <1>1, <1>3, AppendEvents DEF Worded
<1> QED BY <1>2, <1>3 DEF Adds

\* What turn t has heard grows by the new text of an event of its answers.
LEMMA HearingAdds ==
  ASSUME Inv, NEW t \in Turns, NEW e, HearsAnswer(e), Parent(e.of) = t, UNCHANGED said,
         Chunks(NewText(e)) \subseteq 0 .. MaxChunks
  PROVE  Heard(t)' = Heard(t) \union Chunks(NewText(e))
<1> DEFINE a == e.of
           NT == Chunks(NewText(e))
<1>1. a \in Answers /\ a \in Of(t) /\ Parent(a) = t
  BY DEF HearsAnswer, Of
<1>2. PICK new \in Seq(AgentEvents) : Adds(e, new) /\ Moves(a, new)
  BY DEF HearsAnswer
<1>3. ChunksOf(new) = ChunksOf(early[a]) \union NT
  BY <1>1, <1>2, AddsNew
<1>4. /\ queue \in [Turns -> Seq(AgentEvents)] /\ early \in [Answers -> Seq(AgentEvents)]
      /\ said[t] \in Texts
  BY DEF Inv, RouterInv, RouterTypeOK, TurnsTypeOK
<1>5. Chunks(said[t]) \subseteq 0 .. MaxChunks /\ ChunksOf(<<>>) = {}
  BY <1>4, TextsAreNumbers, NoEvents
<1>6. \A q : ChunksOf(q) \subseteq 0 .. MaxChunks
  BY DEF ChunksOf
<1> HIDE DEF a, NT
<1>7. ASSUME \A b \in Of(t) : b # a => early'[b] = early[b],
             \/ Given(t)' = Given(t) /\ ChunksOf(early'[a]) = ChunksOf(new)
             \/ Given(t)' = Given(t) \union ChunksOf(new) /\ early'[a] = <<>>
      PROVE  Heard(t)' = Heard(t) \union NT
  <2>1. Heard(t)' = {c \in 0 .. MaxChunks : c \in Given(t)' \/ \E b \in Of(t) : c \in ChunksOf(early'[b])}
    BY DEF Heard
  <2>2. \A c \in 0 .. MaxChunks :
          (c \in Given(t)' \/ \E b \in Of(t) : c \in ChunksOf(early'[b]))
            <=> c \in Given(t) \/ c \in NT \/ \E b \in Of(t) : c \in ChunksOf(early[b])
    BY <1>1, <1>3, <1>5, <1>7
  <2>3. NT \subseteq 0 .. MaxChunks
    BY DEF NT
  <2> QED BY <2>1, <2>2, <2>3 DEF Heard
<1>8. CASE UNCHANGED queue /\ early' = [early EXCEPT ![a] = new]
  <2>1. early'[a] = new /\ \A b \in Of(t) : b # a => early'[b] = early[b]
    BY <1>1, <1>4, <1>8 DEF Of
  <2>2. Given(t)' = Given(t)
    BY <1>8 DEF Given
  <2> QED BY <1>7, <2>1, <2>2 DEF a, NT
<1>9. CASE /\ current = Parent(a) /\ queue' = [queue EXCEPT ![current] = @ \o new]
           /\ early' = [early EXCEPT ![a] = <<>>]
  <2>1. /\ queue'[t] = queue[t] \o new /\ early'[a] = <<>>
        /\ \A b \in Of(t) : b # a => early'[b] = early[b]
    BY <1>1, <1>4, <1>9 DEF Of
  <2>2. ChunksOf(queue'[t]) = ChunksOf(queue[t]) \union ChunksOf(new)
    BY <1>2, <1>4, <2>1, ConcatEvents
  <2>3. Given(t)' = Given(t) \union ChunksOf(new)
    BY <2>1, <2>2 DEF Given
  <2> QED BY <1>7, <2>1, <2>3 DEF a, NT
<1> QED BY <1>2, <1>8, <1>9 DEF Moves, a

\* An event of an answer to the turn is taken off the wire.
LEMMA HearingKeepsOrder ==
  ASSUME Inv, Inv', HeardOf, NEW t \in Turns, OrderInv(t), Listen,
         HearsAnswer(Head(wire)), Parent(Head(wire).of) = t
  PROVE  OrderInv(t)'
<1> DEFINE e == Head(wire)
           a == e.of
           NT == Chunks(NewText(e))
<1>1. /\ e \in RawEvents /\ e = wire[1] /\ 1 \in 1 .. Len(wire) /\ Fits(e)
      /\ wire' = Tail(wire) /\ UNCHANGED <<current, said, status, text, answered, written>>
      /\ a \in Answers /\ a \in Of(t) /\ Parent(a) = t
  BY ListenHears DEF turnVars, serverVars, HearsAnswer, Of
<1>2. PICK new \in Seq(AgentEvents) : Adds(e, new) /\ Moves(a, new)
  BY DEF HearsAnswer
<1>3. /\ Len(wire) \in Nat
      /\ \A i \in 1 .. Len(wire') : i + 1 \in 1 .. Len(wire) /\ wire'[i] = wire[i + 1] /\ Follows(e, wire'[i])
  <2>1. /\ Len(wire) \in Nat /\ Len(wire') = Len(wire) - 1
        /\ \A i \in 1 .. Len(wire') : i + 1 \in 1 .. Len(wire) /\ wire'[i] = wire[i + 1]
    BY <1>1, HeadTailProperties DEF Listen, Inv, StreamTypeOK
  <2> SUFFICES ASSUME NEW i \in 1 .. Len(wire') PROVE Follows(e, wire'[i])
    BY <2>1
  <2>2. 1 \in 1 .. (i + 1) - 1 /\ i + 1 \in 1 .. Len(wire) /\ wire'[i] = wire[i + 1]
    BY <2>1
  <2>3. Follows(wire[1], wire[i + 1])
    BY <2>2 DEF HeardOf, WireInv
  <2> QED BY <1>1, <2>2, <2>3
<1>s. Remembers(e)
  BY DEF HearsAnswer
<1>c. /\ a[2] \in Nat /\ a[2] <= answered[t] /\ answered[t] \in Nat
      /\ \A b \in Of(t) : b \in Answers /\ b[2] \in Nat /\ (b # a => b[2] # a[2])
  <2>1. \A b \in Of(t) : b \in Answers /\ b[2] \in Nat /\ b = <<t, b[2]>>
    BY CountsAreNumbers DEF Of, Answers, Parent
  <2>2. a[2] <= answered[t]
    BY <1>1 DEF Fits
  <2> QED BY <1>1, <2>1, <2>2, CountsAreNumbers
<1>d. /\ Chunks(e.text) \subseteq Chunks(text[a]) /\ Chunks(text[a]) \subseteq 1 .. written[t]
      /\ \A b \in Of(t) : a[2] < b[2] => Before(Chunks(text[a]), Chunks(text[b]))
  BY <1>1 DEF Fits, HeardOf, WritingInv, Of
<1>e. \A b \in Answers : early[b] \in Seq(AgentEvents)
  BY DEF Inv, RouterInv, RouterTypeOK
<1>q. queue \in [Turns -> Seq(AgentEvents)] /\ early \in [Answers -> Seq(AgentEvents)]
  BY DEF Inv, RouterInv, RouterTypeOK
<1>4. /\ NewText(e) \in Texts /\ Ascends(NewText(e)) /\ NT \subseteq Chunks(e.text)
      /\ Before(Heard(t), NT)
  BY <1>1, NewTextIsNew
<1>5. /\ \A b \in Answers : b # a => seen'[b] = seen[b]
      /\ conflicts \subseteq conflicts' /\ conflicts' \subseteq conflicts \union {a}
      /\ a \notin conflicts' => a \notin conflicts /\ Chunks(seen'[a]) = Chunks(seen[a]) \union NT
  BY <1>1, <1>s, RemembersNew
<1>6. /\ ChunksOf(new) = ChunksOf(early[a]) \union NT
      /\ InLine(early[a]) /\ Ascends(NewText(e)) /\ Before(ChunksOf(early[a]), NT) => InLine(new)
  BY <1>1, <1>2, AddsNew
<1>7. OnWire(a) /\ Coming(a)
  BY <1>1 DEF OnWire, Coming
<1>8. /\ \A i \in 1 .. Len(wire') : wire'[i].of \in Of(t) => a[2] <= wire'[i].of[2]
      /\ \A i \in 1 .. Len(wire') : wire'[i].kind = "delta" /\ Parent(wire'[i].of) = t =>
           Before(Chunks(e.text), Chunks(wire'[i].text)) /\ Before(Heard(t), Chunks(wire'[i].text))
  <2>1. \A i \in 1 .. Len(wire') : wire'[i].of \in Of(t) => a[2] <= wire'[i].of[2]
    BY <1>1, <1>3 DEF Follows, Of
  <2>2. ASSUME NEW i \in 1 .. Len(wire'), wire'[i].kind = "delta", Parent(wire'[i].of) = t
        PROVE  Before(Chunks(e.text), Chunks(wire'[i].text)) /\ Before(Heard(t), Chunks(wire'[i].text))
    <3>1. wire'[i] \in RawEvents
      <4>1. wire' \in Seq(RawEvents)
        BY DEF Inv, StreamTypeOK
      <4> QED BY <4>1, ElementOfSeq
    <3>2. wire'[i].of \in Answers
      BY <2>2, <3>1, RawEventKinds
    <3>3. Before(Chunks(e.text), Chunks(wire'[i].text))
      BY <1>1, <1>3, <2>2, <3>2 DEF Follows
    <3>4. Before(Heard(t), Chunks(wire'[i].text))
      BY <1>3, <2>2 DEF OrderInv, WireOrder
    <3> QED BY <3>3, <3>4
  <2> QED BY <2>1, <2>2
<1> HIDE DEF e, a, NT
<1>9. \A b \in Of(t) : /\ OnWire(b)' => OnWire(b) /\ a[2] <= b[2]
                       /\ Coming(b)' => Coming(b) /\ a[2] <= b[2]
  <2> TAKE b \in Of(t)
  <2>1. OnWire(b)' => OnWire(b) /\ a[2] <= b[2]
    BY <1>3, <1>8 DEF OnWire
  <2>2. Parent(b) = t /\ answered'[t] = answered[t]
    BY <1>1 DEF Of
  <2> QED BY <1>c, <2>1, <2>2 DEF Coming
<1>h. /\ Given(t) \subseteq Heard(t) /\ \A b \in Of(t) : ChunksOf(early[b]) \subseteq Heard(t)
      /\ \A h \in Heard(t) : h \in Given(t) \/ \E b \in Of(t) : h \in ChunksOf(early[b])
  BY HeardChunks
<1>i. InLine(new)
  <2>1. InLine(early[a]) /\ Before(ChunksOf(early[a]), NT)
    BY <1>1, <1>4, <1>h DEF OrderInv, EarlyOrder, Before
  <2> QED BY <1>4, <1>6, <2>1
\* An answer with early events that is still to come is not an earlier one.
<1>j. \A b \in Of(t) : Coming(b)' /\ b # a => early[b] = <<>>
  <2> SUFFICES ASSUME NEW b \in Of(t), Coming(b)', b # a, early[b] # <<>> PROVE FALSE
    OBVIOUS
  <2>1. b[2] <= a[2] /\ a[2] <= b[2]
    BY <1>1, <1>7, <1>9 DEF OrderInv, EarlyOrder
  <2> QED BY <1>c, <2>1
\* What is heard after the step.
<1>10. ASSUME \A b \in Of(t) : b # a => early'[b] = early[b],
              \/ Given(t)' = Given(t) /\ ChunksOf(early'[a]) = ChunksOf(new)
              \/ Given(t)' = Given(t) \union ChunksOf(new) /\ early'[a] = <<>>
       PROVE  SeenOrder(t)' /\ WireOrder(t)' /\ Heard(t)' \subseteq 1 .. written'[t]
  <2>1. Heard(t)' \subseteq Heard(t) \union NT
    <3>1. Chunks(NewText(e)) \subseteq 0 .. MaxChunks
      BY <1>4, TextsAreNumbers
    <3> QED BY <1>1, <3>1, HearingAdds DEF e, a, NT
  <2>2. SeenOrder(t)'
    <3> SUFFICES ASSUME NEW b \in Of(t), Coming(b)', b \notin conflicts', NEW h \in Heard(t) \union NT
                 PROVE  h \in Chunks(seen'[b]) \/ Before({h}, Chunks(text'[b]))
      BY <2>1 DEF SeenOrder
    <3>1. Coming(b) /\ a[2] <= b[2] /\ b \notin conflicts /\ text'[b] = text[b]
      BY <1>1, <1>5, <1>9
    <3>2. h \in Heard(t) => h \in Chunks(seen[b]) \/ Before({h}, Chunks(text[b]))
      BY <3>1 DEF OrderInv, SeenOrder
    <3>3. CASE b = a
      BY <1>5, <3>1, <3>2, <3>3
    <3>4. CASE b # a
      <4>1. seen'[b] = seen[b] /\ a[2] < b[2]
        BY <1>5, <1>c, <3>1, <3>4
      <4>2. h \in NT => Before({h}, Chunks(text[b]))
        BY <1>4, <1>d, <4>1 DEF Before
      <4> QED BY <3>1, <3>2, <4>1, <4>2
    <3> QED BY <3>3, <3>4
  <2>3. WireOrder(t)'
    <3> SUFFICES ASSUME NEW i \in 1 .. Len(wire'), wire'[i].kind = "delta", Parent(wire'[i].of) = t
                 PROVE  Before(Heard(t)', Chunks(wire'[i].text))
      BY DEF WireOrder
    <3>1. Before(Chunks(e.text), Chunks(wire'[i].text)) /\ Before(Heard(t), Chunks(wire'[i].text))
      BY <1>8
    <3> QED BY <1>4, <2>1, <3>1 DEF Before
  <2>4. Heard(t)' \subseteq 1 .. written'[t]
    BY <1>1, <1>4, <1>d, <2>1 DEF OrderInv
  <2> QED BY <2>2, <2>3, <2>4
<1>11. CASE /\ UNCHANGED <<queue, bound>> /\ early' = [early EXCEPT ![a] = new]
  <2>1. early'[a] = new /\ \A b \in Of(t) : b # a => early'[b] = early[b]
    BY <1>1, <1>q, <1>11 DEF Of
  <2>2. Given(t)' = Given(t) /\ QueueOrder(t)'
    BY <1>1, <1>11 DEF Given, QueueOrder, OrderInv
  <2>3. Before(Given(t), ChunksOf(new))
    BY <1>1, <1>4, <1>6, <1>7, <1>h DEF OrderInv, EarlyOrder, Before
  <2>4. \A b \in Of(t) : InLine(early'[b]) /\ (Coming(b)' => Before(Given(t)', ChunksOf(early'[b])))
    <3> TAKE b \in Of(t)
    <3>1. CASE b = a
      BY <1>i, <2>1, <2>2, <2>3, <3>1
    <3>2. CASE b # a
      BY <1>9, <2>1, <2>2, <3>2 DEF OrderInv, EarlyOrder
    <3> QED BY <3>1, <3>2
  <2>5. \A c, b \in Of(t) : OnWire(c)' /\ early'[b] # <<>> => b[2] <= c[2]
    <3> TAKE c \in Of(t), b \in Of(t)
    <3>1. CASE b = a
      BY <1>9, <3>1
    <3>2. CASE b # a
      BY <1>9, <2>1, <3>2 DEF OrderInv, EarlyOrder
    <3> QED BY <3>1, <3>2
  <2>6. EarlyOrder(t)'
    BY <2>4, <2>5 DEF EarlyOrder
  <2>7. SeenOrder(t)' /\ WireOrder(t)' /\ Heard(t)' \subseteq 1 .. written'[t]
    BY <1>10, <2>1, <2>2
  <2> QED BY <2>2, <2>6, <2>7 DEF OrderInv
<1>12. CASE /\ current = Parent(a) /\ queue' = [queue EXCEPT ![current] = @ \o new]
            /\ early' = [early EXCEPT ![a] = <<>>]
  <2>1. /\ queue'[t] = queue[t] \o new /\ early'[a] = <<>> /\ said'[t] = said[t]
        /\ \A b \in Of(t) : b # a => early'[b] = early[b]
    BY <1>1, <1>q, <1>12 DEF Of
  <2>2. /\ ChunksOf(queue'[t]) = ChunksOf(queue[t]) \union ChunksOf(new)
        /\ InLine(queue[t]) /\ InLine(new) /\ Before(ChunksOf(queue[t]), ChunksOf(new)) => InLine(queue'[t])
    BY <1>2, <1>q, <2>1, ConcatEvents
  <2>3. Given(t)' = Given(t) \union ChunksOf(new)
    BY <2>1, <2>2 DEF Given
  <2>4. Before(Given(t), ChunksOf(new))
    BY <1>1, <1>4, <1>6, <1>7, <1>h DEF OrderInv, EarlyOrder, Before
  <2>5. QueueOrder(t)'
    <3>1. Before(ChunksOf(queue[t]), ChunksOf(new)) /\ Before(Chunks(said[t]), ChunksOf(new))
      BY <2>4 DEF Given, Before
    <3>2. InLine(queue[t]) /\ Before(Chunks(said[t]), ChunksOf(queue[t]))
      BY DEF OrderInv, QueueOrder
    <3>3. InLine(queue'[t])
      BY <1>i, <2>2, <3>1, <3>2
    <3>4. Before(Chunks(said'[t]), ChunksOf(queue'[t]))
      BY <2>1, <2>2, <3>1, <3>2 DEF Before
    <3> QED BY <3>3, <3>4 DEF QueueOrder
  <2>e. ChunksOf(<<>>) = {} /\ InLine(<<>>)
    BY NoEvents
  <2>6. \A b \in Of(t) : InLine(early'[b]) /\ (Coming(b)' => Before(Given(t)', ChunksOf(early'[b])))
    <3> TAKE b \in Of(t)
    <3>1. CASE b = a
      BY <2>1, <2>e, <3>1 DEF Before
    <3>2. CASE b # a
      <4>1. early'[b] = early[b] /\ InLine(early[b]) /\ (Coming(b)' => early[b] = <<>>)
        BY <1>j, <2>1, <3>2 DEF OrderInv, EarlyOrder
      <4> QED BY <2>e, <4>1 DEF Before
    <3> QED BY <3>1, <3>2
  <2>7. \A c, b \in Of(t) : OnWire(c)' /\ early'[b] # <<>> => b[2] <= c[2]
    BY <1>9, <2>1 DEF OrderInv, EarlyOrder
  <2>8. EarlyOrder(t)'
    BY <2>6, <2>7 DEF EarlyOrder
  <2>9. SeenOrder(t)' /\ WireOrder(t)' /\ Heard(t)' \subseteq 1 .. written'[t]
    BY <1>10, <2>1, <2>3
  <2> QED BY <2>5, <2>8, <2>9 DEF OrderInv
<1> QED BY <1>2, <1>11, <1>12 DEF Moves

\* The listener's other events change nothing turn t is given, but may close its queue.
LEMMA OthersAreHeardApart ==
  ASSUME Inv, NEW t \in Turns,
         HearsPrompt(Head(wire)) \/ (HearsAnswer(Head(wire)) /\ Parent(Head(wire).of) # t)
  PROVE  /\ \A b \in Of(t) : /\ early'[b] = early[b] /\ seen'[b] = seen[b]
                             /\ (b \in conflicts <=> b \in conflicts')
         /\ queue'[t] = queue[t] \/ \E ev \in Closings : queue'[t] = Append(queue[t], ev)
<1> DEFINE e == Head(wire)
           a == e.of
<1>1. /\ queue \in [Turns -> Seq(AgentEvents)] /\ early \in [Answers -> Seq(AgentEvents)]
      /\ seen \in [Answers -> Texts]
  BY DEF Inv, RouterInv, RouterTypeOK
<1> HIDE DEF e
<1>2. CASE HearsPrompt(e)
  BY <1>1, <1>2 DEF HearsPrompt
<1>3. CASE HearsAnswer(e) /\ Parent(a) # t
  <2>1. PICK new \in Seq(AgentEvents) : Moves(a, new)
    BY <1>3 DEF HearsAnswer
  <2>2. Remembers(e) /\ a \in Answers
    BY <1>3 DEF HearsAnswer
  <2> HIDE DEF a
  <2>3. \A b \in Of(t) : b \in Answers /\ b # a
    BY <1>3 DEF Of
  <2>4. /\ \A b \in Of(t) : early'[b] = early[b]
        /\ queue'[t] = queue[t]
    BY <1>1, <1>3, <2>1, <2>2, <2>3 DEF Moves
  <2>5. \A b \in Of(t) : seen'[b] = seen[b] /\ (b \in conflicts <=> b \in conflicts')
    BY <1>1, <2>2, <2>3 DEF Remembers, a
  <2> QED BY <2>4, <2>5
<1> QED BY <1>2, <1>3 DEF e

LEMMA HearingOthersKeepsOrder ==
  ASSUME Inv, Inv', HeardOf, NEW t \in Turns, OrderInv(t), Listen,
         HearsPrompt(Head(wire)) \/ (HearsAnswer(Head(wire)) /\ Parent(Head(wire).of) # t)
  PROVE  OrderInv(t)'
<1>1. /\ wire' = Tail(wire) /\ UNCHANGED <<current, said, status, text, answered, written>>
  BY ListenHears DEF turnVars, serverVars
<1>2. \A i \in 1 .. Len(wire') : i + 1 \in 1 .. Len(wire) /\ wire'[i] = wire[i + 1]
  BY <1>1, HeadTailProperties DEF Listen, Inv, StreamTypeOK
<1>3. /\ \A b \in Of(t) : /\ early'[b] = early[b] /\ seen'[b] = seen[b]
                          /\ b \in conflicts => b \in conflicts'
      /\ queue'[t] = queue[t] \/ \E ev \in Closings : queue'[t] = Append(queue[t], ev)
  BY OthersAreHeardApart
<1>4. QueueOrder(t)' /\ Given(t)' = Given(t)
  BY <1>1, <1>3, ClosingKeepsGiven DEF OrderInv
<1>5. \A i \in 1 .. Len(wire') : Parent(wire'[i].of) = t => \E j \in 1 .. Len(wire) : wire[j] = wire'[i]
  BY <1>2
<1> QED BY <1>1, <1>3, <1>4, <1>5, LessIsInOrder

\* The server writes more.
LEMMA ServingKeepsOrder ==
  ASSUME Inv, Inv', HeardOf, NEW t \in Turns, OrderInv(t), NEW u \in Turns, Serves(u)
  PROVE  OrderInv(t)'
<1>1. PICK s \in Seq(RawEvents) : SentBy(u, s) /\ wire' = wire \o s
  BY DEF Serves
<1>2. \A i \in 1 .. Len(wire') :
        \/ i \in 1 .. Len(wire) /\ wire'[i] = wire[i]
        \/ i - Len(wire) \in 1 .. Len(s) /\ wire'[i] = s[i - Len(wire)]
  <2>1. wire \in Seq(RawEvents)
    BY DEF Inv, StreamTypeOK
  <2>2. /\ Len(wire) \in Nat /\ Len(s) \in Nat /\ Len(wire \o s) = Len(wire) + Len(s)
        /\ \A i \in 1 .. Len(wire) + Len(s) :
             (wire \o s)[i] = IF i <= Len(wire) THEN wire[i] ELSE s[i - Len(wire)]
    BY <2>1, ConcatProperties
  <2> QED BY <1>1, <2>2
<1>3. UNCHANGED <<queue, early, seen, conflicts, said>>
  BY DEF Serves, routerVars, turnVars
<1>4. QueueOrder(t)' /\ Given(t)' = Given(t) /\ Heard(t)' = Heard(t)
  BY <1>3 DEF OrderInv, QueueOrder, Given, Heard
<1>5. /\ \A a \in Answers : Chunks(text[a]) \subseteq Chunks(text'[a])
      /\ \A v \in Turns : /\ answered[v] \in Nat /\ answered'[v] \in Nat /\ answered[v] <= answered'[v]
                          /\ written[v] \in Nat /\ written'[v] \in Nat /\ written[v] <= written'[v]
                          /\ v # u => answered'[v] = answered[v] /\ written'[v] = written[v]
  BY ServesGrows DEF HeardOf
<1>6. \A a \in Of(t) : a \in Answers /\ Parent(a) = t /\ a[2] \in Nat
  BY CountsAreNumbers DEF Of
<1>7. CASE u # t
  <2>1. \A i \in 1 .. Len(wire') : Parent(wire'[i].of) = t => \E j \in 1 .. Len(wire) : wire[j] = wire'[i]
    BY <1>1, <1>2, <1>7 DEF SentBy
  <2>2. answered'[t] = answered[t] /\ written'[t] = written[t]
    BY <1>5, <1>7
  <2>3. \A a \in Of(t) : text'[a] = text[a]
    <3>1. CASE text' = text
      BY <3>1
    <3>2. CASE Writes(u)
      <4>1. /\ Parent(LastAnswer(u)) = u
            /\ \A b \in Answers : b # LastAnswer(u) => text'[b] = text[b]
        BY <3>2, WritesAdds DEF HeardOf
      <4> QED BY <1>6, <1>7, <4>1
    <3> QED BY <3>1, <3>2 DEF Serves, Begins
  <2> QED BY <1>3, <1>4, <2>1, <2>2, <2>3, LessIsInOrder
<1>8. CASE u = t
  <2>1. \A a \in Of(t) : OnWire(a)' => OnWire(a) \/ a[2] = answered'[t]
    <3> SUFFICES ASSUME NEW a \in Of(t), NEW i \in 1 .. Len(wire'), wire'[i].of = a
                 PROVE  OnWire(a) \/ a[2] = answered'[t]
      BY DEF OnWire
    <3>1. CASE i \in 1 .. Len(wire) /\ wire'[i] = wire[i]
      BY <3>1 DEF OnWire
    <3>2. CASE i - Len(wire) \in 1 .. Len(s) /\ wire'[i] = s[i - Len(wire)]
      BY <1>1, <1>6, <1>8, <3>2 DEF SentBy
    <3> QED BY <1>2, <3>1, <3>2
  <2>2. \A a \in Of(t) : Coming(a)' => OnWire(a) \/ a[2] = answered'[t]
    BY <1>6, <2>1 DEF Coming
  <2>3. \A a \in Of(t) :
          /\ a[2] > answered[t] => early[a] = <<>> /\ text[a] = <<>>
          /\ a[2] = answered[t] => Coming(a)
    BY <1>6 DEF HeardOf, AnsweredInv, WritingInv, Coming
  <2>n. ChunksOf(<<>>) = {} /\ Chunks(<<>>) = {}
    BY NoEvents, NoChunks
  <2>a. \A a \in Of(t) : Coming(a)' /\ ~Coming(a) => a[2] > answered[t]
    <3> TAKE a \in Of(t)
    <3>1. a[2] \in Nat /\ answered[t] \in Nat /\ answered'[t] \in Nat /\ answered[t] <= answered'[t]
      BY <1>5, <1>6
    <3> QED BY <2>2, <2>3, <3>1 DEF Coming
  <2>4. EarlyOrder(t)'
    <3>1. \A a \in Of(t) : InLine(early'[a]) /\ (Coming(a)' => Before(Given(t)', ChunksOf(early'[a])))
      <4> TAKE a \in Of(t)
      <4>1. CASE Coming(a)
        BY <1>3, <1>4, <4>1 DEF OrderInv, EarlyOrder
      <4>2. CASE ~Coming(a)
        <5>1. InLine(early'[a]) /\ (Coming(a)' => ChunksOf(early'[a]) = {})
          BY <1>3, <2>3, <2>a, <2>n, <4>2 DEF OrderInv, EarlyOrder
        <5> QED BY <5>1 DEF Before
      <4> QED BY <4>1, <4>2
    <3>2. \A a, b \in Of(t) : OnWire(a)' /\ early'[b] # <<>> => b[2] <= a[2]
      <4> TAKE a \in Of(t), b \in Of(t)
      <4>1. early[b] # <<>> => b[2] <= answered[t]
        BY <1>5, <1>6, <2>3
      <4>2. a[2] = answered'[t] /\ early[b] # <<>> => b[2] <= a[2]
        BY <1>5, <1>6, <4>1
      <4> QED BY <1>3, <2>1, <4>2 DEF OrderInv, EarlyOrder
    <3> QED BY <3>1, <3>2 DEF EarlyOrder
  <2>5. SeenOrder(t)'
    <3> SUFFICES ASSUME NEW a \in Of(t), Coming(a)', a \notin conflicts, NEW h \in Heard(t)
                 PROVE  h \in Chunks(seen[a]) \/ Before({h}, Chunks(text'[a]))
      BY <1>3, <1>4 DEF SeenOrder
    <3>1. h \in Chunks(seen[a]) \/ Before({h}, Chunks(text[a]))
      <4>1. CASE Coming(a)
        BY <4>1 DEF OrderInv, SeenOrder
      <4>2. CASE ~Coming(a)
        BY <2>3, <2>a, <2>n, <4>2 DEF Before
      <4> QED BY <4>1, <4>2
    <3>2. CASE text'[a] = text[a]
      BY <3>1, <3>2
    <3>3. CASE Writes(u)
      <4>1. /\ written[t] \in Nat /\ written'[t] = written[t] + 1
            /\ Chunks(text'[LastAnswer(u)]) = Chunks(text[LastAnswer(u)]) \union {written'[t]}
            /\ \A b \in Answers : b # LastAnswer(u) => text'[b] = text[b]
        BY <1>8, <3>3, WritesAdds DEF HeardOf
      <4>2. Chunks(text'[a]) \subseteq Chunks(text[a]) \union {written'[t]}
        <5>1. CASE a = LastAnswer(u)
          BY <4>1, <5>1
        <5>2. CASE a # LastAnswer(u)
          <6>1. text'[a] = text[a]
            BY <1>6, <4>1, <5>2
          <6> QED BY <6>1
        <5> QED BY <5>1, <5>2
      <4>3. h \in 1 .. written[t]
        BY DEF OrderInv
      <4>4. Before({h}, {written'[t]})
        BY <4>1, <4>3 DEF Before
      <4> QED BY <3>1, <4>2, <4>4 DEF Before
    <3> QED BY <3>2, <3>3 DEF Serves, Begins
  <2>6. WireOrder(t)'
    <3> SUFFICES ASSUME NEW i \in 1 .. Len(wire'), wire'[i].kind = "delta", Parent(wire'[i].of) = t
                 PROVE  Before(Heard(t), Chunks(wire'[i].text))
      BY <1>4 DEF WireOrder
    <3>1. CASE i \in 1 .. Len(wire) /\ wire'[i] = wire[i]
      BY <3>1 DEF OrderInv, WireOrder
    <3>2. CASE i - Len(wire) \in 1 .. Len(s) /\ wire'[i] = s[i - Len(wire)]
      <4>1. wire'[i].text = <<written'[t]>> /\ written'[t] = written[t] + 1
        BY <1>1, <1>8, <3>2 DEF SentBy
      <4>2. Chunks(wire'[i].text) = {written[t] + 1}
        BY <4>1, OneChunk
      <4>3. Heard(t) \subseteq 1 .. written[t] /\ written[t] \in Nat
        BY <1>5 DEF OrderInv
      <4> QED BY <4>2, <4>3 DEF Before
    <3> QED BY <1>2, <3>1, <3>2
  <2>7. Heard(t)' \subseteq 1 .. written'[t]
    <3>1. 1 .. written[t] \subseteq 1 .. written'[t]
      BY <1>5
    <3> QED BY <1>4, <3>1 DEF OrderInv
  <2> QED BY <1>4, <2>4, <2>5, <2>6, <2>7 DEF OrderInv
<1> QED BY <1>7, <1>8

\* A turn starts with nothing heard of it.
LEMMA StartIsInOrder ==
  ASSUME Inv, Inv', FreshInv, HeardOf, NEW t \in Turns, StartTurn(t)
  PROVE  OrderInv(t)' /\ said'[t] = <<>>
<1>1. /\ status[t] = "none" /\ queue'[t] = <<>> /\ said' = said
      /\ UNCHANGED <<wire, early, seen, conflicts, text, answered, written>>
  BY DEF StartTurn, register, streamVars, serverVars, Inv, RouterInv, RouterTypeOK
<1>2. said'[t] = <<>>
  BY <1>1 DEF HeardOf, CountsInv
<1>3. t \notin Started
  BY <1>1 DEF Started
<1>4. \A a \in Of(t) : early'[a] = <<>>
  BY <1>1, <1>3 DEF Of, FreshInv
<1>5. \A i \in 1 .. Len(wire') : Parent(wire'[i].of) # t
  <2>1. \A i \in 1 .. Len(wire) : wire[i] \in OfStarted
    BY ElementOfSeq DEF FreshInv
  <2> QED BY <1>1, <1>3, <2>1 DEF OfStarted
<1>6. /\ Chunks(<<>>) = {} /\ ChunksOf(<<>>) = {} /\ InLine(<<>>)
  BY NoChunks, NoEvents
<1>7. Given(t)' = {} /\ Heard(t)' = {} /\ QueueOrder(t)'
  <2>1. Given(t)' = {}
    BY <1>1, <1>2, <1>6 DEF Given
  <2>2. QueueOrder(t)'
    BY <1>1, <1>2, <1>6 DEF QueueOrder, Before
  <2>3. Heard(t)' = {}
    BY <1>4, <1>6, <2>1 DEF Heard
  <2> QED BY <2>1, <2>2, <2>3
<1>8. EarlyOrder(t)'
  BY <1>4, <1>6, <1>7 DEF EarlyOrder, Before
<1> QED BY <1>2, <1>5, <1>7, <1>8 DEF OrderInv, SeenOrder, WireOrder

\* Taking the next event moves its text from the queue to what is said.
LEMMA TakingKeepsOrder ==
  ASSUME Inv, Inv', NEW t \in Turns, Ascends(said[t]), OrderInv(t), queue[t] # <<>>,
         queue'[t] = Tail(queue[t]),
         said'[t] = said[t] \/ said'[t] = said[t] \o Head(queue[t]).text,
         UNCHANGED <<wire, early, seen, conflicts, text, answered, written>>
  PROVE  Ascends(said'[t]) /\ OrderInv(t)'
<1> DEFINE e == Head(queue[t])
           q == Tail(queue[t])
<1>1. queue[t] \in Seq(AgentEvents) /\ said[t] \in Texts
  BY DEF Inv, RouterInv, RouterTypeOK, TurnsTypeOK
<1>2. InLine(queue[t]) /\ Before(Chunks(said[t]), ChunksOf(queue[t]))
  BY DEF OrderInv, QueueOrder
<1>3. /\ e \in AgentEvents /\ ChunksOf(queue[t]) = Chunks(e.text) \union ChunksOf(q)
      /\ Ascends(e.text) /\ InLine(q) /\ Before(Chunks(e.text), ChunksOf(q))
  BY <1>1, <1>2, TakeFirst
<1>4. e.text \in Texts
  BY <1>3 DEF AgentEvents
<1> HIDE DEF e, q
<1>5. /\ Chunks(said[t] \o e.text) = Chunks(said[t]) \union Chunks(e.text)
      /\ Ascends(said[t] \o e.text)
  <2>1. Before(Chunks(said[t]), Chunks(e.text))
    BY <1>2, <1>3 DEF Before
  <2> QED BY <1>1, <1>3, <1>4, <2>1, ConcatChunks
<1>6. queue'[t] = q /\ said'[t] \in {said[t], said[t] \o e.text}
  BY DEF e, q
<1>7. Ascends(said'[t])
  BY <1>5, <1>6
<1>8. Chunks(said'[t]) \subseteq Chunks(said[t]) \union Chunks(e.text)
  BY <1>5, <1>6
<1>9. Given(t)' \subseteq Given(t)
  BY <1>3, <1>6, <1>8 DEF Given
<1>10. QueueOrder(t)'
  BY <1>2, <1>3, <1>6, <1>8 DEF QueueOrder, Before
<1> QED BY <1>7, <1>9, <1>10, LessIsInOrder

\* What session_messages adds makes what is said the text the server read.
LEMMA BackfillCompletes ==
  ASSUME Inv, NEW t \in Turns
  PROVE  \/ Backfill(t) = <<>> /\ said[t] \o Backfill(t) = said[t]
         \/ reply[t].state = "answered" /\ said[t] \o Backfill(t) = reply[t].text
<1>1. said[t] \in Texts /\ reply[t].text \in Texts
  BY DEF Inv, TurnsTypeOK
<1>2. CASE reply[t].state = "answered" /\ IsStartOf(said[t], reply[t].text)
  <2>1. said[t] \o After(said[t], reply[t].text) = reply[t].text
    BY <1>1, <1>2, AfterTheStart
  <2> QED BY <1>2, <2>1 DEF Backfill
<1>3. CASE ~(reply[t].state = "answered" /\ IsStartOf(said[t], reply[t].text))
  <2>1. Backfill(t) = <<>>
    BY <1>3 DEF Backfill
  <2> QED BY <1>1, <2>1 DEF Texts
<1> QED BY <1>2, <1>3

LEMMA TurnKeepsOrder ==
  ASSUME Inv, Inv', FreshInv, HeardOf, RepliesInv, OrderedInv, NEW t \in Turns, TurnNext(t)
  PROVE  OrderedInv'
<1>0. TurnSteps(t)
  BY TurnsStep
<1>1. UNCHANGED <<early, seen, conflicts, wire, text, answered, written>>
  BY <1>0 DEF TurnSteps
<1>2. /\ queue \in [Turns -> Seq(AgentEvents)] /\ said \in [Turns -> Texts] /\ status \in [Turns -> Statuses]
  BY DEF Inv, RouterInv, RouterTypeOK, TurnsTypeOK
<1>3. ASSUME NEW u \in Turns, queue'[u] = queue[u], said'[u] = said[u], OrderInv(u)
      PROVE  OrderInv(u)'
  <2>1. QueueOrder(u)' /\ Given(u)' = Given(u)
    BY <1>3 DEF OrderInv, QueueOrder, Given
  <2> QED BY <1>1, <1>3, <2>1, LessIsInOrder
<1>4. ASSUME NEW u \in Turns, u # t
      PROVE  Ascends(said'[u]) /\ (status'[u] \in Live => OrderInv(u)')
  <2>1. status'[u] = status[u]
    BY <1>0, <1>2, <1>4 DEF TurnSteps
  <2>2. queue'[u] = queue[u] /\ said'[u] = said[u]
    BY <1>0, <1>2, <1>4 DEF TurnSteps, StartTurn, register, Keeps, Drops, TakeEvent, MessagesReturn
  <2> QED BY <1>3, <2>1, <2>2 DEF OrderedInv
<1> SUFFICES Ascends(said'[t]) /\ (status'[t] \in Live => OrderInv(t)')
  BY <1>4 DEF OrderedInv
<1>5. CASE StartTurn(t)
  BY <1>5, StartIsInOrder, NoChunks
<1>6. CASE Keeps(t)
  <2>1. Ascends(said[t]) /\ OrderInv(t) /\ said' = said
    BY <1>6 DEF OrderedInv, Keeps
  <2>2. CASE queue' = queue
    <3>1. OrderInv(t)'
      BY <1>3, <2>1, <2>2
    <3> QED BY <2>1, <3>1
  <2>3. CASE Drops(t)
    <3>1. queue[t] # <<>> /\ queue'[t] = Tail(queue[t]) /\ said'[t] = said[t]
      BY <1>2, <2>1, <2>3 DEF Drops
    <3> QED BY <1>1, <2>1, <3>1, TakingKeepsOrder
  <2> QED BY <1>6, <2>2, <2>3 DEF Keeps
<1>7. CASE TakeEvent(t)
  <2>1. /\ queue[t] # <<>> /\ queue'[t] = Tail(queue[t]) /\ status[t] \in Live
        /\ said'[t] = said[t] \o Head(queue[t]).text
    BY <1>2, <1>7 DEF TakeEvent, Live, Reading
  <2>2. Ascends(said[t]) /\ OrderInv(t)
    BY <2>1 DEF OrderedInv
  <2> QED BY <1>1, <2>1, <2>2, TakingKeepsOrder
<1>8. CASE MessagesReturn(t)
  <2>1. /\ said'[t] = said[t] \o Backfill(t) /\ queue' = queue /\ status[t] \in Live
        /\ status'[t] \in Live => Ignored(t)
    BY <1>2, <1>8 DEF MessagesReturn, Live, Reading
  <2>2. Ascends(said[t]) /\ OrderInv(t)
    BY <2>1 DEF OrderedInv
  <2>3. Ascends(said'[t])
    BY <2>1, <2>2, BackfillCompletes DEF RepliesInv
  <2>4. ASSUME status'[t] \in Live PROVE OrderInv(t)'
    <3>1. reply[t].state # "answered"
      BY <2>1, <2>4 DEF Ignored
    <3>2. Backfill(t) = <<>>
      BY <3>1 DEF Backfill
    <3>3. said'[t] = said[t]
      BY <1>2, <2>1, <3>2 DEF Texts
    <3> QED BY <1>3, <2>1, <2>2, <3>3
  <2> QED BY <2>3, <2>4
<1> QED BY <1>0, <1>5, <1>6, <1>7, <1>8 DEF TurnSteps

LEMMA StepKeepsOrder ==
  ASSUME Inv, Inv', FreshInv, HeardOf, RepliesInv, OrderedInv, [Next]_vars
  PROVE  OrderedInv'
<1>1. ASSUME UNCHANGED <<status, said>>, \A t \in Turns : OrderInv(t) => OrderInv(t)'
      PROVE  OrderedInv'
  BY <1>1 DEF OrderedInv
<1>2. CASE Listen
  <2>1. UNCHANGED <<status, said>>
    BY <1>2 DEF Listen, turnVars
  <2>2. HearsAnswer(Head(wire)) \/ HearsPrompt(Head(wire))
    BY <1>2, ListenHears
  <2>3. \A t \in Turns : OrderInv(t) => OrderInv(t)'
    BY <1>2, <2>2, HearingKeepsOrder, HearingOthersKeepsOrder
  <2> QED BY <1>1, <2>1, <2>3
<1>3. CASE Disconnect
  <2>1. /\ wire' = <<>> /\ UNCHANGED <<early, seen, conflicts, status, said, text, answered, written>>
    BY <1>3 DEF Disconnect, turnVars, serverVars
  <2>2. ASSUME NEW t \in Turns, OrderInv(t) PROVE OrderInv(t)'
    <3>1. queue'[t] = queue[t] \/ \E ev \in Closings : queue'[t] = Append(queue[t], ev)
      BY <1>3, DisconnectCloses
    <3>2. QueueOrder(t)' /\ Given(t)' = Given(t)
      BY <2>1, <2>2, <3>1, ClosingKeepsGiven DEF OrderInv
    <3>3. \A i \in 1 .. Len(wire') : FALSE
      BY <2>1
    <3> QED BY <2>1, <2>2, <3>2, <3>3, LessIsInOrder
  <2> QED BY <1>1, <2>1, <2>2
<1>4. ASSUME NEW u \in Turns, Serves(u) PROVE OrderedInv'
  <2>1. UNCHANGED <<status, said>>
    BY <1>4 DEF Serves, turnVars
  <2>2. \A t \in Turns : OrderInv(t) => OrderInv(t)'
    BY <1>4, ServingKeepsOrder
  <2> QED BY <1>1, <2>1, <2>2
<1>5. CASE UNCHANGED <<routerVars, turnVars, wire, text, written, answered, missed>>
  <2>1. UNCHANGED <<queue, early, seen, conflicts, status, said, wire, text, answered, written>>
    BY <1>5 DEF routerVars, turnVars
  <2>2. ASSUME NEW t \in Turns, OrderInv(t) PROVE OrderInv(t)'
    <3>1. QueueOrder(t)' /\ Given(t)' = Given(t)
      BY <2>1, <2>2 DEF OrderInv, QueueOrder, Given
    <3> QED BY <2>1, <2>2, <3>1, LessIsInOrder
  <2> QED BY <1>1, <2>1, <2>2
<1> QED BY <1>2, <1>3, <1>4, <1>5, StepCases, TurnKeepsOrder

\* On its way from the wire to what is said no chunk of a turn's text is heard twice or
\* out of order, and what the router has seen of an answer tells it which are new.
THEOREM OrderedHolds == Spec => []OrderedInv
<1>1. Init => OrderedInv
  BY NoChunks DEF Init, OrderedInv, Live, Reading
<1>2. Inv /\ Inv' /\ FreshInv /\ HeardOf /\ RepliesInv /\ OrderedInv /\ [Next]_vars => OrderedInv'
  BY StepKeepsOrder
<1> QED BY <1>1, <1>2, InvHolds, FreshHolds, HeardOfHolds, PTL DEF Spec

\* The text a turn yields is the answers', each chunk at most once and in order, and
\* never the prompt, however deltas, snapshots of the part and the backfill overlap.
THEOREM YieldedTextIsInOrder == Spec => []TextInOrder
<1>1. Inv /\ OrderedInv => TextInOrder
  <2> SUFFICES ASSUME Inv, OrderedInv, NEW t \in Turns, NEW i \in 1 .. Len(said[t])
               PROVE  said[t][i] > (IF i = 1 THEN 0 ELSE said[t][i - 1])
    BY DEF TextInOrder
  <2>1. said[t] \in Texts
    BY DEF Inv, TurnsTypeOK
  <2>2. Len(said[t]) \in Nat /\ \A j \in 1 .. Len(said[t]) : said[t][j] \in Nat
    BY <2>1, TextsAreNumbers
  <2>3. said[t][i] > 0 /\ \A j \in 1 .. i - 1 : said[t][j] < said[t][i]
    BY DEF OrderedInv, Ascends
  <2>4. i # 1 => i - 1 \in 1 .. i - 1 /\ i - 1 \in 1 .. Len(said[t])
    BY <2>2
  <2> QED BY <2>2, <2>3, <2>4
<1> QED BY <1>1, InvHolds, OrderedHolds, PTL

-----------------------------------------------------------------------------
(* A turn that misses no event is given all of its text.                   *)

\* Chunks that follow one another, and all chunks from the first.
RunsOn(s) == \A i \in 1 .. Len(s) : s[i] = s[1] + (i - 1)
Counts(s) == \A i \in 1 .. Len(s) : s[i] = i

\* No event leaves a chunk out.
Plain == {ev \in Worded : RunsOn(ev.text)}
PlainInv ==
  /\ \A t \in Turns : queue[t] \in Seq(Plain)
  /\ \A a \in Answers : early[a] \in Seq(Plain)
  /\ \A i \in 1 .. Len(wire) : wire[i].kind \in {"delta", "updated"} => RunsOn(wire[i].text)
  /\ \A a \in Answers :
       /\ RunsOn(text[a])
       /\ a[2] = answered[Parent(a)] /\ Len(text[a]) > 0 =>
            text[a][1] + Len(text[a]) = written[Parent(a)] + 1

\* What turn t has heard of, and what of its first answer is ahead of the event i.
Ahead(t, i) ==
  {c \in 0 .. MaxChunks : \E j \in 1 .. i - 1 : /\ wire[j].of = <<t, 1>>
                                                /\ wire[j].kind \in {"delta", "updated"}
                                                /\ c \in Chunks(wire[j].text)}
Known(t, i) == Heard(t) \union Ahead(t, i)

\* Of a turn with one answer and no event missed: the router has seen what is heard,
\* a delta continues what is known when it comes, a snapshot holds all of it, and
\* nothing written is unknown.
WholeWire(t) ==
  \A i \in 1 .. Len(wire) : wire[i].of = <<t, 1>> =>
    /\ wire[i].kind = "delta" =>
         \E c \in 1 .. MaxChunks : wire[i].text = <<c>> /\ 1 .. c - 1 \subseteq Known(t, i)
    /\ wire[i].kind = "updated" =>
         Counts(wire[i].text) /\ Known(t, i) \subseteq 1 .. Len(wire[i].text)
WholeInv(t) ==
  /\ <<t, 1>> \notin conflicts /\ Counts(seen[<<t, 1>>])
  /\ Heard(t) = 1 .. Len(seen[<<t, 1>>])
  /\ Counts(said[t])
  /\ WholeWire(t)
  /\ stream # "down" => 1 .. written[t] \subseteq Known(t, Len(wire) + 1)

IsWhole(t) == status[t] \in Live /\ t \notin missed /\ answered[t] = 1
WholesInv == \A t \in Turns : IsWhole(t) => WholeInv(t)

LEMMA NoRuns == RunsOn(<<>>) /\ Counts(<<>>) /\ \A c : RunsOn(<<c>>) \/ c \notin Nat
BY DEF RunsOn, Counts

\* What comes after the start of a run is one.
LEMMA RunsAfter ==
  ASSUME NEW s \in Texts, NEW u \in Texts, IsStartOf(s, u), RunsOn(u)
  PROVE  RunsOn(After(s, u))
<1> DEFINE v == After(s, u)
<1>1. s \o v = u /\ v \in Texts
  BY AfterTheStart
<1>2. /\ Len(s) \in Nat /\ Len(v) \in Nat /\ s \in Seq(Nat) /\ v \in Seq(Nat)
      /\ \A i \in 1 .. Len(v) : v[i] \in Nat
  BY <1>1, TextsAreNumbers
<1> HIDE DEF v
<1>3. /\ Len(u) = Len(s) + Len(v)
      /\ \A i \in 1 .. Len(v) : i + Len(s) \in 1 .. Len(u) /\ u[i + Len(s)] = v[i]
  <2>1. /\ Len(s \o v) = Len(s) + Len(v)
        /\ \A i \in 1 .. Len(s) + Len(v) : (s \o v)[i] = IF i <= Len(s) THEN s[i] ELSE v[i - Len(s)]
    BY <1>2, ConcatProperties
  <2> QED BY <1>1, <1>2, <2>1
<1>4. \A i \in 1 .. Len(v) : v[i] = u[1] + (i + Len(s) - 1)
  BY <1>3 DEF RunsOn
<1>5. u[1] \in Nat \/ Len(v) = 0
  <2>1. \A i \in 1 .. Len(u) : u[i] \in Nat
    BY TextsAreNumbers
  <2> QED BY <1>2, <1>3, <2>1
<1>6. \A i \in 1 .. Len(v) : v[i] = v[1] + (i - 1)
  <2> TAKE i \in 1 .. Len(v)
  <2>1. 1 \in 1 .. Len(v) /\ u[1] \in Nat
    BY <1>2, <1>5
  <2>2. v[1] = u[1] + (1 + Len(s) - 1) /\ v[i] = u[1] + (i + Len(s) - 1)
    BY <1>4, <2>1
  <2> QED BY <1>2, <2>1, <2>2
<1> QED BY <1>6 DEF RunsOn, v

\* A count and the run that starts at its next number is a count.
LEMMA CountsOn ==
  ASSUME NEW s \in Texts, NEW u \in Texts, Counts(s), RunsOn(u), u # <<>> => u[1] = Len(s) + 1
  PROVE  Counts(s \o u)
<1>1. /\ s \in Seq(Nat) /\ u \in Seq(Nat) /\ Len(s) \in Nat /\ Len(u) \in Nat
  BY TextsAreNumbers
<1>2. /\ Len(s \o u) = Len(s) + Len(u)
      /\ \A i \in 1 .. Len(s) + Len(u) :
           (s \o u)[i] = IF i <= Len(s) THEN s[i] ELSE u[i - Len(s)]
  BY <1>1, ConcatProperties
<1> SUFFICES ASSUME NEW i \in 1 .. Len(s) + Len(u) PROVE (s \o u)[i] = i
  BY <1>2 DEF Counts
<1>3. CASE i <= Len(s)
  BY <1>1, <1>2, <1>3 DEF Counts
<1>4. CASE i > Len(s)
  <2>1. i - Len(s) \in 1 .. Len(u) /\ (s \o u)[i] = u[i - Len(s)]
    BY <1>1, <1>2, <1>4
  <2>2. u[1] = Len(s) + 1
    BY <1>1, <2>1
  <2>3. u[i - Len(s)] = u[1] + (i - Len(s) - 1)
    BY <2>1 DEF RunsOn
  <2> QED BY <1>1, <2>1, <2>2, <2>3
<1> QED BY <1>1, <1>3, <1>4

\* A count holds all numbers up to its length.
LEMMA CountsChunks ==
  ASSUME NEW s \in Texts, Counts(s)
  PROVE  Chunks(s) = 1 .. Len(s)
BY TextsAreNumbers DEF Counts, Chunks

LEMMA ClosingsArePlain == Closings \subseteq Plain
BY NoRuns DEF Closings, Worded, Plain

LEMMA ListenKeepsPlain ==
  ASSUME Inv, Inv', HeardOf, PlainInv, Listen
  PROVE  PlainInv'
<1> DEFINE e == Head(wire)
           a == e.of
<1>1. /\ e \in RawEvents /\ e = wire[1] /\ 1 \in 1 .. Len(wire) /\ wire' = Tail(wire)
      /\ UNCHANGED <<text, answered, written, current>>
      /\ HearsAnswer(e) \/ HearsPrompt(e)
  BY ListenHears DEF serverVars
<1>2. \A i \in 1 .. Len(wire') : i + 1 \in 1 .. Len(wire) /\ wire'[i] = wire[i + 1]
  BY <1>1, HeadTailProperties DEF Listen, Inv, StreamTypeOK
<1>3. /\ queue \in [Turns -> Seq(AgentEvents)] /\ early \in [Answers -> Seq(AgentEvents)]
      /\ \A b \in Answers : seen[b] \in Texts
      /\ e.text \in Texts
      /\ HasActiveQueue => current \in Turns
  BY <1>1, RawEventKinds, ActiveIsTurn DEF Inv, RouterInv, RouterTypeOK
<1> HIDE DEF e
<1>4. (\A t \in Turns : queue'[t] \in Seq(Plain)) /\ (\A b \in Answers : early'[b] \in Seq(Plain))
  <2>1. CASE HearsAnswer(e)
    <3>1. PICK new \in Seq(AgentEvents) : Adds(e, new) /\ Moves(a, new)
      BY <2>1 DEF HearsAnswer
    <3>2. a \in Answers /\ early[a] \in Seq(Plain)
      BY <2>1 DEF HearsAnswer, PlainInv
    <3>3. RunsOn(NewText(e))
      <4>1. e.kind = "delta" \/ e.kind = "updated" => RunsOn(e.text)
        BY <1>1 DEF PlainInv
      <4>2. e.kind = "updated" /\ IsStartOf(seen[a], e.text) => RunsOn(After(seen[a], e.text))
        BY <1>3, <3>2, <4>1, RunsAfter
      <4> QED BY <4>1, <4>2, NoRuns DEF NewText
    <3>4. new \in Seq(Plain)
      <4>1. CASE new = early[a]
        BY <3>2, <4>1
      <4>2. ASSUME NEW ev \in Worded, ev.text = NewText(e), new = Append(early[a], ev)
            PROVE  new \in Seq(Plain)
        <5>1. ev \in Plain
          BY <3>3, <4>2 DEF Plain
        <5> QED BY <3>2, <4>2, <5>1
      <4> QED BY <3>1, <4>1, <4>2 DEF Adds
    <3> HIDE DEF a
    <3>5. <<>> \in Seq(Plain) /\ \A t \in Turns : queue[t] \o new \in Seq(Plain)
      BY <3>4, ConcatProperties DEF PlainInv
    <3>6. CASE UNCHANGED queue /\ early' = [early EXCEPT ![a] = new]
      BY <1>3, <3>2, <3>4, <3>6 DEF PlainInv
    <3>7. CASE /\ HasActiveQueue /\ queue' = [queue EXCEPT ![current] = @ \o new]
               /\ early' = [early EXCEPT ![a] = <<>>]
      BY <1>3, <3>2, <3>5, <3>7 DEF PlainInv
    <3> QED BY <3>1, <3>6, <3>7 DEF Moves
  <2>2. CASE HearsPrompt(e)
    <3>1. CASE UNCHANGED <<queue, early>>
      BY <3>1 DEF PlainInv
    <3>2. ASSUME NEW ev \in Closings, UNCHANGED early, HasActiveQueue,
                 queue' = [queue EXCEPT ![current] = Append(@, ev)]
          PROVE  (\A t \in Turns : queue'[t] \in Seq(Plain))
                 /\ (\A b \in Answers : early'[b] \in Seq(Plain))
      <4>1. \A t \in Turns : Append(queue[t], ev) \in Seq(Plain)
        BY ClosingsArePlain DEF PlainInv
      <4> QED BY <1>3, <3>2, <4>1 DEF PlainInv
    <3> QED BY <2>2, <3>1, <3>2 DEF HearsPrompt
  <2> QED BY <1>1, <2>1, <2>2
<1>5. \A i \in 1 .. Len(wire') : wire'[i].kind \in {"delta", "updated"} => RunsOn(wire'[i].text)
  BY <1>2 DEF PlainInv
<1> QED BY <1>1, <1>4, <1>5 DEF PlainInv

\* The text the server writes runs on.
LEMMA ServesKeepsRuns ==
  ASSUME Inv, Inv', HeardOf, PlainInv, NEW t \in Turns, Serves(t)
  PROVE  \A a \in Answers :
           /\ RunsOn(text'[a])
           /\ a[2] = answered'[Parent(a)] /\ Len(text'[a]) > 0 =>
                text'[a][1] + Len(text'[a]) = written'[Parent(a)] + 1
<1> TAKE b \in Answers
<1>0. /\ \A u \in Turns : /\ answered[u] \in Nat /\ answered'[u] \in Nat
                          /\ written[u] \in Nat /\ written'[u] \in Nat
                          /\ u # t => answered'[u] = answered[u] /\ written'[u] = written[u]
      /\ Parent(b) \in Turns /\ b[2] \in Nat
  BY CountsAreNumbers, ServesGrows DEF HeardOf
<1>1. /\ RunsOn(text[b])
      /\ b[2] = answered[Parent(b)] /\ Len(text[b]) > 0 =>
           text[b][1] + Len(text[b]) = written[Parent(b)] + 1
      /\ b[2] > answered[Parent(b)] => text[b] = <<>>
  BY DEF PlainInv, HeardOf, WritingInv
<1>2. CASE UNCHANGED <<text, written, answered>>
  BY <1>1, <1>2
<1>3. CASE Begins(t)
  <2>1. text' = text /\ written' = written /\ answered'[t] = answered[t] + 1
    BY <1>3 DEF Begins, Inv, ServerTypeOK
  <2>2. CASE Parent(b) = t /\ b[2] = answered'[t]
    <3>1. text[b] = <<>>
      BY <1>0, <1>1, <2>1, <2>2
    <3> QED BY <2>1, <3>1, NoRuns
  <2>3. CASE Parent(b) # t
    BY <1>0, <1>1, <2>1, <2>3
  <2> QED BY <1>1, <2>1, <2>2, <2>3
<1>4. CASE Writes(t)
  <2> DEFINE a == LastAnswer(t)
  <2>1. /\ a \in Answers /\ a[2] = answered[t] /\ Parent(a) = t /\ answered' = answered
        /\ written'[t] = written[t] + 1 /\ text'[a] = Append(text[a], written'[t])
        /\ \A c \in Answers : c # a => text'[c] = text[c]
    BY <1>4, WritesAdds DEF HeardOf
  <2>e. a = <<t, answered[t]>>
    BY DEF LastAnswer
  <2> HIDE DEF a
  <2>2. CASE b = a
    <3>1. text[a] \in Seq(0 .. MaxChunks) /\ Len(text[a]) \in Nat
      BY <2>1 DEF Inv, ServerTypeOK, Texts
    <3>2. /\ Len(text'[a]) = Len(text[a]) + 1
          /\ \A i \in 1 .. Len(text[a]) : text'[a][i] = text[a][i]
          /\ text'[a][Len(text[a]) + 1] = written[t] + 1
      BY <2>1, <3>1
    <3>3. CASE Len(text[a]) = 0
      <4>1. Len(text'[a]) = 1 /\ text'[a][1] = written[t] + 1 /\ written[t] \in Nat
        BY <1>0, <2>1, <3>2, <3>3
      <4>2. RunsOn(text'[a])
        BY <4>1 DEF RunsOn
      <4>3. text'[a][1] + Len(text'[a]) = written'[t] + 1
        BY <2>1, <4>1
      <4> QED BY <2>1, <2>2, <4>2, <4>3
    <3>4. CASE Len(text[a]) > 0
      <4>1. text[a][1] + Len(text[a]) = written[t] + 1 /\ text[a][1] \in 0 .. MaxChunks
        <5>1. text[a][1] + Len(text[a]) = written[t] + 1
          BY <1>1, <2>1, <2>2, <3>4
        <5>2. text[a][1] \in 0 .. MaxChunks
          <6>1. 1 \in 1 .. Len(text[a])
            BY <3>1, <3>4
          <6> QED BY <3>1, <6>1, ElementOfSeq
        <5> QED BY <5>1, <5>2
      <4>2. text'[a][1] = text[a][1] /\ text[a][1] \in Nat
        BY <3>1, <3>2, <3>4, <4>1, OpenCodeAssumption
      <4>3. \A i \in 1 .. Len(text[a]) : text'[a][i] = text'[a][1] + (i - 1)
        BY <1>1, <2>2, <3>2, <4>2 DEF RunsOn
      <4>4. text'[a][Len(text[a]) + 1] = text'[a][1] + ((Len(text[a]) + 1) - 1)
        BY <1>0, <3>1, <3>2, <4>1, <4>2
      <4>5. RunsOn(text'[a])
        BY <3>1, <3>2, <4>3, <4>4 DEF RunsOn
      <4>6. text'[a][1] + Len(text'[a]) = written'[t] + 1
        <5>1. text'[a][1] + Len(text'[a]) = text[a][1] + (Len(text[a]) + 1)
          BY <3>2, <4>2
        <5>2. text[a][1] + (Len(text[a]) + 1) = (text[a][1] + Len(text[a])) + 1
          BY <3>1, <4>2
        <5>3. written'[t] = written[t] + 1
          BY <2>1
        <5> QED BY <4>1, <5>1, <5>2, <5>3
      <4> QED BY <2>1, <2>2, <4>5, <4>6
    <3> QED BY <3>1, <3>3, <3>4
  <2>3. CASE b # a
    <3>1. ~(b[2] = answered[t] /\ Parent(b) = t)
      BY <2>e, <2>3 DEF Answers, Parent
    <3> QED BY <1>0, <1>1, <2>1, <2>3, <3>1
  <2> QED BY <2>2, <2>3
<1> QED BY <1>2, <1>3, <1>4 DEF Serves

LEMMA ServesKeepsPlain ==
  ASSUME Inv, Inv', HeardOf, PlainInv, NEW t \in Turns, Serves(t)
  PROVE  PlainInv'
<1>1. PICK s \in Seq(RawEvents) : SentBy(t, s) /\ wire' = wire \o s
  BY DEF Serves
<1>2. \A i \in 1 .. Len(wire') :
        \/ i \in 1 .. Len(wire) /\ wire'[i] = wire[i]
        \/ i - Len(wire) \in 1 .. Len(s) /\ wire'[i] = s[i - Len(wire)]
  <2>1. wire \in Seq(RawEvents)
    BY DEF Inv, StreamTypeOK
  <2>2. /\ Len(wire) \in Nat /\ Len(s) \in Nat /\ Len(wire \o s) = Len(wire) + Len(s)
        /\ \A i \in 1 .. Len(wire) + Len(s) :
             (wire \o s)[i] = IF i <= Len(wire) THEN wire[i] ELSE s[i - Len(wire)]
    BY <2>1, ConcatProperties
  <2> QED BY <1>1, <2>2
<1>3. \A a \in Answers :
        /\ RunsOn(text'[a])
        /\ a[2] = answered'[Parent(a)] /\ Len(text'[a]) > 0 =>
             text'[a][1] + Len(text'[a]) = written'[Parent(a)] + 1
  BY ServesKeepsRuns
<1>4. \A j \in 1 .. Len(s) : s[j].kind \in {"delta", "updated"} => RunsOn(s[j].text)
  <2> SUFFICES ASSUME NEW j \in 1 .. Len(s), s[j].kind \in {"delta", "updated"}
               PROVE  RunsOn(s[j].text)
    OBVIOUS
  <2>1. written'[t] \in Nat
    BY CountsAreNumbers
  <2>2. CASE s[j].kind = "delta"
    <3>1. s[j].text = <<written'[t]>>
      BY <1>1, <2>2 DEF SentBy
    <3> QED BY <2>1, <3>1, NoRuns
  <2>3. CASE s[j].kind = "updated"
    <3>1. s[j] \in RawEvents /\ s[j].text = text'[s[j].of]
      BY <1>1, <2>3 DEF SentBy
    <3>2. s[j].of \in Answers
      BY <2>3, <3>1, RawEventKinds
    <3> QED BY <1>3, <3>1, <3>2
  <2> QED BY <2>2, <2>3
<1>5. \A i \in 1 .. Len(wire') : wire'[i].kind \in {"delta", "updated"} => RunsOn(wire'[i].text)
  BY <1>2, <1>4 DEF PlainInv
<1>6. UNCHANGED <<queue, early>>
  BY DEF Serves, routerVars
<1> QED BY <1>3, <1>5, <1>6 DEF PlainInv

LEMMA StepKeepsPlain ==
  ASSUME Inv, Inv', FreshInv, HeardOf, PlainInv, [Next]_vars
  PROVE  PlainInv'
<1>1. ASSUME UNCHANGED <<early, text, answered, written>>, wire' \in {wire, <<>>},
             \A t \in Turns : queue'[t] \in Seq(Plain)
      PROVE  PlainInv'
  <2>1. \A i \in 1 .. Len(wire') : wire'[i].kind \in {"delta", "updated"} => RunsOn(wire'[i].text)
    <3>1. CASE wire' = wire
      BY <3>1 DEF PlainInv
    <3>2. CASE wire' = <<>>
      BY <3>2
    <3> QED BY <1>1, <3>1, <3>2
  <2> QED BY <1>1, <2>1 DEF PlainInv
<1>2. CASE Disconnect
  <2>1. \A t \in Turns : queue'[t] \in Seq(Plain)
    <3> TAKE t \in Turns
    <3>1. queue[t] \in Seq(Plain)
      BY DEF PlainInv
    <3>2. queue'[t] = queue[t] \/ \E ev \in Closings : queue'[t] = Append(queue[t], ev)
      BY <1>2, DisconnectCloses
    <3>3. ASSUME NEW ev \in Closings, queue'[t] = Append(queue[t], ev)
          PROVE  queue'[t] \in Seq(Plain)
      <4>1. ev \in Plain
        BY ClosingsArePlain
      <4> QED BY <3>1, <3>3, <4>1
    <3> QED BY <3>1, <3>2, <3>3
  <2> QED BY <1>1, <1>2, <2>1 DEF Disconnect, serverVars
<1>3. ASSUME NEW t \in Turns, TurnNext(t) PROVE PlainInv'
  <2>1. TurnSteps(t)
    BY <1>3, TurnsStep
  <2>2. \A u \in Turns : queue'[u] \in Seq(Plain)
    <3> TAKE u \in Turns
    <3>1. \/ queue'[u] \in {queue[u], <<>>}
          \/ queue[u] # <<>> /\ queue'[u] = Tail(queue[u])
      BY <2>1 DEF TurnSteps, StartTurn, register, Keeps, Drops, TakeEvent, MessagesReturn, Inv,
                  RouterInv, RouterTypeOK
    <3>2. queue[u] \in Seq(Plain) /\ <<>> \in Seq(Plain)
      BY DEF PlainInv
    <3> QED BY <3>1, <3>2, HeadTailProperties
  <2> QED BY <1>1, <2>1, <2>2 DEF TurnSteps
<1>4. CASE UNCHANGED <<routerVars, turnVars, wire, text, written, answered, missed>>
  BY <1>1, <1>4 DEF routerVars, PlainInv
<1> QED BY <1>2, <1>3, <1>4, StepCases, ListenKeepsPlain, ServesKeepsPlain

\* An event's text leaves out no chunk between its first and its last.
THEOREM PlainHolds == Spec => []PlainInv
<1>1. Init => PlainInv
  <2>1. <<>> \in Seq(Plain)
    OBVIOUS
  <2> QED BY <2>1, NoRuns DEF Init, PlainInv
<1>2. Inv /\ Inv' /\ FreshInv /\ HeardOf /\ PlainInv /\ [Next]_vars => PlainInv'
  BY StepKeepsPlain
<1> QED BY <1>1, <1>2, InvHolds, FreshHolds, HeardOfHolds, PTL DEF Spec

\* When nothing more is heard, a step that leaves the wire alone leaves what is known.
LEMMA SameIsKnown ==
  ASSUME NEW t \in Turns, wire' = wire, Heard(t)' = Heard(t)
  PROVE  \A i \in Nat : Known(t, i)' = Known(t, i)
BY DEF Known, Ahead

\* What the listener hears was ahead of what follows.
LEMMA HearingKnows ==
  ASSUME Inv, NEW t \in Turns, wire # <<>>, wire' = Tail(wire),
         Heard(t)' = Heard(t) \union
           (IF wire[1].of = <<t, 1>> /\ wire[1].kind \in {"delta", "updated"}
              THEN Chunks(wire[1].text) ELSE {}),
         Chunks(wire[1].text) \subseteq 0 .. MaxChunks
  PROVE  \A i \in 1 .. Len(wire') + 1 : Known(t, i)' = Known(t, i + 1)
<1>1. /\ Len(wire) \in Nat /\ Len(wire') = Len(wire) - 1 /\ Len(wire) > 0
      /\ \A i \in 1 .. Len(wire') : wire'[i] = wire[i + 1]
  BY HeadTailProperties DEF Inv, StreamTypeOK
<1> TAKE i \in 1 .. Len(wire') + 1
<1> DEFINE Brings(c, e) == e.of = <<t, 1>> /\ e.kind \in {"delta", "updated"} /\ c \in Chunks(e.text)
<1>2. Ahead(t, i)' = {c \in 0 .. MaxChunks : \E j \in 1 .. i - 1 : Brings(c, wire'[j])}
  BY DEF Ahead
<1>3. Ahead(t, i + 1) = {c \in 0 .. MaxChunks : \E j \in 1 .. i : Brings(c, wire[j])}
  <2>1. (i + 1) - 1 = i
    BY <1>1
  <2> QED BY <2>1 DEF Ahead
<1>4. Heard(t)' = Heard(t) \union {c \in 0 .. MaxChunks : Brings(c, wire[1])}
  BY DEF Brings
<1> HIDE DEF Brings
<1>5. \A c : (\E j \in 1 .. i : Brings(c, wire[j])) <=>
               Brings(c, wire[1]) \/ \E j \in 1 .. i - 1 : Brings(c, wire'[j])
  <2> TAKE c
  <2>1. ASSUME NEW j \in 1 .. i, Brings(c, wire[j])
        PROVE  Brings(c, wire[1]) \/ \E k \in 1 .. i - 1 : Brings(c, wire'[k])
    <3>1. CASE j = 1
      BY <2>1, <3>1
    <3>2. CASE j # 1
      <4>1. j - 1 \in 1 .. i - 1 /\ j - 1 \in 1 .. Len(wire') /\ (j - 1) + 1 = j
        BY <1>1, <3>2
      <4>2. wire'[j - 1] = wire[j]
        BY <1>1, <4>1
      <4> QED BY <2>1, <4>1, <4>2
    <3> QED BY <3>1, <3>2
  <2>2. ASSUME NEW j \in 1 .. i - 1, Brings(c, wire'[j])
        PROVE  \E k \in 1 .. i : Brings(c, wire[k])
    <3>1. j + 1 \in 1 .. i /\ j \in 1 .. Len(wire')
      BY <1>1
    <3>2. wire'[j] = wire[j + 1]
      BY <1>1, <3>1
    <3> QED BY <2>2, <3>1, <3>2
  <2>3. 1 \in 1 .. i
    BY <1>1
  <2> QED BY <2>1, <2>2, <2>3
<1> QED BY <1>2, <1>3, <1>4, <1>5 DEF Known

\* So the rest of the wire stays whole.
LEMMA RestIsWhole ==
  ASSUME Inv, NEW t \in Turns, WholeWire(t), wire # <<>>, wire' = Tail(wire),
         stream # "down" => 1 .. written[t] \subseteq Known(t, Len(wire) + 1),
         UNCHANGED <<stream, written>>,
         \A i \in 1 .. Len(wire') + 1 : Known(t, i)' = Known(t, i + 1)
  PROVE  /\ WholeWire(t)'
         /\ stream' # "down" => 1 .. written'[t] \subseteq Known(t, Len(wire) + 1)'
<1>1. /\ Len(wire) \in Nat /\ Len(wire') = Len(wire) - 1 /\ Len(wire) > 0
      /\ \A i \in 1 .. Len(wire') : i + 1 \in 1 .. Len(wire) /\ wire'[i] = wire[i + 1]
  BY HeadTailProperties DEF Inv, StreamTypeOK
<1>2. WholeWire(t)'
  <2> SUFFICES ASSUME NEW i \in 1 .. Len(wire'), wire'[i].of = <<t, 1>>
               PROVE  /\ wire'[i].kind = "delta" =>
                           \E c \in 1 .. MaxChunks : wire'[i].text = <<c>> /\ 1 .. c - 1 \subseteq Known(t, i)'
                      /\ wire'[i].kind = "updated" =>
                           Counts(wire'[i].text) /\ Known(t, i)' \subseteq 1 .. Len(wire'[i].text)
    BY DEF WholeWire
  <2>1. i + 1 \in 1 .. Len(wire) /\ wire'[i] = wire[i + 1] /\ i \in 1 .. Len(wire') + 1
    BY <1>1
  <2>2. Known(t, i)' = Known(t, i + 1)
    BY <2>1
  <2> QED BY <2>1, <2>2 DEF WholeWire
<1>3. Known(t, Len(wire) + 1)' = Known(t, Len(wire) + 1)
  <2>e. Len(wire') + 1 \in Nat
    BY <1>1
  <2>1. PICK k \in Nat : k = Len(wire') + 1
    BY <2>e
  <2>2. Known(t, k)' = Known(t, k + 1) /\ k + 1 = Len(wire) + 1
    BY <1>1, <2>1
  <2>3. Known(t, Len(wire) + 1)' = Known(t, k)'
    BY <2>1 DEF Known, Ahead
  <2> QED BY <2>1, <2>2, <2>3
<1> QED BY <1>2, <1>3

\* The next event of a whole turn's answer continues the text or holds all of it.
LEMMA HearingTheAnswer ==
  ASSUME Inv, Inv', HeardOf, NEW t \in Turns, OrderInv(t), WholeInv(t), Listen,
         HearsAnswer(Head(wire)), Head(wire).of = <<t, 1>>
  PROVE  WholeInv(t)'
<1> DEFINE a == <<t, 1>>
           n == Len(seen[a])
<1>1. PICK e \in RawEvents : e = Head(wire)
  BY ListenHears
<1>2. /\ e = wire[1] /\ 1 \in 1 .. Len(wire) /\ Fits(e) /\ e.of = a /\ wire # <<>>
      /\ wire' = Tail(wire) /\ UNCHANGED <<said, stream, written>>
      /\ a \in Answers /\ a \in Of(t) /\ Parent(a) = t
  BY <1>1, ListenHears DEF turnVars, serverVars, HearsAnswer, Of, Parent, Listen
<1>3. /\ NewText(e) \in Texts /\ Before(Heard(t), Chunks(NewText(e))) /\ e.text \in Texts
      /\ e.kind \notin {"delta", "updated"} => NewText(e) = <<>>
  BY <1>2, NewTextIsNew DEF RawEvents
<1>4. /\ a \notin conflicts /\ Counts(seen[a]) /\ Heard(t) = 1 .. n /\ Counts(said[t])
      /\ WholeWire(t) /\ (stream # "down" => 1 .. written[t] \subseteq Known(t, Len(wire) + 1))
  BY DEF WholeInv
<1>5. seen \in [Answers -> Texts] /\ seen[a] \in Texts /\ n \in Nat /\ Chunks(seen[a]) = 1 .. n
  BY <1>2, <1>4, CountsChunks, TextsAreNumbers DEF Inv, RouterInv, RouterTypeOK
<1>6. Heard(t)' = Heard(t) \union Chunks(NewText(e))
  BY <1>1, <1>2, <1>3, HearingAdds, TextsAreNumbers
<1>7. Remembers(e)
  BY <1>1 DEF HearsAnswer
<1>8. Known(t, 1) = Heard(t)
  BY DEF Known, Ahead
<1> HIDE DEF a, n
<1>9. ASSUME a \notin conflicts', Counts(seen'[a]), Heard(t)' = 1 .. Len(seen'[a]),
             Heard(t)' = Heard(t) \union
               (IF e.kind \in {"delta", "updated"} THEN Chunks(e.text) ELSE {})
      PROVE  WholeInv(t)'
  <2>1. Chunks(e.text) \subseteq 0 .. MaxChunks
    BY <1>3, TextsAreNumbers
  <2>2. \A i \in 1 .. Len(wire') + 1 : Known(t, i)' = Known(t, i + 1)
    BY <1>2, <1>9, <2>1, HearingKnows DEF a
  <2>3. /\ WholeWire(t)'
        /\ stream' # "down" => 1 .. written'[t] \subseteq Known(t, Len(wire) + 1)'
    BY <1>2, <1>4, <2>2, RestIsWhole
  <2>4. Counts(said'[t])
    BY <1>2, <1>4
  <2> QED BY <1>9, <2>3, <2>4 DEF WholeInv, a
<1>10. CASE e.kind \notin {"delta", "updated"}
  <2>1. seen' = seen /\ conflicts' = conflicts
    BY <1>7, <1>10 DEF Remembers
  <2>2. Heard(t)' = Heard(t)
    BY <1>3, <1>6, <1>10, NoChunks
  <2> QED BY <1>4, <1>9, <1>10, <2>1, <2>2 DEF n
<1>11. CASE e.kind = "delta"
  <2>1. NewText(e) = e.text /\ conflicts' = conflicts /\ seen'[a] = seen[a] \o e.text
    BY <1>2, <1>4, <1>5, <1>7, <1>11 DEF NewText, Remembers
  <2>2. PICK c \in 1 .. MaxChunks : e.text = <<c>> /\ 1 .. c - 1 \subseteq Known(t, 1)
    BY <1>2, <1>4, <1>11 DEF WholeWire, a
  <2>3. MaxChunks \in Nat /\ Chunks(e.text) = {c} /\ c \in Nat
    BY <2>2, OneChunk, OpenCodeAssumption
  <2>4. c = n + 1
    <3>1. \A h \in 1 .. n : h < c
      BY <1>3, <1>4, <2>1, <2>3 DEF Before
    <3>2. \A h \in 1 .. c - 1 : h \in 1 .. n
      BY <1>4, <1>8, <2>2
    <3>3. n < c
      BY <1>5, <2>2, <2>3, <3>1
    <3>4. ~ (n + 1 < c)
      <4> SUFFICES ASSUME n + 1 < c PROVE FALSE
        OBVIOUS
      <4>1. n + 1 \in 1 .. c - 1
        BY <1>5, <2>3
      <4> QED BY <1>5, <3>2, <4>1
    <3> QED BY <1>5, <2>3, <3>3, <3>4
  <2>5. Counts(seen'[a])
    <3>1. RunsOn(e.text) /\ e.text[1] = n + 1
      BY <2>2, <2>3, <2>4, NoRuns
    <3> QED BY <1>3, <1>4, <1>5, <2>1, <3>1, CountsOn DEF n
  <2>6. Len(seen'[a]) = n + 1
    <3>1. seen[a] \in Seq(Nat) /\ e.text \in Seq(Nat) /\ Len(e.text) = 1
      BY <1>3, <1>5, <2>2, TextsAreNumbers
    <3>2. Len(seen[a] \o e.text) = Len(seen[a]) + Len(e.text)
      BY <3>1, ConcatProperties
    <3> QED BY <2>1, <3>1, <3>2 DEF n
  <2>7. Heard(t)' = 1 .. n + 1
    BY <1>4, <1>5, <1>6, <2>1, <2>3, <2>4
  <2> QED BY <1>4, <1>6, <1>9, <1>11, <2>1, <2>5, <2>6, <2>7
<1>12. CASE e.kind = "updated"
  <2>1. Counts(e.text) /\ 1 .. n \subseteq 1 .. Len(e.text)
    BY <1>2, <1>4, <1>8, <1>12 DEF WholeWire, a
  <2>2. Len(e.text) \in Nat /\ n <= Len(e.text) /\ Chunks(e.text) = 1 .. Len(e.text)
    <3>1. Len(e.text) \in Nat /\ Chunks(e.text) = 1 .. Len(e.text)
      BY <1>3, <2>1, TextsAreNumbers, CountsChunks
    <3>2. n <= Len(e.text)
      <4>1. CASE n = 0
        BY <3>1, <4>1
      <4>2. CASE n # 0
        <5>1. n \in 1 .. n
          BY <1>5, <4>2
        <5> QED BY <2>1, <3>1, <5>1
      <4> QED BY <4>1, <4>2
    <3> QED BY <3>1, <3>2
  <2>3. IsStartOf(seen[a], e.text)
    <3>1. /\ SubSeq(e.text, 1, n) \in Seq(Nat) /\ Len(SubSeq(e.text, 1, n)) = n
          /\ \A i \in 1 .. n : SubSeq(e.text, 1, n)[i] = e.text[i]
      <4>1. e.text \in Seq(Nat)
        BY <1>3, TextsAreNumbers
      <4> QED BY <1>5, <2>2, <4>1, SubSeqProperties
    <3>2. \A i \in 1 .. n : e.text[i] = i /\ seen[a][i] = i
      BY <1>4, <1>5, <2>1, <2>2 DEF Counts, n
    <3>3. seen[a] \in Seq(Nat) /\ Len(seen[a]) = n
      BY <1>5, TextsAreNumbers DEF n
    <3>4. SubSeq(e.text, 1, n) = seen[a]
      BY <1>5, <3>1, <3>2, <3>3, SeqEqual
    <3> QED BY <2>2, <3>4 DEF IsStartOf, n
  <2>4. /\ NewText(e) = After(seen[a], e.text) /\ conflicts' = conflicts /\ seen'[a] = e.text
    BY <1>2, <1>4, <1>5, <1>7, <1>12, <2>3 DEF NewText, Remembers
  <2>5. Chunks(e.text) = Chunks(seen[a]) \union Chunks(NewText(e))
    BY <1>3, <1>5, <2>3, <2>4, AfterTheStart
  <2> QED BY <1>4, <1>5, <1>6, <1>9, <1>12, <2>1, <2>2, <2>4, <2>5
<1> QED BY <1>10, <1>11, <1>12

\* The first answer of a turn that has one.
LEMMA FirstAnswer ==
  ASSUME Inv, NEW t \in Turns, answered[t] >= 1
  PROVE  <<t, 1>> \in Answers /\ <<t, 1>> \in Of(t) /\ Parent(<<t, 1>>) = t
<1>1. answered[t] \in Nat /\ answered[t] <= MaxAnswers /\ MaxAnswers \in Nat
  BY CountsAreNumbers
<1> QED BY <1>1 DEF Answers, Of, Parent

\* Nothing more is heard of the turn, and the wire is left alone or cut.
LEMMA WholeStays ==
  ASSUME Inv, NEW t \in Turns, WholeInv(t), seen'[<<t, 1>>] = seen[<<t, 1>>],
         <<t, 1>> \notin conflicts', Heard(t)' = Heard(t), Counts(said'[t]),
         \/ wire' = wire /\ written'[t] = written[t] /\ (stream' # "down" => stream # "down")
         \/ wire' = <<>> /\ stream' = "down"
  PROVE  WholeInv(t)'
<1>1. Counts(seen'[<<t, 1>>]) /\ Heard(t)' = 1 .. Len(seen'[<<t, 1>>])
  BY DEF WholeInv
<1>2. CASE wire' = <<>> /\ stream' = "down"
  <2>1. WholeWire(t)'
    BY <1>2 DEF WholeWire
  <2> QED BY <1>1, <1>2, <2>1 DEF WholeInv
<1>3. CASE wire' = wire /\ written'[t] = written[t] /\ (stream' # "down" => stream # "down")
  <2>1. \A i \in Nat : Known(t, i)' = Known(t, i)
    BY <1>3, SameIsKnown
  <2>2. Len(wire) \in Nat
    BY DEF Inv, StreamTypeOK
  <2>3. WholeWire(t)'
    <3> SUFFICES ASSUME NEW i \in 1 .. Len(wire), wire[i].of = <<t, 1>>
                 PROVE  /\ wire[i].kind = "delta" =>
                             \E c \in 1 .. MaxChunks : wire[i].text = <<c>> /\ 1 .. c - 1 \subseteq Known(t, i)'
                        /\ wire[i].kind = "updated" =>
                             Counts(wire[i].text) /\ Known(t, i)' \subseteq 1 .. Len(wire[i].text)
      BY <1>3 DEF WholeWire
    <3>1. Known(t, i)' = Known(t, i)
      BY <2>1, <2>2
    <3> QED BY <3>1 DEF WholeInv, WholeWire
  <2>4. Known(t, Len(wire) + 1)' = Known(t, Len(wire) + 1)
    BY <1>3 DEF Known, Ahead
  <2> QED BY <1>1, <1>3, <2>3, <2>4 DEF WholeInv
<1> QED BY <1>2, <1>3

LEMMA ListenKeepsWhole ==
  ASSUME Inv, Inv', HeardOf, NEW t \in Turns, OrderInv(t), WholeInv(t), answered[t] = 1, Listen
  PROVE  WholeInv(t)'
<1>1. <<t, 1>> \in Answers /\ <<t, 1>> \in Of(t) /\ Parent(<<t, 1>>) = t
  BY FirstAnswer
<1>2. /\ Head(wire) \in RawEvents /\ Head(wire) = wire[1] /\ 1 \in 1 .. Len(wire) /\ Fits(Head(wire))
      /\ HearsAnswer(Head(wire)) \/ HearsPrompt(Head(wire))
      /\ wire' = Tail(wire) /\ wire # <<>> /\ UNCHANGED <<said, stream, written>>
  BY ListenHears DEF turnVars, serverVars, Listen
<1>3. CASE HearsAnswer(Head(wire)) /\ Parent(Head(wire).of) = t
  <2>1. PICK a \in Answers : a = Head(wire).of
    BY <1>3 DEF HearsAnswer
  <2>2. a[2] <= 1 /\ a[2] \in Nat /\ a[2] > 0 /\ a[1] = t
    BY <1>2, <1>3, <2>1, CountsAreNumbers DEF Fits, Parent
  <2>3. a = <<t, 1>>
    BY <2>2 DEF Answers
  <2> QED BY <1>3, <2>1, <2>3, HearingTheAnswer
<1>4. CASE HearsPrompt(Head(wire)) \/ (HearsAnswer(Head(wire)) /\ Parent(Head(wire).of) # t)
  <2>1. /\ \A b \in Of(t) : /\ early'[b] = early[b] /\ seen'[b] = seen[b]
                            /\ (b \in conflicts <=> b \in conflicts')
        /\ queue'[t] = queue[t] \/ \E ev \in Closings : queue'[t] = Append(queue[t], ev)
    BY <1>4, OthersAreHeardApart
  <2>2. Given(t)' = Given(t)
    BY <1>2, <2>1, ClosingKeepsGiven DEF OrderInv
  <2>3. Heard(t)' = Heard(t)
    BY <2>1, <2>2 DEF Heard
  <2>4. wire[1].of # <<t, 1>>
    <3>1. HearsPrompt(Head(wire)) => wire[1].of \in Prompts
      BY <1>2 DEF HearsPrompt
    <3>2. \A m \in Prompts : m # <<t, 1>>
      BY DEF Prompts, Prompt
    <3> QED BY <1>1, <1>2, <1>4, <3>1, <3>2
  <2>5. Chunks(wire[1].text) \subseteq 0 .. MaxChunks
    BY <1>2, TextsAreNumbers DEF RawEvents
  <2>6. \A i \in 1 .. Len(wire') + 1 : Known(t, i)' = Known(t, i + 1)
    BY <1>2, <2>3, <2>4, <2>5, HearingKnows
  <2>7. /\ WholeWire(t)'
        /\ stream' # "down" => 1 .. written'[t] \subseteq Known(t, Len(wire) + 1)'
    BY <1>2, <2>6, RestIsWhole DEF WholeInv
  <2>8. /\ <<t, 1>> \notin conflicts' /\ Counts(seen'[<<t, 1>>])
        /\ Heard(t)' = 1 .. Len(seen'[<<t, 1>>]) /\ Counts(said'[t])
    BY <1>1, <1>2, <2>1, <2>3 DEF WholeInv
  <2> QED BY <2>7, <2>8 DEF WholeInv
<1> QED BY <1>2, <1>3, <1>4

\* What is sent goes behind what is known already.
LEMMA SendingKnows ==
  ASSUME Inv, NEW t \in Turns, NEW s \in Seq(RawEvents), wire' = wire \o s, Heard(t)' = Heard(t)
  PROVE  /\ \A i \in 1 .. Len(wire) + 1 : Known(t, i)' = Known(t, i)
         /\ Known(t, Len(wire) + 1) \subseteq Known(t, Len(wire) + 1)'
         /\ 1 \in 1 .. Len(s) /\ s[1].of = <<t, 1>> /\ s[1].kind \in {"delta", "updated"} =>
              Chunks(s[1].text) \intersect (0 .. MaxChunks) \subseteq Known(t, Len(wire) + 1)'
<1>1. wire \in Seq(RawEvents)
  BY DEF Inv, StreamTypeOK
<1>2. /\ Len(wire) \in Nat /\ Len(s) \in Nat /\ Len(wire') = Len(wire) + Len(s)
      /\ \A i \in 1 .. Len(wire) : i \in 1 .. Len(wire') /\ wire'[i] = wire[i]
      /\ \A i \in 1 .. Len(s) : wire'[i + Len(wire)] = s[i]
  <2>1. /\ Len(wire) \in Nat /\ Len(s) \in Nat /\ Len(wire \o s) = Len(wire) + Len(s)
        /\ \A i \in 1 .. Len(wire) + Len(s) :
             (wire \o s)[i] = IF i <= Len(wire) THEN wire[i] ELSE s[i - Len(wire)]
    BY <1>1, ConcatProperties
  <2>2. \A i \in 1 .. Len(s) : (wire \o s)[i + Len(wire)] = s[i]
    <3> TAKE i \in 1 .. Len(s)
    <3>1. i + Len(wire) \in 1 .. Len(wire) + Len(s) /\ ~(i + Len(wire) <= Len(wire))
          /\ (i + Len(wire)) - Len(wire) = i
      BY <2>1
    <3> QED BY <2>1, <3>1
  <2> QED BY <2>1, <2>2
<1>3. \A i \in 1 .. Len(wire) + 1 : Known(t, i)' = Known(t, i)
  <2> TAKE i \in 1 .. Len(wire) + 1
  <2>1. \A j \in 1 .. i - 1 : wire'[j] = wire[j]
    BY <1>2
  <2> QED BY <2>1 DEF Known, Ahead
<1>4. PICK k \in Nat : k = Len(wire) + 1
  <2>1. Len(wire) + 1 \in Nat
    BY <1>2
  <2> QED BY <2>1
<1>5. PICK n \in Nat : n = Len(wire') + 1
  <2>1. Len(wire') + 1 \in Nat
    BY <1>2
  <2> QED BY <2>1
<1>6. Known(t, Len(wire) + 1)' = Known(t, n)' /\ Known(t, Len(wire) + 1) = Known(t, k)
  BY <1>4, <1>5 DEF Known, Ahead
<1>7. \A j \in 1 .. k - 1 : j \in 1 .. n - 1 /\ wire'[j] = wire[j]
  BY <1>2, <1>4, <1>5
<1>8. Known(t, k) \subseteq Known(t, n)'
  BY <1>7 DEF Known, Ahead
<1>9. ASSUME 1 \in 1 .. Len(s), s[1].of = <<t, 1>>, s[1].kind \in {"delta", "updated"}
      PROVE  Chunks(s[1].text) \intersect (0 .. MaxChunks) \subseteq Known(t, n)'
  <2>1. wire'[1 + Len(wire)] = s[1] /\ 1 + Len(wire) \in 1 .. n - 1
    BY <1>2, <1>5, <1>9
  <2> QED BY <1>9, <2>1 DEF Known, Ahead
<1> QED BY <1>3, <1>6, <1>8, <1>9

\* The server goes on with the first answer of a whole turn, or begins it.
LEMMA ServingKeepsWhole ==
  ASSUME Inv, Inv', HeardOf, HeardOf', NEW t \in Turns, OrderInv(t), IsWhole(t) => WholeInv(t),
         NEW u \in Turns, Serves(u), IsWhole(t)'
  PROVE  WholeInv(t)'
<1> DEFINE a == <<t, 1>>
<1>1. PICK s \in Seq(RawEvents) :
        /\ SentBy(u, s) /\ wire' = wire \o s
        /\ \/ stream = "up" /\ missed' = missed
           \/ stream # "up" /\ s = <<>> /\ missed' = missed \union {u}
        /\ stream = "up" /\ Writes(u) =>
             1 \in 1 .. Len(s) /\ s[1].kind \in {"delta", "updated"} /\ s[1].of = LastAnswer(u)
  BY DEF Serves
<1>2. /\ UNCHANGED <<queue, early, seen, conflicts, said, status, stream>>
      /\ Heard(t)' = Heard(t)
  <2>1. UNCHANGED <<queue, early, seen, conflicts, said, status, stream>>
    BY DEF Serves, routerVars, turnVars
  <2> QED BY <2>1 DEF Heard, Given
<1>3. answered'[t] = 1 /\ status[t] \in Live /\ t \notin missed /\ t \notin missed'
  BY <1>1, <1>2 DEF IsWhole
<1>4. u = t => stream = "up"
  BY <1>1, <1>3
<1>5. /\ \A v \in Turns : /\ answered[v] \in Nat /\ answered'[v] \in Nat /\ answered[v] <= answered'[v]
                          /\ written[v] \in Nat /\ written'[v] \in Nat /\ written[v] <= written'[v]
                          /\ v # u => answered'[v] = answered[v] /\ written'[v] = written[v]
  BY ServesGrows DEF HeardOf
<1>6. a \in Answers /\ a \in Of(t) /\ Parent(a) = t /\ a[2] = 1
  <2>1. answered'[t] <= MaxAnswers
    BY <1>3 DEF Inv, ServerTypeOK
  <2>2. 1 <= MaxAnswers /\ MaxAnswers \in Nat
    BY <1>3, <2>1, CountsAreNumbers
  <2> QED BY <2>2 DEF Answers, Of, Parent
<1>7. /\ Counts(text'[a]) /\ Len(text'[a]) = written'[t] /\ text'[a] \in Texts
      /\ Chunks(text'[a]) = 1 .. written'[t]
  <2>1. Counts(text'[a]) /\ Len(text'[a]) = written'[t]
    BY <1>3 DEF HeardOf, CountsInv, Counts
  <2>2. text'[a] \in Texts
    BY <1>6 DEF Inv, ServerTypeOK
  <2> QED BY <2>1, <2>2, CountsChunks
<1>8. /\ Len(wire) \in Nat /\ Len(s) \in Nat /\ Len(wire') = Len(wire) + Len(s)
      /\ \A i \in 1 .. Len(wire') :
           \/ i \in 1 .. Len(wire) /\ wire'[i] = wire[i]
           \/ i - Len(wire) \in 1 .. Len(s) /\ wire'[i] = s[i - Len(wire)]
  <2>1. wire \in Seq(RawEvents)
    BY DEF Inv, StreamTypeOK
  <2>2. /\ Len(wire) \in Nat /\ Len(s) \in Nat /\ Len(wire \o s) = Len(wire) + Len(s)
        /\ \A i \in 1 .. Len(wire) + Len(s) :
             (wire \o s)[i] = IF i <= Len(wire) THEN wire[i] ELSE s[i - Len(wire)]
    BY <2>1, ConcatProperties
  <2> QED BY <1>1, <2>2
<1>9. /\ \A i \in 1 .. Len(wire) + 1 : Known(t, i)' = Known(t, i)
      /\ Known(t, Len(wire) + 1) \subseteq Known(t, Len(wire) + 1)'
      /\ 1 \in 1 .. Len(s) /\ s[1].of = <<t, 1>> /\ s[1].kind \in {"delta", "updated"} =>
           Chunks(s[1].text) \intersect (0 .. MaxChunks) \subseteq Known(t, Len(wire) + 1)'
  BY <1>1, <1>2, SendingKnows
\* All that is known is written.
<1>10. \A i \in 1 .. Len(wire') : Known(t, i)' \subseteq 1 .. written'[t]
  <2> TAKE i \in 1 .. Len(wire')
  <2>1. Heard(t)' \subseteq 1 .. written'[t]
    <3>1. 1 .. written[t] \subseteq 1 .. written'[t]
      BY <1>5
    <3> QED BY <1>2, <3>1 DEF OrderInv
  <2>2. \A j \in 1 .. i - 1 : wire'[j].of = <<t, 1>> => Chunks(wire'[j].text) \subseteq 1 .. written'[t]
    <3> SUFFICES ASSUME NEW j \in 1 .. i - 1, wire'[j].of = <<t, 1>>
                 PROVE  Chunks(wire'[j].text) \subseteq 1 .. written'[t]
      OBVIOUS
    <3>1. j \in 1 .. Len(wire')
      BY <1>8
    <3>2. Fits(wire[j])'
      BY <3>1 DEF HeardOf, WireInv
    <3>3. Chunks(wire'[j].text) \subseteq Chunks(text'[a])
      BY <1>6, <3>2 DEF Fits
    <3> QED BY <1>7, <3>3
  <2> QED BY <2>1, <2>2 DEF Known, Ahead
<1> HIDE DEF a
\* What is sent of the answer holds all its text, or the chunk that is new.
<1>11. ASSUME NEW i \in 1 .. Len(wire'), wire'[i].of = <<t, 1>>, wire'[i].kind = "updated",
              i - Len(wire) \in 1 .. Len(s), wire'[i] = s[i - Len(wire)]
       PROVE  Counts(wire'[i].text) /\ Known(t, i)' \subseteq 1 .. Len(wire'[i].text)
  <2>1. wire'[i].text = text'[a]
    BY <1>1, <1>11 DEF SentBy, a
  <2> QED BY <1>7, <1>10, <2>1
<1>12. CASE answered[t] # 1
  <2>1. answered[t] = 0 /\ Begins(t) /\ u = t
    <3>1. u = t
      BY <1>3, <1>5, <1>12
    <3>2. Begins(t)
      BY <1>3, <1>12, <3>1 DEF Serves, Writes
    <3>3. answered'[t] = answered[t] + 1
      BY <3>2 DEF Begins, Inv, ServerTypeOK
    <3> QED BY <1>3, <1>5, <3>1, <3>2, <3>3
  <2>2. written[t] = 0 /\ written'[t] = 0
    BY <2>1 DEF HeardOf, CountsInv, Begins
  <2>3. Heard(t) = {} /\ said[t] = <<>>
    <3>1. Heard(t) = {}
      BY <2>2 DEF OrderInv
    <3>2. said[t] \in Texts /\ Chunks(said[t]) = {}
      BY <3>1, HeardChunks DEF Given, Inv, TurnsTypeOK
    <3>3. said[t] \in Seq(Nat) /\ Len(said[t]) \in Nat
      BY <3>2, TextsAreNumbers
    <3>4. ~(Len(said[t]) > 0)
      <4> SUFFICES ASSUME Len(said[t]) > 0 PROVE FALSE
        OBVIOUS
      <4>1. 1 \in 1 .. Len(said[t])
        BY <3>3
      <4> QED BY <3>2, <4>1 DEF Chunks
    <3> QED BY <3>1, <3>3, <3>4, EmptySeq
  <2>4. seen[a] = <<>> /\ a \notin conflicts
    <3>1. a[2] > answered[Parent(a)]
      BY <1>6, <2>1
    <3> QED BY <1>6, <3>1 DEF HeardOf, AnsweredInv
  <2>5. \A i \in 1 .. Len(wire) : wire[i].of # <<t, 1>>
    <3> SUFFICES ASSUME NEW i \in 1 .. Len(wire), wire[i].of = a PROVE FALSE
      BY DEF a
    <3>1. Fits(wire[i])
      BY DEF HeardOf, WireInv
    <3>2. a[2] <= answered[Parent(a)]
      BY <1>6, <3>1 DEF Fits
    <3> QED BY <1>6, <2>1, <3>2
  <2>6. WholeWire(t)'
    <3> SUFFICES ASSUME NEW i \in 1 .. Len(wire'), wire'[i].of = <<t, 1>>
                 PROVE  /\ wire'[i].kind = "delta" =>
                             \E c \in 1 .. MaxChunks : wire'[i].text = <<c>> /\ 1 .. c - 1 \subseteq Known(t, i)'
                        /\ wire'[i].kind = "updated" =>
                             Counts(wire'[i].text) /\ Known(t, i)' \subseteq 1 .. Len(wire'[i].text)
      BY DEF WholeWire
    <3>1. i - Len(wire) \in 1 .. Len(s) /\ wire'[i] = s[i - Len(wire)]
      BY <1>8, <2>5
    <3>2. wire'[i].kind # "delta"
      <4>1. wire'[i].kind = "delta" => written'[t] = written[t] + 1
        BY <1>1, <2>1, <3>1 DEF SentBy
      <4> QED BY <2>2, <4>1
    <3> QED BY <1>11, <3>1, <3>2
  <2>7. 1 .. written'[t] = {}
    BY <2>2
  <2>8. Heard(t)' = 1 .. Len(seen'[a])
    BY <1>2, <2>3, <2>4
  <2> QED BY <1>2, <2>3, <2>4, <2>6, <2>7, <2>8, NoRuns DEF WholeInv, a
<1>13. CASE answered[t] = 1
  <2>1. WholeInv(t)
    BY <1>3, <1>13 DEF IsWhole
  <2>2. WholeWire(t)'
    <3> SUFFICES ASSUME NEW i \in 1 .. Len(wire'), wire'[i].of = <<t, 1>>
                 PROVE  /\ wire'[i].kind = "delta" =>
                             \E c \in 1 .. MaxChunks : wire'[i].text = <<c>> /\ 1 .. c - 1 \subseteq Known(t, i)'
                        /\ wire'[i].kind = "updated" =>
                             Counts(wire'[i].text) /\ Known(t, i)' \subseteq 1 .. Len(wire'[i].text)
      BY DEF WholeWire
    <3>1. CASE i \in 1 .. Len(wire) /\ wire'[i] = wire[i]
      <4>1. Known(t, i)' = Known(t, i)
        BY <1>8, <1>9, <3>1
      <4> QED BY <2>1, <3>1, <4>1 DEF WholeInv, WholeWire
    <3>2. CASE i - Len(wire) \in 1 .. Len(s) /\ wire'[i] = s[i - Len(wire)]
      <4>1. u = t
        BY <1>1, <1>6, <3>2 DEF SentBy, a
      <4>2. ASSUME wire'[i].kind = "delta"
            PROVE  \E c \in 1 .. MaxChunks : wire'[i].text = <<c>> /\ 1 .. c - 1 \subseteq Known(t, i)'
        <5>1. i - Len(wire) = 1 /\ wire'[i].text = <<written'[t]>> /\ written'[t] = written[t] + 1
          BY <1>1, <3>2, <4>1, <4>2 DEF SentBy
        <5>2. PICK k \in 1 .. Len(wire) + 1 : k = i /\ k = Len(wire) + 1
          BY <1>8, <5>1
        <5>3. Known(t, i)' = Known(t, k)
          BY <1>9, <5>2
        <5>4. Known(t, k) = Known(t, Len(wire) + 1)
          BY <5>2
        <5>5. 1 .. written[t] \subseteq Known(t, i)'
          BY <1>4, <2>1, <4>1, <5>3, <5>4 DEF WholeInv
        <5>6. written'[t] \in 1 .. MaxChunks /\ written'[t] - 1 = written[t]
          <6>1. written'[t] \in 0 .. MaxChunks
            BY DEF Inv, ServerTypeOK
          <6>2. written[t] \in 0 .. MaxChunks /\ MaxChunks \in Nat
            BY OpenCodeAssumption DEF Inv, ServerTypeOK
          <6>3. written'[t] = written[t] + 1
            BY <5>1
          <6> QED BY <6>1, <6>2, <6>3, SMTT(20)
        <5>7. 1 .. written'[t] - 1 \subseteq Known(t, i)'
          BY <5>5, <5>6
        <5> QED BY <5>1, <5>6, <5>7
      <4> QED BY <1>11, <3>2, <4>2
    <3> QED BY <1>8, <3>1, <3>2
  <2>3. ASSUME stream' # "down" PROVE 1 .. written'[t] \subseteq Known(t, Len(wire) + 1)'
    <3>1. 1 .. written[t] \subseteq Known(t, Len(wire) + 1)'
      BY <1>2, <1>9, <2>1, <2>3 DEF WholeInv
    <3>2. CASE written'[t] = written[t]
      BY <3>1, <3>2
    <3>3. CASE written'[t] # written[t]
      <4>1. u = t /\ Writes(t)
        BY <1>5, <3>3 DEF Serves, Begins
      <4>2. /\ 1 \in 1 .. Len(s) /\ s[1].kind \in {"delta", "updated"} /\ s[1].of = <<t, 1>>
            /\ written'[t] = written[t] + 1 /\ written'[t] \in 1 .. MaxChunks
        <5>1. LastAnswer(t) = <<t, 1>>
          BY <1>13 DEF LastAnswer
        <5> QED BY <1>1, <1>4, <4>1, <5>1, WritesAdds DEF HeardOf
      <4>3. written'[t] \in Chunks(s[1].text)
        <5>1. CASE s[1].kind = "delta"
          <6>1. s[1].text = <<written'[t]>>
            BY <1>1, <4>1, <4>2, <5>1 DEF SentBy
          <6> QED BY <6>1, OneChunk
        <5>2. CASE s[1].kind = "updated"
          <6>1. s[1].text = text'[s[1].of]
            <7>1. \A j \in 1 .. Len(s) : s[j].kind = "updated" => s[j].text = text'[s[j].of]
              BY <1>1 DEF SentBy
            <7> QED BY <4>2, <5>2, <7>1
          <6>2. s[1].text = text'[a]
            BY <4>2, <6>1 DEF a
          <6> QED BY <1>7, <4>2, <6>2
        <5> QED BY <4>2, <5>1, <5>2
      <4>4. written'[t] \in Known(t, Len(wire) + 1)'
        <5>1. written'[t] \in 0 .. MaxChunks
          BY <4>2, OpenCodeAssumption
        <5> QED BY <1>9, <4>2, <4>3, <5>1
      <4>5. 1 .. written'[t] \subseteq 1 .. written[t] \union {written'[t]}
        BY <1>5, <4>2
      <4> QED BY <3>1, <4>4, <4>5
    <3> QED BY <3>2, <3>3
  <2> QED BY <1>2, <2>1, <2>2, <2>3 DEF WholeInv
<1> QED BY <1>12, <1>13

\* The next event of a whole turn's queue continues what is said.
LEMMA TakingKeepsCount ==
  ASSUME Inv, HeardOf, PlainInv, NEW t \in Turns, OrderInv(t), WholeInv(t), answered[t] = 1,
         queue[t] # <<>>
  PROVE  Counts(said[t] \o Head(queue[t]).text)
<1> DEFINE a == <<t, 1>>
           x == Head(queue[t]).text
           q == Tail(queue[t])
           n == Len(seen[a])
<1>1. /\ queue[t] \in Seq(AgentEvents) /\ said[t] \in Texts
      /\ a \in Answers /\ a \in Of(t) /\ Parent(a) = t /\ a[2] = 1 /\ early[a] \in Seq(AgentEvents)
      /\ n \in Nat
  <2>1. a \in Answers /\ a \in Of(t) /\ Parent(a) = t
    BY FirstAnswer
  <2>2. seen[a] \in Texts
    BY <2>1 DEF Inv, RouterInv, RouterTypeOK
  <2> QED BY <2>1, <2>2, TextsAreNumbers DEF Inv, RouterInv, RouterTypeOK, TurnsTypeOK
<1>2. /\ Head(queue[t]) \in AgentEvents /\ ChunksOf(queue[t]) = Chunks(x) \union ChunksOf(q)
      /\ Ascends(x) /\ Before(Chunks(x), ChunksOf(q)) /\ Before(Chunks(said[t]), ChunksOf(queue[t]))
  BY <1>1, TakeFirst DEF OrderInv, QueueOrder
<1>3. x \in Texts /\ RunsOn(x)
  <2>1. queue[t] \in Seq(Plain)
    BY DEF PlainInv
  <2>2. Head(queue[t]) \in Plain
    BY <2>1, HeadTailProperties
  <2> QED BY <1>2, <2>2 DEF Plain, AgentEvents
<1>4. Counts(said[t]) /\ Heard(t) = 1 .. n /\ Chunks(said[t]) = 1 .. Len(said[t]) /\ Len(said[t]) \in Nat
  BY <1>1, CountsChunks, TextsAreNumbers DEF WholeInv
\* What is early comes after what is given, as what is heard of the answer goes on.
<1>5. \A b \in Of(t) : Before(Given(t), ChunksOf(early[b]))
  <2> TAKE b \in Of(t)
  <2>1. CASE b[2] > 1
    <3>1. early[b] = <<>>
      BY <2>1 DEF HeardOf, AnsweredInv, Of
    <3> QED BY <3>1, NoEvents DEF Before
  <2>2. CASE ~(b[2] > 1)
    <3>1. b[2] = 1 /\ Parent(b) = t
      BY <2>2, CountsAreNumbers DEF Of
    <3>2. Coming(b)
      BY <3>1 DEF Coming
    <3> QED BY <3>2 DEF OrderInv, EarlyOrder
  <2> QED BY <2>1, <2>2
<1>6. Given(t) = Chunks(said[t]) \union Chunks(x) \union ChunksOf(q)
  BY <1>2 DEF Given
<1> HIDE DEF a, x, q, n
<1>7. ASSUME x # <<>> PROVE x[1] = Len(said[t]) + 1
  <2>1. Len(x) \in Nat /\ x \in Seq(Nat) /\ Len(x) # 0
    BY <1>3, <1>7, TextsAreNumbers, EmptySeq
  <2>2. 1 \in 1 .. Len(x) /\ x[1] \in Nat
    BY <1>3, <2>1, TextsAreNumbers
  <2>3. x[1] \in Chunks(x) /\ \A c \in Chunks(x) : c = x[1] \/ x[1] < c
    <3>1. \A i \in 1 .. Len(x) : i # 1 => x[1] < x[i]
      <4> SUFFICES ASSUME NEW i \in 1 .. Len(x), i # 1 PROVE x[1] < x[i]
        OBVIOUS
      <4>1. 1 \in 1 .. i - 1
        BY <2>1
      <4> QED BY <1>2, <4>1 DEF Ascends
    <3> QED BY <2>2, <3>1 DEF Chunks
  <2>4. x[1] \in Heard(t)
    BY <1>6, <2>3, HeardChunks
  <2>5. \A c \in 1 .. Len(said[t]) : c < x[1]
    BY <1>2, <1>4, <2>3 DEF Before
  \* Were it not the next, the next one would be heard, but is neither said nor given after.
  <2>6. ~(Len(said[t]) + 1 < x[1])
    <3> SUFFICES ASSUME Len(said[t]) + 1 < x[1] PROVE FALSE
      OBVIOUS
    <3>1. PICK c \in Nat : c = Len(said[t]) + 1
      <4>1. Len(said[t]) + 1 \in Nat
        BY <1>4
      <4> QED BY <4>1
    <3>2. c \in Heard(t)
      <4>1. x[1] \in 1 .. n
        BY <1>4, <2>4
      <4>2. c \in 1 .. n
        BY <1>1, <1>4, <2>2, <3>1, <4>1
      <4> QED BY <1>4, <4>2
    <3>3. c < x[1] /\ c \notin Chunks(said[t])
      BY <1>4, <3>1
    <3>4. c \notin Chunks(x)
      BY <2>2, <2>3, <3>3
    <3>5. c \notin ChunksOf(q)
      <4>1. \A d \in ChunksOf(q) : x[1] < d
        BY <1>2, <2>3 DEF Before
      <4>2. ChunksOf(q) \subseteq Nat
        BY OpenCodeAssumption DEF ChunksOf
      <4> QED BY <2>2, <3>3, <4>1, <4>2
    <3>6. \A b \in Of(t) : c \notin ChunksOf(early[b])
      <4> TAKE b \in Of(t)
      <4>1. x[1] \in Given(t)
        BY <1>6, <2>3
      <4>2. \A d \in ChunksOf(early[b]) : x[1] < d
        BY <1>5, <4>1 DEF Before
      <4>3. ChunksOf(early[b]) \subseteq Nat
        BY OpenCodeAssumption DEF ChunksOf
      <4> QED BY <2>2, <3>3, <4>2, <4>3
    <3> QED BY <1>6, <3>2, <3>3, <3>4, <3>5, <3>6, HeardChunks
  <2>7. Len(said[t]) < x[1]
    <3>1. CASE Len(said[t]) = 0
      <4>1. x[1] > 0
        BY <1>2, <2>2 DEF Ascends
      <4> QED BY <3>1, <4>1
    <3>2. CASE Len(said[t]) # 0
      <4>1. Len(said[t]) \in 1 .. Len(said[t])
        BY <1>4, <3>2
      <4> QED BY <2>5, <4>1
    <3> QED BY <3>1, <3>2
  <2> QED BY <1>4, <2>2, <2>6, <2>7
<1>8. Counts(said[t] \o x)
  BY <1>1, <1>3, <1>4, <1>7, CountsOn
<1> QED BY <1>8 DEF x

LEMMA TurnKeepsWhole ==
  ASSUME Inv, Inv', HeardOf, PlainInv, OrderedInv, WholesInv, NEW u \in Turns, TurnNext(u)
  PROVE  WholesInv'
<1> SUFFICES ASSUME NEW t \in Turns, IsWhole(t)' PROVE WholeInv(t)'
  BY DEF WholesInv
<1>1. TurnSteps(u)
  BY TurnsStep
<1>2. /\ UNCHANGED <<early, seen, conflicts, wire, stream, written, answered, missed>>
      /\ status'[t] \in Live /\ t \notin missed /\ answered[t] = 1
  BY <1>1 DEF TurnSteps, IsWhole
<1>3. /\ queue \in [Turns -> Seq(AgentEvents)] /\ said \in [Turns -> Texts] /\ status \in [Turns -> Statuses]
  BY DEF Inv, RouterInv, RouterTypeOK, TurnsTypeOK
<1>4. ASSUME status[t] \in Live, Given(t)' = Given(t), Counts(said[t]) => Counts(said'[t])
      PROVE  WholeInv(t)'
  <2>1. WholeInv(t)
    BY <1>2, <1>4 DEF WholesInv, IsWhole
  <2>2. Heard(t)' = Heard(t)
    BY <1>2, <1>4 DEF Heard
  <2>3. Counts(said'[t]) /\ <<t, 1>> \notin conflicts' /\ seen'[<<t, 1>>] = seen[<<t, 1>>]
    BY <1>2, <1>4, <2>1 DEF WholeInv
  <2>4. wire' = wire /\ written'[t] = written[t] /\ (stream' # "down" => stream # "down")
    BY <1>2
  <2> QED BY <2>1, <2>2, <2>3, <2>4, WholeStays
<1>5. CASE u # t
  <2>1. status'[t] = status[t]
    BY <1>1, <1>3, <1>5 DEF TurnSteps
  <2>2. queue'[t] = queue[t] /\ said'[t] = said[t]
    BY <1>1, <1>3, <1>5 DEF TurnSteps, StartTurn, register, Keeps, Drops, TakeEvent, MessagesReturn
  <2> QED BY <1>2, <1>4, <2>1, <2>2 DEF Given
<1>6. CASE u = t
  <2>1. CASE StartTurn(t)
    <3>1. status[t] = "none"
      BY <2>1 DEF StartTurn
    <3>2. answered[t] = 0
      BY <3>1 DEF HeardOf, CountsInv
    <3> QED BY <1>2, <3>2
  <2>2. CASE Keeps(t)
    <3>1. said'[t] = said[t] /\ status[t] \in Live
      BY <2>2 DEF Keeps
    <3>2. CASE queue' = queue
      BY <1>4, <3>1, <3>2 DEF Given
    <3>3. CASE Drops(t)
      <4>1. /\ queue[t] # <<>> /\ queue'[t] = Tail(queue[t]) /\ queue[t] \in Seq(AgentEvents)
            /\ Head(queue[t]).kind \in {"completed", "failed"}
        BY <1>3, <3>3 DEF Drops
      <4>2. Head(queue[t]).text = <<>>
        <5>1. queue[t] \in Seq(Plain)
          BY DEF PlainInv
        <5>2. Head(queue[t]) \in Plain
          BY <4>1, <5>1, HeadTailProperties
        <5> QED BY <4>1, <5>2 DEF Plain, Worded
      <4>3. ChunksOf(queue'[t]) = ChunksOf(queue[t])
        BY <4>1, <4>2, TakeFirst, NoChunks
      <4> QED BY <1>4, <3>1, <4>3 DEF Given
    <3> QED BY <2>2, <3>2, <3>3 DEF Keeps
  <2>3. CASE TakeEvent(t)
    <3>1. /\ queue[t] # <<>> /\ queue'[t] = Tail(queue[t]) /\ status[t] \in Live
          /\ said'[t] = said[t] \o Head(queue[t]).text /\ queue[t] \in Seq(AgentEvents)
      BY <1>3, <2>3 DEF TakeEvent, Live, Reading
    <3>2. /\ Head(queue[t]) \in AgentEvents
          /\ ChunksOf(queue[t]) = Chunks(Head(queue[t]).text) \union ChunksOf(Tail(queue[t]))
      BY <3>1, TakeFirst
    <3>3. Head(queue[t]).text \in Texts /\ said[t] \in Texts
      BY <1>3, <3>2 DEF AgentEvents
    <3>4. Chunks(said'[t]) = Chunks(said[t]) \union Chunks(Head(queue[t]).text)
      BY <3>1, <3>3, ConcatChunks
    <3>5. Given(t)' = Given(t)
      BY <3>1, <3>2, <3>4 DEF Given
    <3>6. Counts(said'[t])
      <4>1. OrderInv(t) /\ WholeInv(t)
        BY <1>2, <3>1 DEF OrderedInv, WholesInv, IsWhole
      <4> QED BY <1>2, <3>1, <4>1, TakingKeepsCount
    <3> QED BY <1>4, <3>1, <3>5, <3>6
  <2>4. CASE MessagesReturn(t)
    <3>1. /\ Ignored(t) /\ queue' = queue /\ said'[t] = said[t] \o Backfill(t)
          /\ status[t] \in Live
      BY <1>2, <1>3, <2>4 DEF MessagesReturn, Live, Reading
    <3>2. Backfill(t) = <<>>
      BY <3>1 DEF Ignored, Backfill
    <3>3. said'[t] = said[t]
      BY <1>3, <3>1, <3>2 DEF Texts
    <3> QED BY <1>4, <3>1, <3>3 DEF Given
  <2> QED BY <1>1, <1>6, <2>1, <2>2, <2>3, <2>4 DEF TurnSteps
<1> QED BY <1>5, <1>6

LEMMA StepKeepsWhole ==
  ASSUME Inv, Inv', FreshInv, HeardOf, RepliesInv, PlainInv, OrderedInv, WholesInv, [Next]_vars
  PROVE  WholesInv'
<1>1. ASSUME UNCHANGED <<status, answered, missed>>,
             \A t \in Turns : OrderInv(t) /\ WholeInv(t) /\ answered[t] = 1 => WholeInv(t)'
      PROVE  WholesInv'
  BY <1>1 DEF WholesInv, IsWhole, OrderedInv
<1>2. CASE Listen
  <2>1. UNCHANGED <<status, answered, missed>>
    BY <1>2 DEF Listen, turnVars, serverVars, history
  <2> QED BY <1>1, <1>2, <2>1, ListenKeepsWhole
<1>3. ASSUME NEW t \in Turns, OrderInv(t), WholeInv(t), answered[t] = 1, Given(t)' = Given(t),
             UNCHANGED <<said, early, seen, conflicts>>,
             \/ wire' = wire /\ written'[t] = written[t] /\ (stream' # "down" => stream # "down")
             \/ wire' = <<>> /\ stream' = "down"
      PROVE  WholeInv(t)'
  <2>1. Heard(t)' = Heard(t)
    BY <1>3 DEF Heard
  <2>2. Counts(said'[t]) /\ <<t, 1>> \notin conflicts' /\ seen'[<<t, 1>>] = seen[<<t, 1>>]
    BY <1>3 DEF WholeInv
  <2> QED BY <1>3, <2>1, <2>2, WholeStays
<1>4. CASE Disconnect
  <2>1. /\ UNCHANGED <<status, answered, missed, said, early, seen, conflicts>>
        /\ wire' = <<>> /\ stream' = "down"
    BY <1>4 DEF Disconnect, turnVars, serverVars
  <2>2. ASSUME NEW t \in Turns, OrderInv(t), WholeInv(t), answered[t] = 1 PROVE WholeInv(t)'
    <3>1. queue'[t] = queue[t] \/ \E ev \in Closings : queue'[t] = Append(queue[t], ev)
      BY <1>4, DisconnectCloses
    <3>2. Given(t)' = Given(t)
      BY <2>1, <2>2, <3>1, ClosingKeepsGiven DEF OrderInv
    <3> QED BY <1>3, <2>1, <2>2, <3>2
  <2> QED BY <1>1, <2>1, <2>2
<1>5. ASSUME NEW u \in Turns, Serves(u) PROVE WholesInv'
  <2>1. status' = status /\ missed \subseteq missed'
    BY <1>5 DEF Serves, turnVars
  <2>2. HeardOf'
    BY StepKeepsHeardOf
  <2> SUFFICES ASSUME NEW t \in Turns, IsWhole(t)' PROVE WholeInv(t)'
    BY DEF WholesInv
  <2>3. OrderInv(t) /\ (IsWhole(t) => WholeInv(t))
    BY <2>1 DEF OrderedInv, WholesInv, IsWhole
  <2> QED BY <1>5, <2>2, <2>3, ServingKeepsWhole
<1>6. CASE /\ UNCHANGED <<routerVars, turnVars, wire, text, written, answered, missed>>
           /\ stream' # "down" => stream # "down"
  <2>1. UNCHANGED <<queue, early, seen, conflicts, status, said, wire, written, answered, missed>>
    BY <1>6 DEF routerVars, turnVars
  <2>2. ASSUME NEW t \in Turns, OrderInv(t), WholeInv(t), answered[t] = 1 PROVE WholeInv(t)'
    <3>1. Given(t)' = Given(t)
      BY <2>1 DEF Given
    <3> QED BY <1>3, <1>6, <2>1, <2>2, <3>1
  <2> QED BY <1>1, <2>1, <2>2
<1> QED BY <1>2, <1>4, <1>5, <1>6, StepCases, TurnKeepsWhole

\* Of a live turn with one answer, none of whose events was missed, the router has seen all
\* that was heard, and the wire brings the rest of what is written, chunk by chunk.
THEOREM WholesHold == Spec => []WholesInv
<1>1. Init => WholesInv
  BY DEF Init, WholesInv, IsWhole, Live, Reading
<1>2. Inv /\ Inv' /\ FreshInv /\ HeardOf /\ RepliesInv /\ PlainInv /\ OrderedInv /\ WholesInv
        /\ [Next]_vars => WholesInv'
  BY StepKeepsWhole
<1> QED BY <1>1, <1>2, InvHolds, FreshHolds, HeardOfHolds, PlainHolds, OrderedHolds, PTL DEF Spec

\* What is said of a turn with one answer is the start of what is written.
LEMMA SaidWithin ==
  ASSUME Inv, HeardOf, NEW t \in Turns, OrderInv(t), WholeInv(t), answered[t] = 1
  PROVE  /\ Counts(said[t]) /\ Counts(text[<<t, 1>>]) /\ <<t, 1>> \in Answers
         /\ Len(said[t]) <= Len(text[<<t, 1>>])
<1>1. said[t] \in Texts /\ <<t, 1>> \in Answers
  BY FirstAnswer DEF Inv, TurnsTypeOK
<1>2. Counts(said[t]) /\ Len(text[<<t, 1>>]) = written[t] /\ Counts(text[<<t, 1>>])
  BY DEF WholeInv, HeardOf, CountsInv, Counts
<1>3. Len(said[t]) \in Nat /\ written[t] \in Nat
  BY <1>1, TextsAreNumbers, CountsAreNumbers
<1>4. 1 .. Len(said[t]) \subseteq 1 .. written[t]
  <2>1. Chunks(said[t]) = 1 .. Len(said[t])
    BY <1>1, <1>2, CountsChunks
  <2>2. Chunks(said[t]) \subseteq Heard(t)
    BY HeardChunks DEF Given
  <2> QED BY <2>1, <2>2 DEF OrderInv
<1>5. Len(said[t]) <= written[t]
  <2>1. CASE Len(said[t]) = 0
    BY <1>3, <2>1
  <2>2. CASE Len(said[t]) # 0
    <3>1. Len(said[t]) \in 1 .. Len(said[t])
      BY <1>3, <2>2
    <3> QED BY <1>3, <1>4, <3>1
  <2> QED BY <2>1, <2>2
<1> QED BY <1>1, <1>2, <1>5

\* A shorter count is the start of a longer one.
LEMMA CountsStart ==
  ASSUME NEW s \in Texts, NEW u \in Texts, Counts(s), Counts(u), Len(s) <= Len(u)
  PROVE  IsStartOf(s, u)
<1>1. u \in Seq(Nat) /\ s \in Seq(Nat) /\ Len(s) \in Nat /\ Len(u) \in Nat
  BY TextsAreNumbers
<1>2. /\ SubSeq(u, 1, Len(s)) \in Seq(Nat) /\ Len(SubSeq(u, 1, Len(s))) = Len(s)
      /\ \A i \in 1 .. Len(s) : SubSeq(u, 1, Len(s))[i] = u[i]
  BY <1>1, SubSeqProperties
<1>3. \A i \in 1 .. Len(s) : u[i] = i /\ s[i] = i
  BY <1>1 DEF Counts
<1>4. SubSeq(u, 1, Len(s)) = s
  BY <1>1, <1>2, <1>3, SeqEqual
<1> QED BY <1>4 DEF IsStartOf

\* What the server read of a turn with one answer continues what the turn has yielded;
RepliesCount ==
  \A t \in Turns : reply[t].state = "answered" /\ t \notin missed /\ answered[t] = 1 =>
    Counts(reply[t].text) /\ Len(said[t]) <= Len(reply[t].text)
\* the prompts the server works on are different and not ended,
TodoInv ==
  \A i \in 1 .. Len(todo) : /\ todo[i] \notin ended
                            /\ \A j \in 1 .. i - 1 : todo[j] # todo[i]
\* and so what it read of a turn it had ended is all the text.
FinalsInv ==
  \A t \in Turns : reply[t].final =>
    t \in ended /\ (reply[t].state = "answered" => reply[t].text = text[<<t, 1>>])

\* What a turn has missed it has missed for good.
LEMMA MissedGrows ==
  ASSUME Inv, FreshInv, HeardOf, [Next]_vars
  PROVE  missed \subseteq missed'
<1>1. ASSUME NEW u \in Turns, Serves(u) PROVE missed \subseteq missed'
  BY <1>1 DEF Serves
<1>2. ASSUME NEW u \in Turns, TurnNext(u) PROVE UNCHANGED missed
  BY <1>2, TurnsStep DEF TurnSteps
<1> QED BY <1>1, <1>2, StepCases DEF Listen, Disconnect, history

LEMMA RepliesCountKept ==
  ASSUME Inv, Inv', FreshInv, HeardOf, RepliesInv, OrderedInv, WholesInv, RepliesCount, [Next]_vars
  PROVE  RepliesCount'
<1>0. TurnsTypeOK /\ TurnsTypeOK /\ missed \subseteq missed'
  BY MissedGrows DEF Inv
<1> SUFFICES ASSUME NEW t \in Turns, reply'[t].state = "answered", t \notin missed',
                    answered'[t] = 1
             PROVE  Counts(reply'[t].text) /\ Len(said'[t]) <= Len(reply'[t].text)
  BY DEF RepliesCount
<1>1. /\ t \notin missed /\ answered[t] \in {0, 1}
      /\ reply[t].state = "answered" => answered[t] = 1 /\ status[t] = "completing"
  BY <1>0, AnsweredGrows DEF RepliesInv
<1>2. CASE reply'[t] = reply[t] /\ said'[t] = said[t]
  BY <1>1, <1>2 DEF RepliesCount
<1>3. ASSUME NEW u \in Turns, TurnNext(u)
      PROVE  Counts(reply'[t].text) /\ Len(said'[t]) <= Len(reply'[t].text)
  <2>1. CASE reply'[t] = NoReply
    BY <2>1 DEF NoReply
  <2>2. CASE reply'[t] = reply[t] /\ (status[t] = "completing" =>
                 status'[t] = "completing" /\ said'[t] = said[t] /\ saw'[t] = saw[t])
    BY <1>1, <1>2, <2>2
  <2>3. CASE t = u /\ MessagesRead(u)
    <3>1. /\ status[t] = "completing" /\ said' = said /\ answered' = answered
          /\ reply'[t] = IF answered[t] > 0
               THEN [state |-> "answered", text |-> text[<<t, 1>>], final |-> t \in ended]
               ELSE [state |-> "unanswered", text |-> <<>>, final |-> t \in ended]
      BY <1>0, <2>3 DEF MessagesRead, TurnsTypeOK, serverVars
    <3>2. answered[t] = 1 /\ reply'[t].text = text[<<t, 1>>]
      BY <3>1
    <3>3. OrderInv(t) /\ WholeInv(t)
      BY <1>1, <3>1, <3>2 DEF OrderedInv, WholesInv, IsWhole, Live, Reading
    <3> QED BY <3>1, <3>2, <3>3, SaidWithin
  <2> QED BY <1>0, <1>3, <2>1, <2>2, <2>3, ReplyGoes
<1>4. Listen \/ Disconnect \/ UNCHANGED turnVars => UNCHANGED <<reply, said>>
  BY DEF Listen, Disconnect, turnVars
<1>5. ASSUME NEW u \in Turns, Serves(u) PROVE UNCHANGED <<reply, said>>
  BY <1>5 DEF Serves, turnVars
<1> QED BY <1>2, <1>3, <1>4, <1>5, StepCases

\* The first prompt goes off the list, and is ended.
LEMMA TodoEnds ==
  ASSUME Inv, TodoInv, todo # <<>>, todo' = Tail(todo), ended' = ended \union {Head(todo)}
  PROVE  TodoInv'
<1>1. /\ todo \in Seq(Turns) /\ Head(todo) = todo[1] /\ Len(todo) \in Nat /\ Len(todo) > 0
      /\ Len(todo') = Len(todo) - 1 /\ \A i \in 1 .. Len(todo') : todo'[i] = todo[i + 1]
  BY HeadTailProperties, EmptySeq DEF Inv, ServerTypeOK
<1> SUFFICES ASSUME NEW i \in 1 .. Len(todo')
             PROVE  todo'[i] \notin ended' /\ \A j \in 1 .. i - 1 : todo'[j] # todo'[i]
  BY DEF TodoInv
<1>2. /\ i + 1 \in 1 .. Len(todo) /\ 1 \in 1 .. (i + 1) - 1 /\ todo'[i] = todo[i + 1]
      /\ \A j \in 1 .. i - 1 : j \in 1 .. Len(todo') /\ j + 1 \in 1 .. (i + 1) - 1
  BY <1>1
<1>3. todo[i + 1] \notin ended /\ \A j \in 1 .. (i + 1) - 1 : todo[j] # todo[i + 1]
  BY <1>2 DEF TodoInv
<1> QED BY <1>1, <1>2, <1>3

LEMMA TodoKept ==
  ASSUME Inv, TodoInv, [Next]_vars
  PROVE  TodoInv' /\ ended \subseteq ended'
<1>1. CASE UNCHANGED <<todo, ended>>
  BY <1>1 DEF TodoInv
<1>2. ASSUME NEW t \in Turns, ServerAccepts(t) PROVE TodoInv' /\ ended \subseteq ended'
  <2>1. todo' = Append(todo, t) /\ ended' = ended /\ ~Accepted(t) /\ todo \in Seq(Turns)
    BY <1>2 DEF ServerAccepts, Inv, ServerTypeOK
  <2>2. /\ Len(todo') = Len(todo) + 1 /\ Len(todo) \in Nat /\ todo'[Len(todo) + 1] = t
        /\ \A i \in 1 .. Len(todo) : todo'[i] = todo[i]
    BY <2>1, AppendProperties
  <2>3. t \notin ended /\ \A i \in 1 .. Len(todo) : todo[i] # t
    BY <2>1 DEF Accepted
  <2> SUFFICES ASSUME NEW i \in 1 .. Len(todo) + 1
               PROVE  todo'[i] \notin ended /\ \A j \in 1 .. i - 1 : todo'[j] # todo'[i]
    BY <2>1, <2>2 DEF TodoInv
  <2>4. CASE i = Len(todo) + 1
    BY <2>2, <2>3, <2>4
  <2>5. CASE i \in 1 .. Len(todo)
    <3>1. todo[i] \notin ended /\ \A j \in 1 .. i - 1 : todo[j] # todo[i]
      BY <2>5 DEF TodoInv
    <3>2. \A j \in 1 .. i - 1 : j \in 1 .. Len(todo)
      BY <2>2, <2>5
    <3> QED BY <2>2, <2>5, <3>1, <3>2
  <2> QED BY <2>2, <2>4, <2>5
<1>3. ASSUME NEW t \in Turns, ServerEnds(t) PROVE TodoInv' /\ ended \subseteq ended'
  <2>1. todo # <<>> /\ todo' = Tail(todo) /\ ended' = ended \union {Head(todo)}
    BY <1>3 DEF ServerEnds, WorksOn
  <2> QED BY <2>1, TodoEnds
<1>4. CASE ServerAborts
  BY <1>1, <1>4, TodoEnds DEF ServerAborts
<1>5. ASSUME NEW t \in Turns,
             ServerBegins(t) \/ ServerWrites(t) \/ ServerAsks(t, "asked") \/ ServerAsks(t, "question")
      PROVE  UNCHANGED <<todo, ended>>
  BY <1>5 DEF ServerBegins, ServerWrites, ServerAsks
<1>6. ASSUME NEW t \in Turns, TurnNext(t) PROVE UNCHANGED <<todo, ended>>
  BY <1>6 DEF TurnNext, StartTurn, PromptReturns, PromptRefused, PromptLost, TakeEvent, TakeFailed,
              TakeCompleted, MessagesRead, MessagesReturn, MessagesRaise, Stop, TimeOut, Answer,
              serverVars
<1>7. Connect \/ Listen \/ Disconnect \/ UNCHANGED vars => UNCHANGED <<todo, ended>>
  BY DEF Connect, Listen, Disconnect, vars, serverVars
<1> QED BY <1>1, <1>2, <1>3, <1>4, <1>5, <1>6, <1>7 DEF Next, ServerNext

\* The server writes no more of a turn it has ended.
LEMMA EndedTextStays ==
  ASSUME Inv, TodoInv, [Next]_vars, NEW t \in ended
  PROVE  text'[<<t, 1>>] = text[<<t, 1>>]
<1>1. ASSUME NEW u \in Turns, ServerWrites(u) PROVE text'[<<t, 1>>] = text[<<t, 1>>]
  <2>1. /\ todo # <<>> /\ Head(todo) = u /\ answered[u] > 0
        /\ text' = [text EXCEPT ![LastAnswer(u)] = Append(text[LastAnswer(u)], written[u] + 1)]
    BY <1>1 DEF ServerWrites, WorksOn
  <2>2. u \notin ended
    <3>1. Head(todo) = todo[1] /\ 1 \in 1 .. Len(todo)
      BY <2>1, HeadTailProperties DEF Inv, ServerTypeOK
    <3> QED BY <2>1, <3>1 DEF TodoInv
  <2>3. LastAnswer(u) # <<t, 1>>
    BY <2>2 DEF LastAnswer
  <2>4. t \in Turns /\ text \in [Answers -> Texts]
    BY DEF Inv, ServerTypeOK
  <2>5. <<t, 1>> \in Answers \/ (<<t, 1>> \notin DOMAIN text /\ DOMAIN text' = DOMAIN text)
    BY <2>1, <2>4
  <2>6. <<t, 1>> \in Answers
    <3>1. answered[u] \in Nat /\ answered[u] <= MaxAnswers /\ MaxAnswers \in Nat
      BY <1>1, CountsAreNumbers
    <3> QED BY <2>1, <2>4, <3>1 DEF Answers
  <2> QED BY <2>1, <2>3, <2>4, <2>6
<1>2. ASSUME NEW u \in Turns,
             ServerAccepts(u) \/ ServerBegins(u) \/ ServerEnds(u)
               \/ ServerAsks(u, "asked") \/ ServerAsks(u, "question")
      PROVE  UNCHANGED text
  BY <1>2 DEF ServerAccepts, ServerBegins, ServerEnds, ServerAsks
<1>3. ASSUME NEW u \in Turns, TurnNext(u) PROVE UNCHANGED text
  BY <1>3, TurnsStep DEF TurnSteps
<1>4. Connect \/ Listen \/ Disconnect \/ ServerAborts \/ UNCHANGED vars => UNCHANGED text
  BY DEF Connect, Listen, Disconnect, ServerAborts, vars, serverVars
<1> QED BY <1>1, <1>2, <1>3, <1>4 DEF Next, ServerNext

LEMMA FinalsKept ==
  ASSUME Inv, FreshInv, HeardOf, TodoInv, FinalsInv, [Next]_vars
  PROVE  FinalsInv'
<1>0. TurnsTypeOK /\ ended \subseteq ended'
  BY TodoKept DEF Inv
<1> SUFFICES ASSUME NEW t \in Turns, reply'[t].final
             PROVE  t \in ended' /\ (reply'[t].state = "answered" => reply'[t].text = text'[<<t, 1>>])
  BY DEF FinalsInv
<1>1. CASE reply'[t] = reply[t]
  BY <1>0, <1>1, EndedTextStays DEF FinalsInv
<1>2. ASSUME NEW u \in Turns, TurnNext(u)
      PROVE  t \in ended' /\ (reply'[t].state = "answered" => reply'[t].text = text'[<<t, 1>>])
  <2>1. CASE reply'[t] = NoReply
    BY <2>1 DEF NoReply
  <2>2. CASE t = u /\ MessagesRead(u)
    <3>1. /\ ended' = ended /\ text' = text
          /\ reply'[t] = IF answered[t] > 0
               THEN [state |-> "answered", text |-> text[<<t, 1>>], final |-> t \in ended]
               ELSE [state |-> "unanswered", text |-> <<>>, final |-> t \in ended]
      BY <1>0, <2>2 DEF MessagesRead, TurnsTypeOK, serverVars
    <3>2. reply'[t].final => t \in ended
      <4>1. [state |-> "answered", text |-> text[<<t, 1>>], final |-> t \in ended].final => t \in ended
        BY Zenon
      <4>2. [state |-> "unanswered", text |-> <<>>, final |-> t \in ended].final => t \in ended
        BY Zenon
      <4>3. CASE answered[t] > 0
        BY <3>1, <4>1, <4>3, Zenon
      <4>4. CASE ~(answered[t] > 0)
        BY <3>1, <4>2, <4>4, Zenon
      <4> QED BY <4>3, <4>4
    <3>3. reply'[t].state = "answered" => reply'[t].text = text[<<t, 1>>]
      BY <3>1
    <3> QED BY <3>1, <3>2, <3>3
  <2> QED BY <1>0, <1>1, <1>2, <2>1, <2>2, ReplyGoes
<1>3. Listen \/ Disconnect \/ UNCHANGED turnVars => UNCHANGED reply
  BY DEF Listen, Disconnect, turnVars
<1>4. ASSUME NEW u \in Turns, Serves(u) PROVE UNCHANGED reply
  BY <1>4 DEF Serves, turnVars
<1> QED BY <1>1, <1>2, <1>3, <1>4, StepCases

\* While a turn completes, what the server read of it continues what the turn has yielded,
\* and is all of it if the server had ended the turn.
THEOREM RepliesHold == Spec => [](RepliesCount /\ TodoInv /\ FinalsInv)
<1>1. Init => RepliesCount /\ TodoInv /\ FinalsInv
  BY DEF Init, RepliesCount, TodoInv, FinalsInv, NoReply
<1>2. Inv /\ Inv' /\ FreshInv /\ HeardOf /\ RepliesInv /\ OrderedInv /\ WholesInv /\ RepliesCount
        /\ TodoInv /\ FinalsInv /\ [Next]_vars => RepliesCount' /\ TodoInv' /\ FinalsInv'
  BY RepliesCountKept, TodoKept, FinalsKept
<1> QED BY <1>1, <1>2, InvHolds, FreshHolds, HeardOfHolds, OrderedHolds, WholesHold, PTL DEF Spec

\* A turn with one answer that completes, and of which nothing was missed, has yielded all
\* that was written of that answer when the server read it for session_messages, and all
\* its text if the server had ended the turn by then; whatever of it came as deltas, as
\* snapshots of the part or only with the reply, and whatever was written while the reply
\* was on its way.
THEOREM CompletedTurnsAreWhole == Spec => CompletedTextIsWhole
<1> DEFINE Completes == \A t \in Turns \ missed :
             result[t] = "none" /\ result'[t] = "completed" /\ answered[t] = 1
               => /\ said'[t] = reply[t].text
                  /\ reply[t].final => said'[t] = text[<<t, 1>>]
<1>1. ASSUME Inv, FreshInv, HeardOf, RepliesInv, OrderedInv, WholesInv, RepliesCount, FinalsInv,
             [Next]_vars
      PROVE  Completes
  <2> SUFFICES ASSUME NEW t \in Turns \ missed, result[t] = "none", result'[t] = "completed",
                      answered[t] = 1
               PROVE  /\ said'[t] = reply[t].text
                      /\ reply[t].final => said'[t] = text[<<t, 1>>]
    OBVIOUS
  <2>1. PICK u \in Turns : TurnNext(u)
    BY <1>1, StepCases DEF Listen, Disconnect, Serves, turnVars
  <2>2. MessagesReturn(t)
    <3>1. result \in [Turns -> {"none", "completed", "failed"}]
      BY <1>1 DEF Inv, TurnsTypeOK
    <3> QED BY <2>1, <3>1 DEF TurnNext, StartTurn, PromptReturns, PromptRefused, PromptLost, TakeEvent,
         TakeFailed, TakeCompleted, MessagesRead, MessagesReturn, MessagesRaise, Stop, TimeOut, Answer
  <2>3. /\ said[t] \in Texts /\ reply[t].text \in Texts
        /\ said'[t] = said[t] \o Backfill(t) /\ status[t] \in Live
        /\ reply[t].state \in {"unanswered", "answered"} /\ ~Ignored(t)
    BY <1>1, <2>2 DEF Inv, TurnsTypeOK, MessagesReturn, Live, Reading
  <2>4. reply[t].state = "answered"
    BY <1>1, <2>3 DEF Ignored, RepliesInv
  <2>5. Counts(said[t])
    BY <1>1, <2>3 DEF WholesInv, IsWhole, WholeInv
  <2>6. Counts(reply[t].text) /\ Len(said[t]) <= Len(reply[t].text)
    BY <1>1, <2>4 DEF RepliesCount
  <2>7. IsStartOf(said[t], reply[t].text)
    BY <2>3, <2>5, <2>6, CountsStart
  <2>8. said'[t] = reply[t].text
    BY <2>3, <2>4, <2>7, AfterTheStart DEF Backfill
  <2> QED BY <1>1, <2>4, <2>8 DEF FinalsInv
<1>2. Inv /\ FreshInv /\ HeardOf /\ RepliesInv /\ OrderedInv /\ WholesInv /\ RepliesCount
        /\ FinalsInv /\ [Next]_vars => [Completes]_vars
  BY <1>1
<1>3. CompletedTextIsWhole <=> [][Completes]_vars
  BY DEF CompletedTextIsWhole
<1> HIDE DEF Completes
<1> QED BY <1>2, <1>3, InvHolds, FreshHolds, HeardOfHolds, OrderedHolds, WholesHold, RepliesHold,
           PTL DEF Spec
=============================================================================
