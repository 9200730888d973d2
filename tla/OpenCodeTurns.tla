--------------------------- MODULE OpenCodeTurns ---------------------------
(***************************************************************************)
(* The OpenCode adapter, c_auto_bridge/agent/opencode_server.py, for one   *)
(* OpenCode session: OpenCodeEventRouter, which sends the events of the    *)
(* session's one event stream to the queue of the right Agent Turn, and    *)
(* OpenCodeTurnStream, which the run controller iterates over.             *)
(*                                                                         *)
(* The router never suspends: a raw event is handled in one step.  What    *)
(* interleaves are the event stream, the HTTP calls prompt_async,          *)
(* session_messages and abort_session, and the server, which works on the  *)
(* session's prompts one after the other.                                  *)
(*                                                                         *)
(* A message is named by a turn and a number: <<t, 0>> is the user message *)
(* whose id turn t has, <<t, n>> the n-th assistant message that answers   *)
(* it, whose parentID is <<t, 0>>.  Text is a sequence of numbers: chunk 0 *)
(* is the prompt, and the chunks of a turn's answers count on from 1.      *)
(***************************************************************************)
EXTENDS Naturals, Sequences

CONSTANTS
  MaxTurns,   \* bound: turns started in the session
  MaxAnswers, \* bound: assistant messages that answer a turn
  MaxChunks,  \* bound: chunks of text the answers to a turn have
  Occurs,     \* what may happen besides turns that run undisturbed
  MaxOccurs   \* bound: how often any of it happens

AllOccurrences == {"late", "disconnect", "refuse", "lost", "messages", "stop",
                   "timeout", "asked", "question", "twice"}

ASSUME OpenCodeAssumption ==
  /\ MaxTurns \in Nat /\ MaxAnswers \in Nat
  /\ MaxChunks \in Nat /\ MaxOccurs \in Nat
  /\ Occurs \subseteq AllOccurrences

Turns == 1 .. MaxTurns
Answers == Turns \X (1 .. MaxAnswers)
Prompt(t) == <<t, 0>>
Prompts == {Prompt(t) : t \in Turns}
Parent(m) == m[1]
NoTurn == 0
NoAnswer == <<0, 0>>

\* Events as the server sends them; "of" is the message they name, or the
\* prompt of the turn that ends.  Text is what a delta adds or all the part holds.
Texts == Seq(0 .. MaxChunks)
RawEvents ==
  [kind : {"userInfo", "userPart", "idle", "error"}, of : Prompts, text : Texts] \union
  [kind : {"info", "delta", "updated", "asked", "question"}, of : Answers, text : Texts]
\* Events of core/agent_events.py.
AgentEvents == [kind : {"text", "approval", "completed", "failed"},
                of : Prompts \union Answers, text : Texts]
Event(kind, m, text) == [kind |-> kind, of |-> m, text |-> text]

VARIABLES
  \* OpenCodeEventRouter
  registered,  \* the turns that have an entry in _queues
  queue,       \* their queues, which a turn keeps when its entry goes
  current,     \* _session_messages
  bound,       \* _session_assistants
  known,       \* _message_parents: assistant messages whose parent is known
  users,       \* _message_roles: user messages known as such
  early,       \* _early of each assistant message
  seen,        \* _part_texts
  conflicts,   \* _part_conflicts
  \* start_turn and OpenCodeTurnStream
  status, said, saw, result, stopped,
  reply,       \* what the server has read for session_messages
  \* the event stream of runtime._listen
  stream, wire,
  \* the server: prompts it works on, answers begun, their text, how much
  \* text a turn has, requests, turns it ended, an abort on its way
  todo, answered, text, written, request, ended, aborting,
  \* history: turns with an unheard event, turns told of the interruption, and
  \* how much of Occurs has happened
  missed, interrupted, happened

routerVars == <<registered, queue, current, bound, known, users, early, seen, conflicts>>
turnVars   == <<status, said, saw, result, stopped, reply>>
streamVars == <<stream, wire>>
serverVars == <<todo, answered, text, written, request, ended, aborting>>
history    == <<missed, interrupted, happened>>
vars == <<routerVars, turnVars, streamVars, serverVars, history>>

\* The reply of session_messages: whether it has an answer to the turn, the text
\* of the first one, and whether the server had ended the turn (history).
NoReply == [state |-> "none", text |-> <<>>, final |-> FALSE]

\* Where start_turn and then the stream of a turn are: waiting for
\* prompt_async, iterated over, waiting for session_messages, paused by a
\* request; and the ends: a terminal event yielded, left by the run
\* controller, ended by an exception.
Reading == {"open", "completing"}
Live    == {"starting", "paused"} \union Reading
Statuses == {"none", "closed", "left", "raised"} \union Live

RouterTypeOK ==
  /\ registered \subseteq Turns /\ users \subseteq Turns
  /\ known \subseteq Answers /\ conflicts \subseteq Answers
  /\ current \in Turns \union {NoTurn}
  /\ bound \in Answers \union {NoAnswer}
  /\ queue \in [Turns -> Seq(AgentEvents)]
  /\ early \in [Answers -> Seq(AgentEvents)]
  /\ seen \in [Answers -> Texts]
TurnsTypeOK ==
  /\ status \in [Turns -> Statuses]
  /\ said \in [Turns -> Texts]
  /\ saw \in [Turns -> BOOLEAN]
  /\ result \in [Turns -> {"none", "completed", "failed"}]
  /\ stopped \in [Turns -> {"no", "owner", "idle"}]
  /\ reply \in [Turns ->
       [state : {"none", "unanswered", "answered"}, text : Texts, final : BOOLEAN]]
StreamTypeOK ==
  /\ stream \in {"connecting", "up", "down"}
  /\ wire \in Seq(RawEvents)
  /\ missed \subseteq Turns /\ interrupted \subseteq Turns
  /\ happened \in 0 .. MaxOccurs
ServerTypeOK ==
  /\ todo \in Seq(Turns) /\ ended \subseteq Turns
  /\ answered \in [Turns -> 0 .. MaxAnswers]
  /\ text \in [Answers -> Texts]
  /\ written \in [Turns -> 0 .. MaxChunks]
  /\ request \in [Turns -> {"none", "waiting", "answered"}]
  /\ aborting \in BOOLEAN
TypeOK == RouterTypeOK /\ TurnsTypeOK /\ StreamTypeOK /\ ServerTypeOK

\* One of the things in Occurs happens.
Occur(what) ==
  /\ what \in Occurs /\ happened < MaxOccurs
  /\ happened' = happened + 1
  /\ UNCHANGED <<missed, interrupted>>

Init ==
  /\ registered = {} /\ queue = [t \in Turns |-> <<>>]
  /\ current = NoTurn /\ bound = NoAnswer
  /\ known = {} /\ users = {} /\ early = [a \in Answers |-> <<>>]
  /\ seen = [a \in Answers |-> <<>>] /\ conflicts = {}
  /\ status = [t \in Turns |-> "none"] /\ said = [t \in Turns |-> <<>>]
  /\ saw = [t \in Turns |-> FALSE] /\ result = [t \in Turns |-> "none"]
  /\ stopped = [t \in Turns |-> "no"] /\ reply = [t \in Turns |-> NoReply]
  /\ stream \in {"up"} \union
                 (IF "late" \in Occurs /\ MaxOccurs > 0 THEN {"connecting"} ELSE {})
  /\ wire = <<>>
  /\ todo = <<>> /\ answered = [t \in Turns |-> 0]
  /\ text = [a \in Answers |-> <<>>] /\ written = [t \in Turns |-> 0]
  /\ request = [t \in Turns |-> "none"] /\ ended = {} /\ aborting = FALSE
  /\ missed = {} /\ interrupted = {}
  /\ happened = IF stream = "up" THEN 0 ELSE 1

----------------------------------------------------------------------------
\* The router.

IsStartOf(s, u) == Len(s) <= Len(u) /\ SubSeq(u, 1, Len(s)) = s
After(s, u) == SubSeq(u, Len(s) + 1, Len(u))

\* The queue of the active turn, if it has one.
HasActiveQueue == current # NoTurn /\ current \in registered

Put(t, events) == queue' = [queue EXCEPT ![t] = @ \o events]

\* The loop over _early finds nothing: the message id is new, so no answer to it
\* can have been heard of (NothingHeardBefore).
register(t) ==
  /\ registered' = registered \union {t}
  /\ current' = t
  /\ bound' = NoAnswer
  /\ queue' = [queue EXCEPT ![t] = <<>>]

unregister(t) ==
  /\ registered' = registered \ {t}
  /\ current' = IF current = t THEN NoTurn ELSE current
  /\ bound' = IF current = t THEN NoAnswer ELSE bound

\* The queue an assistant message belongs to: it is bound already, or its
\* parent is the active turn.
IsBound(a) == HasActiveQueue /\ bound = a
Binds(a) == HasActiveQueue /\ bound # a /\ a \in known /\ current = Parent(a)

\* An event of the assistant message a.
PutBound(a, event) ==
  \/ /\ IsBound(a)
     /\ Put(current, <<event>>)
     /\ UNCHANGED <<bound, early>>
  \/ /\ Binds(a)
     /\ Put(current, Append(early[a], event))
     /\ bound' = a
     /\ early' = [early EXCEPT ![a] = <<>>]
  \/ /\ ~IsBound(a) /\ ~Binds(a)
     /\ early' = [early EXCEPT ![a] = Append(@, event)]
     /\ UNCHANGED <<queue, bound>>

\* An event that names no message goes to the active turn.  The code keeps it
\* in _early when there is none, where nothing reads it.
PutActive(event) ==
  /\ IF HasActiveQueue THEN Put(current, <<event>>) ELSE UNCHANGED queue
  /\ UNCHANGED <<bound, early>>

\* message.updated of the prompt.
HandleUserInfo(e) ==
  /\ users' = users \union {Parent(e.of)}
  /\ UNCHANGED <<queue, bound, early, known, seen, conflicts>>

\* message.part.updated of the prompt.  Before the prompt is known as the user's it
\* counts as output; that of another turn goes to _early, where nothing reads it.
HandleUserPart(e) ==
  /\ IF Parent(e.of) \in users \/ ~(HasActiveQueue /\ current = Parent(e.of))
       THEN UNCHANGED queue
       ELSE Put(current, <<Event("text", e.of, e.text)>>)
  /\ UNCHANGED <<bound, early, known, users, seen, conflicts>>

\* Mutant: any answer of the session is bound, whatever prompt it answers.
HandleInfo_AnyParent(e) ==
  /\ known' = known \union {e.of}
  /\ IF HasActiveQueue
       THEN /\ bound' = e.of
            /\ Put(current, early[e.of])
            /\ early' = [early EXCEPT ![e.of] = <<>>]
       ELSE UNCHANGED <<queue, bound, early>>
  /\ UNCHANGED <<users, seen, conflicts>>

\* message.updated of an answer: _remember_message_context, then
\* _replay_bound_assistant_events.
HandleInfo(e) ==
  /\ known' = known \union {e.of}
  /\ IF HasActiveQueue /\ current = Parent(e.of)
       THEN /\ bound' = e.of
            /\ Put(current, early[e.of])
            /\ early' = [early EXCEPT ![e.of] = <<>>]
       ELSE UNCHANGED <<queue, bound, early>>
  /\ UNCHANGED <<users, seen, conflicts>>

\* Mutant: a delta is not remembered as text of its part.
HandleDelta_Forgotten(e) ==
  /\ PutBound(e.of, Event("text", e.of, e.text))
  /\ UNCHANGED <<known, users, seen, conflicts>>

\* message.part.delta: _remember_part_delta.
HandleDelta(e) ==
  /\ seen' = [seen EXCEPT ![e.of] = IF e.of \in conflicts THEN @ ELSE @ \o e.text]
  /\ PutBound(e.of, Event("text", e.of, e.text))
  /\ UNCHANGED <<known, users, conflicts>>

\* message.part.updated: _with_part_update_delta; an empty delta is no event.
HandleUpdated(e) ==
  LET extends == e.of \notin conflicts /\ IsStartOf(seen[e.of], e.text)
      delta == IF extends THEN After(seen[e.of], e.text) ELSE <<>> IN
  /\ seen' = [seen EXCEPT ![e.of] = e.text]
  /\ conflicts' = IF extends THEN conflicts ELSE conflicts \union {e.of}
  /\ IF delta = <<>> THEN UNCHANGED <<queue, bound, early>>
                     ELSE PutBound(e.of, Event("text", e.of, delta))
  /\ UNCHANGED <<known, users>>

\* permission.asked, which names the assistant message of its tool; one that
\* names none is dropped.
HandleAsked(e) ==
  /\ PutBound(e.of, Event("approval", e.of, <<>>)) \/ UNCHANGED <<queue, bound, early>>
  /\ UNCHANGED <<known, users, seen, conflicts>>

\* question.asked: startup never enables the capability, so it fails the turn;
\* one that belongs to no active turn is dropped.
HandleQuestion(e) ==
  /\ IF IsBound(e.of) \/ Binds(e.of)
       THEN PutBound(e.of, Event("failed", e.of, <<>>))
       ELSE UNCHANGED <<queue, bound, early>>
  /\ UNCHANGED <<known, users, seen, conflicts>>

\* session.idle, session.status and session.turn.close; session.error.
HandleEnd(e) ==
  /\ PutActive(Event(IF e.kind = "idle" THEN "completed" ELSE "failed", e.of, <<>>))
  /\ UNCHANGED <<known, users, seen, conflicts>>

handle_event(e) ==
  \/ e.kind = "userInfo" /\ HandleUserInfo(e)
  \/ e.kind = "userPart" /\ HandleUserPart(e)
  \/ e.kind = "info" /\ HandleInfo(e)
  \/ e.kind = "delta" /\ HandleDelta(e)
  \/ e.kind = "updated" /\ HandleUpdated(e)
  \/ e.kind = "asked" /\ HandleAsked(e)
  \/ e.kind = "question" /\ HandleQuestion(e)
  \/ e.kind \in {"idle", "error"} /\ HandleEnd(e)

----------------------------------------------------------------------------
\* The event stream.

\* GET /event answers: from here on the server's events are heard.
Connect ==
  /\ stream = "connecting"
  /\ stream' = "up"
  /\ UNCHANGED <<routerVars, turnVars, wire, serverVars, history>>

\* The listener takes the next event off the stream.
Listen ==
  /\ stream = "up" /\ wire # <<>>
  /\ wire' = Tail(wire)
  /\ handle_event(Head(wire))
  /\ UNCHANGED <<registered, current, turnVars, stream, serverVars, history>>

\* Mutant: only a turn whose answer has begun is told.
Disconnect_BoundOnly ==
  /\ "disconnect" \in Occurs /\ happened < MaxOccurs /\ stream # "down"
  /\ happened' = happened + 1
  /\ stream' = "down" /\ wire' = <<>>
  /\ queue' = [t \in Turns |-> IF t \in registered /\ Parent(bound) = t
                                 THEN Append(queue[t], Event("failed", Prompt(t), <<>>))
                                 ELSE queue[t]]
  /\ interrupted' = registered
  /\ UNCHANGED <<registered, current, bound, known, users, early, seen, conflicts,
                 turnVars, serverVars, missed>>

\* The stream ends or a call of the listener raises: handle_stream_interruption.
Disconnect ==
  /\ "disconnect" \in Occurs /\ happened < MaxOccurs /\ stream # "down"
  /\ happened' = happened + 1
  /\ stream' = "down" /\ wire' = <<>>
  /\ queue' = [t \in Turns |-> IF t \in registered
                                 THEN Append(queue[t], Event("failed", Prompt(t), <<>>))
                                 ELSE queue[t]]
  /\ interrupted' = registered
  /\ UNCHANGED <<registered, current, bound, known, users, early, seen, conflicts,
                 turnVars, serverVars, missed>>

\* What the server sends about turn t while nobody listens is not heard.
Send(t, events) ==
  /\ wire' = IF stream = "up" THEN wire \o events ELSE wire
  /\ missed' = IF stream = "up" THEN missed ELSE missed \union {t}
  /\ UNCHANGED <<stream, interrupted>>

----------------------------------------------------------------------------
\* start_turn.

\* Register, then send the prompt.  The run controller starts a turn when it
\* is done with the one before.
StartTurn(t) ==
  /\ status[t] = "none" /\ \A u \in Turns : u < t => status[u] \notin Live \union {"none"}
  /\ register(t)
  /\ status' = [status EXCEPT ![t] = "starting"]
  /\ UNCHANGED <<known, users, early, seen, conflicts, said, saw, result, stopped, reply,
                 streamVars, serverVars, history>>

\* Has the server taken the prompt?
Accepted(t) == t \in ended \/ \E i \in 1 .. Len(todo) : todo[i] = t

PromptReturns(t) ==
  /\ status[t] = "starting" /\ Accepted(t)
  /\ status' = [status EXCEPT ![t] = "open"]
  /\ UNCHANGED <<routerVars, said, saw, result, stopped, reply, streamVars, serverVars, history>>

\* An OpencodeHttpError, such as 404.
PromptRefused(t) ==
  /\ Occur("refuse")
  /\ status[t] = "starting" /\ ~Accepted(t)
  /\ unregister(t)
  /\ status' = [status EXCEPT ![t] = "raised"]
  /\ UNCHANGED <<queue, known, users, early, seen, conflicts, said, saw, result, stopped,
                 reply, streamVars, serverVars>>

\* Any other exception, such as a timeout of the request, whether the server
\* took the prompt or not.
PromptLost(t) ==
  /\ Occur("lost")
  /\ status[t] = "starting"
  /\ status' = [status EXCEPT ![t] = "raised"]
  /\ UNCHANGED <<routerVars, said, saw, result, stopped, reply, streamVars, serverVars>>

----------------------------------------------------------------------------
\* OpenCodeTurnStream, as the run controller uses it.

\* At an event it is given the run controller leaves the stream of a run the
\* owner has stopped, and pauses for a request; it reads a run that has timed out
\* to its end.
AfterYield(t, e) ==
  CASE stopped[t] = "owner" -> "left"
    [] stopped[t] = "no" /\ e.kind = "approval" -> "paused"
    [] OTHER -> "open"

\* queue.get() returns an event that is handed on.
TakeEvent(t) ==
  /\ status[t] = "open" /\ queue[t] # <<>>
  /\ LET e == Head(queue[t]) IN
       /\ e.kind \in {"text", "approval"}
       /\ saw' = [saw EXCEPT ![t] = TRUE]
       /\ said' = [said EXCEPT ![t] = @ \o e.text]
       /\ status' = [status EXCEPT ![t] = AfterYield(t, e)]
  /\ queue' = [queue EXCEPT ![t] = Tail(@)]
  /\ UNCHANGED <<registered, current, bound, known, users, early, seen, conflicts,
                 result, stopped, reply, streamVars, serverVars, history>>

\* queue.get() returns RunFailed.
TakeFailed(t) ==
  /\ status[t] = "open" /\ queue[t] # <<>> /\ Head(queue[t]).kind = "failed"
  /\ unregister(t)
  /\ queue' = [queue EXCEPT ![t] = Tail(@)]
  /\ status' = [status EXCEPT ![t] = "closed"]
  /\ result' = [result EXCEPT ![t] = "failed"]
  /\ UNCHANGED <<known, users, early, seen, conflicts, said, saw, stopped, reply, streamVars,
                 serverVars, history>>

\* Mutant: the turn is unregistered before its completion is examined.
TakeCompleted_Unregisters(t) ==
  /\ status[t] = "open" /\ queue[t] # <<>> /\ Head(queue[t]).kind = "completed"
  /\ unregister(t)
  /\ queue' = [queue EXCEPT ![t] = Tail(@)]
  /\ status' = [status EXCEPT ![t] = "completing"]
  /\ UNCHANGED <<known, users, early, seen, conflicts, said, saw, result, stopped,
                 reply, streamVars, serverVars, history>>

\* queue.get() returns RunCompleted: ask for the session's messages.
TakeCompleted(t) ==
  /\ status[t] = "open" /\ queue[t] # <<>> /\ Head(queue[t]).kind = "completed"
  /\ queue' = [queue EXCEPT ![t] = Tail(@)]
  /\ status' = [status EXCEPT ![t] = "completing"]
  /\ UNCHANGED <<registered, current, bound, known, users, early, seen, conflicts,
                 said, saw, result, stopped, reply, streamVars, serverVars, history>>

\* session_messages: the server reads the session's messages, and goes on with
\* them while its reply is on the way.
MessagesRead(t) ==
  /\ status[t] = "completing" /\ reply[t].state = "none"
  /\ reply' = [reply EXCEPT ![t] =
       IF answered[t] > 0
         THEN [state |-> "answered", text |-> text[<<t, 1>>], final |-> t \in ended]
         ELSE [state |-> "unanswered", text |-> <<>>, final |-> t \in ended]]
  /\ UNCHANGED <<routerVars, status, said, saw, result, stopped, streamVars, serverVars, history>>

\* Mutant: session_messages is not used to complete the text.
Backfill_None(t) == <<>>

\* What session_messages adds to the text yielded so far: the rest of the text
\* of the first answer, as the server has read it, if that extends it.
Backfill(t) ==
  IF reply[t].state = "answered" /\ IsStartOf(said[t], reply[t].text)
    THEN After(said[t], reply[t].text)
    ELSE <<>>

\* Mutant: every completion is taken for the turn's own.
Ignored_Never(t) == FALSE

\* A completion is ignored while the turn has neither activity nor answer.
Ignored(t) == ~saw[t] /\ reply[t].state = "unanswered"

\* The reply of session_messages arrives.
MessagesReturn(t) ==
  /\ status[t] = "completing" /\ reply[t].state # "none"
  /\ reply' = [reply EXCEPT ![t] = NoReply]
  /\ said' = [said EXCEPT ![t] = @ \o Backfill(t)]
  /\ saw' = [saw EXCEPT ![t] = @ \/ Backfill(t) # <<>>]
  /\ \/ /\ Backfill(t) # <<>> /\ stopped[t] = "owner"
        /\ status' = [status EXCEPT ![t] = "left"]
        /\ UNCHANGED <<registered, current, bound, result>>
     \/ /\ Ignored(t)
        /\ status' = [status EXCEPT ![t] = "open"]
        /\ UNCHANGED <<registered, current, bound, result>>
     \/ /\ ~Ignored(t) /\ (Backfill(t) = <<>> \/ stopped[t] # "owner")
        /\ unregister(t)
        /\ status' = [status EXCEPT ![t] = "closed"]
        /\ result' = [result EXCEPT ![t] = "completed"]
  /\ UNCHANGED <<queue, known, users, early, seen, conflicts, stopped, streamVars,
                 serverVars, history>>

\* session_messages raises: the exception leaves the generator.
MessagesRaise(t) ==
  /\ Occur("messages")
  /\ status[t] = "completing"
  /\ status' = [status EXCEPT ![t] = "raised"]
  /\ reply' = [reply EXCEPT ![t] = NoReply]
  /\ UNCHANGED <<routerVars, said, saw, result, stopped, streamVars, serverVars>>

\* /stop: abort_session.  The stream of a paused run is not read again.  That a
\* run has timed out takes precedence.
Stop(t) ==
  /\ Occur("stop")
  /\ status[t] \in Reading \union {"paused"}
  /\ stopped' = [stopped EXCEPT ![t] = IF @ = "idle" THEN "idle" ELSE "owner"]
  /\ status' = [status EXCEPT ![t] = IF @ = "paused" THEN "left" ELSE @]
  /\ aborting' = TRUE
  /\ UNCHANGED <<routerVars, said, saw, result, reply, streamVars, todo, answered, text, written,
                 request, ended>>

\* The Idle Timeout: abort_session; the run controller reads on to the end.
TimeOut(t) ==
  /\ Occur("timeout")
  /\ status[t] \in Reading /\ stopped[t] # "idle"
  /\ stopped' = [stopped EXCEPT ![t] = "idle"]
  /\ aborting' = TRUE
  /\ UNCHANGED <<routerVars, status, said, saw, result, reply, streamVars, todo, answered, text, written,
                 request, ended>>

\* The owner decides a permission request: answer_approval, and the run
\* controller reads on.
Answer(t) ==
  /\ status[t] = "paused"
  /\ status' = [status EXCEPT ![t] = "open"]
  /\ request' = [request EXCEPT ![t] = "answered"]
  /\ UNCHANGED <<routerVars, said, saw, result, stopped, reply, streamVars, todo, answered, text,
                 written, ended, aborting, history>>

----------------------------------------------------------------------------
\* The server, which is not part of the repository.

\* It takes a prompt and sends it back as a message of the session.
ServerAccepts(t) ==
  /\ status[t] = "starting" /\ ~Accepted(t)
  /\ todo' = Append(todo, t)
  /\ Send(t, <<Event("userInfo", Prompt(t), <<>>), Event("userPart", Prompt(t), <<0>>)>>)
  /\ UNCHANGED <<routerVars, turnVars, answered, text, written, request, ended, aborting,
                 happened>>

WorksOn(t) == todo # <<>> /\ Head(todo) = t /\ request[t] # "waiting"
LastAnswer(t) == <<t, answered[t]>>

\* It begins an answer, or the next one, after a tool has run.
ServerBegins(t) ==
  /\ WorksOn(t) /\ answered[t] < MaxAnswers
  /\ answered' = [answered EXCEPT ![t] = @ + 1]
  /\ Send(t, <<Event("info", <<t, answered[t] + 1>>, <<>>)>>)
  /\ UNCHANGED <<routerVars, turnVars, todo, text, written, request, ended, aborting,
                 happened>>

\* It sends the new chunk, or the part as it is now.
ServerWrites(t) ==
  LET a == LastAnswer(t)
      chunk == written[t] + 1 IN
  /\ WorksOn(t) /\ answered[t] > 0 /\ written[t] < MaxChunks
  /\ written' = [written EXCEPT ![t] = chunk]
  /\ text' = [text EXCEPT ![a] = Append(@, chunk)]
  /\ \E e \in {Event("delta", a, <<chunk>>), Event("updated", a, Append(text[a], chunk))} :
       Send(t, <<e>>)
  /\ UNCHANGED <<routerVars, turnVars, todo, answered, request, ended, aborting, happened>>

\* It asks for a permission, or asks a question, and waits; once a turn.
ServerAsks(t, what) ==
  /\ what \in Occurs /\ happened < MaxOccurs
  /\ happened' = happened + 1
  /\ WorksOn(t) /\ answered[t] > 0 /\ request[t] = "none"
  /\ request' = [request EXCEPT ![t] = "waiting"]
  /\ Send(t, <<Event(what, LastAnswer(t), <<>>)>>)
  /\ UNCHANGED <<routerVars, turnVars, todo, answered, text, written, ended, aborting>>

\* What it sends when the session stops working.
Endings(t) ==
  LET idle == Event("idle", Prompt(t), <<>>)
      error == Event("error", Prompt(t), <<>>) IN
  {<<idle>>, <<error>>} \union
  (IF "twice" \in Occurs /\ happened < MaxOccurs
     THEN {<<idle, idle>>, <<error, idle>>} ELSE {})

\* The session of t stops working.
SendEnding(t, last) ==
  \E ending \in Endings(t) :
    /\ Send(t, last \o ending)
    /\ happened' = happened + Len(ending) - 1

\* It is done: the part and the message as they are in the end, then idle.
ServerEnds(t) ==
  /\ WorksOn(t) /\ answered[t] > 0
  /\ todo' = Tail(todo)
  /\ ended' = ended \union {t}
  /\ SendEnding(t, <<Event("updated", LastAnswer(t), text[LastAnswer(t)]),
                     Event("info", LastAnswer(t), <<>>)>>)
  /\ UNCHANGED <<routerVars, turnVars, answered, text, written, request, aborting>>

\* abort_session ends the turn the server works on, whichever it is.
ServerAborts ==
  /\ aborting
  /\ aborting' = FALSE
  /\ IF todo = <<>>
       THEN UNCHANGED <<todo, ended, streamVars, history>>
       ELSE /\ todo' = Tail(todo)
            /\ ended' = ended \union {Head(todo)}
            /\ SendEnding(Head(todo), <<>>)
  /\ UNCHANGED <<routerVars, turnVars, answered, text, written, request>>

----------------------------------------------------------------------------
ServerNext(t) ==
  \/ ServerAccepts(t) \/ ServerBegins(t) \/ ServerWrites(t)
  \/ ServerAsks(t, "asked") \/ ServerAsks(t, "question")
  \/ ServerEnds(t)

TurnNext(t) ==
  \/ StartTurn(t) \/ PromptReturns(t) \/ PromptRefused(t) \/ PromptLost(t)
  \/ TakeEvent(t) \/ TakeFailed(t) \/ TakeCompleted(t)
  \/ MessagesRead(t) \/ MessagesReturn(t) \/ MessagesRaise(t)
  \/ Stop(t) \/ TimeOut(t) \/ Answer(t)

Next ==
  \/ Connect \/ Listen \/ Disconnect \/ ServerAborts
  \/ \E t \in Turns : TurnNext(t) \/ ServerNext(t)

Spec == Init /\ [][Next]_vars

\* The loop runs the listener and the consumer of each turn, and
\* session_messages returns or raises.
FairSpec ==
  /\ Spec
  /\ WF_vars(Listen)
  /\ \A t \in Turns :
       /\ WF_vars(TakeEvent(t) \/ TakeFailed(t) \/ TakeCompleted(t))
       /\ WF_vars(MessagesRead(t) \/ MessagesReturn(t) \/ MessagesRaise(t))

----------------------------------------------------------------------------
\* Properties.

\* An Agent Turn is given text, requests and questions of its own messages
\* only, although messages of earlier turns keep arriving.
QueuesHoldOwnEvents ==
  \A t \in Turns : \A i \in 1 .. Len(queue[t]) :
    queue[t][i].kind \in {"text", "approval"} => Parent(queue[t][i].of) = t

\* The text a turn yields is the answer's, each chunk at most once and in
\* order, and never the prompt, however deltas, snapshots of the part and the
\* backfill overlap.
TextInOrder ==
  \A t \in Turns : \A i \in 1 .. Len(said[t]) :
    said[t][i] > (IF i = 1 THEN 0 ELSE said[t][i - 1])

\* A turn that completes has yielded all that was written of its answer when the
\* server read it for session_messages, and so all of it if the server had ended
\* the turn by then; if it has one answer and the event stream was up all the
\* while.  (The idle of another turn may complete it before: CompletesOwnTurn.)
CompletedTextIsWhole ==
  [][\A t \in Turns \ missed :
       result[t] = "none" /\ result'[t] = "completed" /\ answered[t] = 1
         => /\ said'[t] = reply[t].text
            /\ reply[t].final => said'[t] = text[<<t, 1>>]]_vars

\* A completion is yielded only once the server has begun the answer.
CompletesOnlyAnswered ==
  \A t \in Turns : result[t] = "completed" => answered[t] > 0

\* Of a turn not yet started no event is on its way or remembered, so that
\* register has nothing to replay.
NothingHeardBefore ==
  \A t \in Turns : status[t] = "none" =>
    /\ \A a \in Answers : Parent(a) = t => a \notin known /\ early[a] = <<>>
    /\ \A i \in 1 .. Len(wire) : Parent(wire[i].of) # t

\* The turn whose stream is in use is the one the router sends the session's
\* events to: otherwise it would wait forever.
LiveTurnIsHeard ==
  \A t \in Turns : status[t] \in Live => current = t /\ t \in registered

\* A turn's stream ends once the event stream was interrupted, or once the
\* server has ended a turn whose answer it had begun and whose events were all
\* heard.
StreamsEnd ==
  \A t \in Turns :
    (status[t] \in Reading
       /\ (t \in interrupted \/ (t \in ended \ missed /\ answered[t] > 0)))
      ~> status[t] \notin Reading

\* OpenCode's completion applies to the current Agent Turn only: a turn that
\* completes is one the server has ended.
CompletesOwnTurn ==
  \A t \in Turns : result[t] = "completed" => t \in ended

=============================================================================
