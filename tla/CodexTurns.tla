----------------------------- MODULE CodexTurns -----------------------------
(***************************************************************************)
(* The Codex adapter for one Codex thread: CodexEventRouter and            *)
(* CodexTurnStream of c_auto_bridge/agent/codex_app_server.py, on top of   *)
(* the JSON-RPC client of codex_stdio.py and codex_websocket.py, which     *)
(* differ in the transport only.                                           *)
(*                                                                         *)
(* The app server's messages arrive on one wire.  The client's reader task *)
(* gives replies to the calls that wait for them and puts everything else  *)
(* into a queue, from which the listener of runtime.py hands it to the     *)
(* router.  The name of a turn is known from the reply to turn/start, so   *)
(* that events may be routed before their turn is registered.              *)
(*                                                                         *)
(* A request of the server is named by its turn and a number.  A message   *)
(* names its turn, or only the thread, which is written NoTurn.            *)
(***************************************************************************)
EXTENDS Naturals, Sequences, FiniteSetsExt, SequencesExt

CONSTANTS
  MaxTurns,    \* bound: turns started in the thread
  MaxEvents,   \* bound: requests and text, thinking and tool events in the thread
  MaxWire,     \* bound: messages under way when the server sends another
  Occurs,      \* what may happen besides turns that run undisturbed
  MaxOccurs    \* bound: how often any of it happens

AllOccurrences == {"refuse", "stop", "timeout", "tokenUsage", "error",
                   "retrying", "exit", "garbage", "malformed"}

ASSUME CodexAssumption ==
  /\ MaxTurns \in Nat /\ MaxEvents \in Nat /\ MaxWire \in Nat
  /\ MaxOccurs \in Nat /\ Occurs \subseteq AllOccurrences

Turns == 1 .. MaxTurns
NoTurn == 0
Requests == Turns \X (1 .. MaxEvents)
\* turn/start and turn/interrupt of a turn, the calls of the client.
Calls == {"start", "interrupt"} \X Turns

RequestKinds == {"userInput", "approval"}
NoRequest == [name |-> <<NoTurn, 0>>, kind |-> "approval"]
TerminalKinds == {"completed", "interrupted", "failed"}

\* What the server sends: a reply to a call, a notification or a request; nr
\* numbers the events about a turn.  turn/completed has three kinds, after
\* its status.
Messages ==
  [kind : {"reply", "refusal"}, to : Calls] \union
  [kind : {"item", "tokenUsage", "requestUserInput", "requestApproval", "error", "retrying",
           "turnCompleted", "turnInterrupted", "turnFailed", "malformed", "garbage"},
   of : Turns \union {NoTurn}, nr : Nat]
Message(kind, t, n) == [kind |-> kind, of |-> t, nr |-> n]

\* Events of core/agent_events.py: text, thinking and tool events are content.
AgentEvents ==
  [kind : {"content", "usage"} \union RequestKinds \union TerminalKinds,
   of : Turns \union {NoTurn}, nr : Nat]

VARIABLES
  \* the JSON-RPC client
  reader,   \* _read_messages: "up", "down" after the end of the wire, "dead"
  calls,    \* _pending: the calls whose future waits
  replies,  \* calls whose future is done, and how, until the caller goes on
  incoming, \* _events
  \* CodexEventRouter, and whether runtime._listen still hands it messages
  listener,
  registered, \* the turns that have an entry in _queues
  queue,      \* their queues, which a turn keeps when its entry goes
  threadTurn, \* _thread_turns of the thread
  early,      \* _early_events of each turn, and of the thread under NoTurn
  requests,   \* _requests, oldest first
  \* start_turn and CodexTurnStream
  status, shown, result, stopped,
  \* the server: whether it runs, the calls it owes a reply to, the wire, the
  \* turns it works on and how others ended, and what has become of its requests
  alive, owed, wire, running, outcome, asked,
  \* history: what was sent about each turn and heard by its consumer, whether
  \* an error named no turn, and how much of Occurs has happened
  sent, heard, threadError, happened

clientVars == <<reader, calls, replies, incoming>>
routerVars == <<listener, registered, queue, threadTurn, early, requests>>
turnVars   == <<status, shown, result, stopped>>
serverVars == <<alive, owed, wire, running, outcome, asked>>
history    == <<sent, heard, threadError, happened>>
vars == <<clientVars, routerVars, turnVars, serverVars, history>>

\* Where start_turn and then the stream of a turn are: waiting for the reply,
\* iterated over, paused by a request; and the ends: a terminal event yielded,
\* left by the run controller, an exception from start_turn.
Live == {"starting", "open", "paused"}
Statuses == {"none", "closed", "left", "raised"} \union Live

TypeOK ==
  /\ reader \in {"up", "down", "dead"} /\ listener \in BOOLEAN /\ alive \in BOOLEAN
  /\ calls \subseteq Calls /\ owed \subseteq Calls /\ replies \subseteq Calls \X BOOLEAN
  /\ incoming \in Seq(Messages) /\ wire \in Seq(Messages)
  /\ registered \subseteq Turns /\ threadTurn \in Turns \union {NoTurn}
  /\ queue \in [Turns -> Seq(AgentEvents)]
  /\ early \in [Turns \union {NoTurn} -> Seq(AgentEvents)]
  /\ requests \in Seq([name : Requests, kind : RequestKinds])
  /\ status \in [Turns -> Statuses]
  /\ shown \in [Turns -> [name : Requests, kind : RequestKinds] \union {NoRequest}]
  /\ result \in [Turns -> {"none"} \union TerminalKinds]
  /\ stopped \in [Turns -> {"no", "owner", "idle"}]
  /\ running \subseteq Turns /\ outcome \in [Turns -> {"none"} \union TerminalKinds]
  /\ asked \in [Requests -> {"no", "open", "answered", "withdrawn"}]
  /\ sent \in [Turns -> Seq(AgentEvents)] /\ heard \in [Turns -> Seq(AgentEvents)]
  /\ threadError \in BOOLEAN /\ happened \in 0 .. MaxOccurs

\* One of the things in Occurs happens.
Occur(what) ==
  /\ what \in Occurs /\ happened < MaxOccurs
  /\ happened' = happened + 1

Init ==
  /\ reader = "up" /\ calls = {} /\ replies = {} /\ incoming = <<>>
  /\ listener = TRUE /\ registered = {} /\ queue = [t \in Turns |-> <<>>]
  /\ threadTurn = NoTurn /\ early = [t \in Turns \union {NoTurn} |-> <<>>]
  /\ requests = <<>>
  /\ status = [t \in Turns |-> "none"] /\ shown = [t \in Turns |-> NoRequest]
  /\ result = [t \in Turns |-> "none"] /\ stopped = [t \in Turns |-> "no"]
  /\ alive = TRUE /\ owed = {} /\ wire = <<>> /\ running = {}
  /\ outcome = [t \in Turns |-> "none"]
  /\ asked = [r \in Requests |-> "no"]
  /\ sent = [t \in Turns |-> <<>>] /\ heard = [t \in Turns |-> <<>>]
  /\ threadError = FALSE /\ happened = 0

----------------------------------------------------------------------------
\* The JSON-RPC client.

\* request: the call is remembered, then written.
request(c) ==
  /\ calls' = calls \union {c}
  /\ owed' = IF alive THEN owed \union {c} ELSE owed

\* The caller whose future is done goes on.
Returns(c, ok) ==
  /\ <<c, ok>> \in replies
  /\ replies' = replies \ {<<c, ok>>}
  /\ UNCHANGED <<reader, calls, incoming>>

\* The reader takes a line off the wire.  One that is no JSON ends its task,
\* and nobody waits for a task.
Read ==
  /\ reader = "up" /\ wire # <<>>
  /\ wire' = Tail(wire)
  /\ LET m == Head(wire) IN
       \/ /\ m.kind \in {"reply", "refusal"}
          /\ calls' = calls \ {m.to}
          /\ replies' = replies \union {<<m.to, m.kind = "reply">>}
          /\ UNCHANGED <<reader, incoming>>
       \/ /\ m.kind = "garbage"
          /\ reader' = "dead"
          /\ UNCHANGED <<calls, replies, incoming>>
       \/ /\ m.kind \notin {"reply", "refusal", "garbage"}
          /\ incoming' = Append(incoming, m)
          /\ UNCHANGED <<reader, calls, replies>>
  /\ UNCHANGED <<routerVars, turnVars, alive, owed, running, outcome, asked, history>>

\* The end of the wire: every call that waits fails.  The listener is not told.
ReadEnd ==
  /\ reader = "up" /\ ~alive /\ wire = <<>>
  /\ reader' = "down"
  /\ replies' = replies \union {<<c, FALSE>> : c \in calls}
  /\ calls' = {}
  /\ UNCHANGED <<incoming, routerVars, turnVars, serverVars, history>>

----------------------------------------------------------------------------
\* The router.

\* Mutant: an error is taken for final although the server retries.
Translated_Retrying(m) == TRUE

\* translate_codex_event returns nothing for an error that is retried.
Translated(m) == m.kind # "retrying"

EventKind(m) ==
  CASE m.kind = "item" -> "content"
    [] m.kind = "tokenUsage" -> "usage"
    [] m.kind = "requestUserInput" -> "userInput"
    [] m.kind = "requestApproval" -> "approval"
    [] m.kind = "turnCompleted" -> "completed"
    [] m.kind = "turnInterrupted" -> "interrupted"
    [] m.kind \in {"turnFailed", "error", "retrying"} -> "failed"
Event(m) == [kind |-> EventKind(m), of |-> m.of, nr |-> m.nr]

\* The turn a message goes to: the one it names, or the thread's current one.
Route(m) == IF m.of # NoTurn THEN m.of ELSE threadTurn

\* An event that finds no queue is kept under what it names.
handle_event(m) ==
  /\ requests' = IF EventKind(m) \in RequestKinds
                   THEN Append(requests, [name |-> <<m.of, m.nr>>, kind |-> EventKind(m)])
                   ELSE requests
  /\ IF Route(m) \in registered
       THEN /\ queue' = [queue EXCEPT ![Route(m)] = Append(@, Event(m))]
            /\ UNCHANGED early
       ELSE /\ early' = [early EXCEPT ![m.of] = Append(@, Event(m))]
            /\ UNCHANGED queue

\* The listener hands the router the next message.  An exception, such as
\* that for a field it does not find, ends the listener.
Listen ==
  /\ listener /\ incoming # <<>>
  /\ incoming' = Tail(incoming)
  /\ LET m == Head(incoming) IN
       \/ /\ m.kind = "malformed"
          /\ listener' = FALSE
          /\ UNCHANGED <<queue, early, requests>>
       \/ /\ m.kind # "malformed" /\ ~Translated(m)
          /\ UNCHANGED <<listener, queue, early, requests>>
       \/ /\ m.kind # "malformed" /\ Translated(m)
          /\ handle_event(m)
          /\ UNCHANGED listener
  /\ UNCHANGED <<reader, calls, replies, registered, threadTurn, turnVars, serverVars, history>>

\* Mutant: what came before the turn was registered is not replayed.
register_Empty(t) ==
  /\ registered' = registered \union {t}
  /\ threadTurn' = t
  /\ queue' = [queue EXCEPT ![t] = early[NoTurn]]
  /\ early' = [early EXCEPT ![t] = <<>>, ![NoTurn] = <<>>]

register(t) ==
  /\ registered' = registered \union {t}
  /\ threadTurn' = t
  /\ queue' = [queue EXCEPT ![t] = early[t] \o early[NoTurn]]
  /\ early' = [early EXCEPT ![t] = <<>>, ![NoTurn] = <<>>]

unregister(t) ==
  /\ registered' = registered \ {t}
  /\ threadTurn' = IF threadTurn = t THEN NoTurn ELSE threadTurn

\* Mutant: requests of other turns are not passed over.
Accepts_AnyTurn(t, r) ==
  {i \in 1 .. Len(requests) :
     IF r.kind = "approval" THEN requests[i].name = r.name ELSE requests[i].kind = r.kind}

\* The requests take_request accepts for r of turn t: an approval by its id,
\* user input by its method, so that it takes the oldest of the turn.
Accepts(t, r) ==
  {i \in 1 .. Len(requests) :
     /\ requests[i].name[1] = t
     /\ IF r.kind = "approval" THEN requests[i].name = r.name ELSE requests[i].kind = r.kind}

----------------------------------------------------------------------------
\* start_turn.

\* The run controller starts a turn when it is done with the one before.
StartTurn(t) ==
  /\ status[t] = "none" /\ \A u \in Turns : u < t => status[u] \notin Live \union {"none"}
  /\ request(<<"start", t>>)
  /\ status' = [status EXCEPT ![t] = "starting"]
  /\ running' = IF alive THEN running \union {t} ELSE running
  /\ UNCHANGED <<reader, replies, incoming, routerVars, shown, result, stopped, alive, wire,
                 outcome, asked, history>>

\* Writing to a server that is gone raises, or does not.
WriteRaises(t) ==
  /\ status[t] = "starting" /\ ~alive /\ <<"start", t>> \in calls
  /\ status' = [status EXCEPT ![t] = "raised"]
  /\ UNCHANGED <<clientVars, routerVars, shown, result, stopped, serverVars, history>>

TurnStarted(t) ==
  /\ status[t] = "starting" /\ Returns(<<"start", t>>, TRUE)
  /\ register(t)
  /\ status' = [status EXCEPT ![t] = "open"]
  /\ UNCHANGED <<listener, requests, shown, result, stopped, serverVars, history>>

\* A JsonRpcError, AgentThreadNotFound among them, or the end of the wire.
TurnRefused(t) ==
  /\ status[t] = "starting" /\ Returns(<<"start", t>>, FALSE)
  /\ status' = [status EXCEPT ![t] = "raised"]
  /\ UNCHANGED <<routerVars, shown, result, stopped, serverVars, history>>

----------------------------------------------------------------------------
\* CodexTurnStream, as the run controller uses it.

\* At an event it is given the run controller leaves the stream of a run the
\* owner has stopped, and pauses for a request; it reads a run that has timed
\* out to its end.
AfterYield(t, e) ==
  CASE stopped[t] = "owner" -> "left"
    [] stopped[t] = "no" /\ e.kind \in RequestKinds -> "paused"
    [] OTHER -> "open"

\* An event that names no turn is in nobody's account.
Hears(t, e) == heard' = IF e.of = NoTurn THEN heard ELSE [heard EXCEPT ![t] = Append(@, e)]

\* queue.get() returns an event that is no terminal one.
TakeEvent(t) ==
  /\ status[t] = "open" /\ queue[t] # <<>> /\ Head(queue[t]).kind \notin TerminalKinds
  /\ queue' = [queue EXCEPT ![t] = Tail(@)]
  /\ LET e == Head(queue[t])
         next == AfterYield(t, e) IN
       /\ Hears(t, e)
       /\ status' = [status EXCEPT ![t] = next]
       /\ shown' = [shown EXCEPT ![t] = IF next = "paused" THEN [name |-> <<e.of, e.nr>>, kind |-> e.kind]
                                         ELSE @]
  /\ UNCHANGED <<clientVars, listener, registered, threadTurn, early, requests, result, stopped,
                 serverVars, sent, threadError, happened>>

\* Mutant: the generator ends at the first event, whatever it is.
TakeTerminal_Any(t) ==
  /\ status[t] = "open" /\ queue[t] # <<>>
  /\ unregister(t)
  /\ queue' = [queue EXCEPT ![t] = Tail(@)]
  /\ Hears(t, Head(queue[t]))
  /\ status' = [status EXCEPT ![t] = "closed"]
  /\ result' = [result EXCEPT ![t] = Head(queue[t]).kind]
  /\ UNCHANGED <<clientVars, listener, early, requests, shown, stopped, serverVars, sent,
                 threadError, happened>>

\* queue.get() returns the terminal event, which ends the generator.
TakeTerminal(t) ==
  /\ status[t] = "open" /\ queue[t] # <<>> /\ Head(queue[t]).kind \in TerminalKinds
  /\ unregister(t)
  /\ queue' = [queue EXCEPT ![t] = Tail(@)]
  /\ Hears(t, Head(queue[t]))
  /\ status' = [status EXCEPT ![t] = "closed"]
  /\ result' = [result EXCEPT ![t] = Head(queue[t]).kind]
  /\ UNCHANGED <<clientVars, listener, early, requests, shown, stopped, serverVars, sent,
                 threadError, happened>>

\* stop: turn/interrupt, for /stop and for the Idle Timeout, which never
\* strikes a paused run.
Stop(t, why) ==
  /\ Occur(IF why = "owner" THEN "stop" ELSE "timeout")
  /\ status[t] = "open" \/ (why = "owner" /\ status[t] = "paused")
  /\ stopped[t] = "no"
  /\ request(<<"interrupt", t>>)
  /\ stopped' = [stopped EXCEPT ![t] = why]
  /\ UNCHANGED <<reader, replies, incoming, routerVars, status, shown, result, alive, wire,
                 running, outcome, asked, sent, heard, threadError>>

\* stop returns: the run controller is done with a paused run.  When it
\* raises, the run stays as it is.
Stopped(t, ok) ==
  /\ Returns(<<"interrupt", t>>, ok)
  /\ status' = [status EXCEPT ![t] = IF ok /\ @ = "paused" THEN "left" ELSE @]
  /\ UNCHANGED <<routerVars, shown, result, stopped, serverVars, history>>

\* The owner answers: answer_user_input and answer_approval take the request
\* from the router and write the response.  A server that is gone does not get
\* it, and writing to it may raise; the request is gone either way.
Answer(t) ==
  /\ status[t] = "paused"
  /\ \E i \in Accepts(t, shown[t]) :
       /\ \A j \in Accepts(t, shown[t]) : i <= j
       /\ requests' = RemoveAt(requests, i)
       /\ asked' = [asked EXCEPT ![requests[i].name] = IF alive /\ @ = "open" THEN "answered" ELSE @]
  /\ \/ /\ status' = [status EXCEPT ![t] = "open"]
        /\ shown' = [shown EXCEPT ![t] = NoRequest]
     \/ ~alive /\ UNCHANGED <<status, shown>>
  /\ UNCHANGED <<clientVars, listener, registered, queue, threadTurn, early, result, stopped,
                 alive, owed, wire, running, outcome, history>>

\* Mutant: the request is taken before the decision is looked at.
AnswerUnsupported_Takes(t) ==
  \E i \in 1 .. Len(requests) :
    /\ status[t] = "paused" /\ requests[i] = shown[t] /\ shown[t].kind = "approval"
    /\ requests' = RemoveAt(requests, i)
    /\ UNCHANGED <<clientVars, listener, registered, queue, threadTurn, early, turnVars,
                   serverVars, history>>

\* answer_approval with a decision Codex does not have, such as
\* acceptForSession, raises and leaves the request where it is.
AnswerUnsupported(t) ==
  \E i \in 1 .. Len(requests) :
    /\ status[t] = "paused" /\ requests[i] = shown[t] /\ shown[t].kind = "approval"
    /\ UNCHANGED vars

----------------------------------------------------------------------------
\* The app server, which is not part of the repository.

\* It sends messages about turn t.
Send(t, messages) ==
  /\ wire' = wire \o messages
  /\ sent' = [sent EXCEPT ![t] = @ \o [i \in DOMAIN messages |-> Event(messages[i])]]
  /\ UNCHANGED <<heard, threadError>>

\* It works on a turn from turn/start on, so that the reply and the events
\* come in any order.
Working(t) == t \in running /\ Len(wire) < MaxWire

ServerReplies(c) ==
  /\ c \in owed /\ Len(wire) < MaxWire
  /\ c[1] = "interrupt" => c[2] \notin running
  /\ owed' = owed \ {c}
  /\ wire' = Append(wire, [kind |-> "reply", to |-> c])
  /\ UNCHANGED <<clientVars, routerVars, turnVars, alive, running, outcome, asked, history>>

ServerRefuses(t) ==
  /\ Occur("refuse")
  /\ <<"start", t>> \in owed /\ sent[t] = <<>>
  /\ owed' = owed \ {<<"start", t>>}
  /\ running' = running \ {t}
  /\ wire' = Append(wire, [kind |-> "refusal", to |-> <<"start", t>>])
  /\ UNCHANGED <<clientVars, routerVars, turnVars, alive, outcome, asked, sent, heard,
                 threadError>>

\* The number of the next event about turn t.
NextNr(t) == Len(sent[t]) + 1

\* The thread's events are bounded, terminal ones aside.
MayWrite ==
  MaxEvents > MapThenSumSet(LAMBDA t : Len(SelectSeq(sent[t], LAMBDA e : e.kind \notin TerminalKinds)),
                            Turns)

ServerWrites(t) ==
  /\ Working(t) /\ NextNr(t) <= MaxEvents /\ MayWrite
  /\ Send(t, <<Message("item", t, NextNr(t))>>)
  /\ UNCHANGED <<clientVars, routerVars, turnVars, alive, owed, running, outcome, asked, happened>>

\* It asks for something, perhaps while an earlier request is still open.
ServerAsks(t, what) ==
  /\ Working(t) /\ NextNr(t) <= MaxEvents /\ MayWrite
  /\ asked' = [asked EXCEPT ![<<t, NextNr(t)>>] = "open"]
  /\ Send(t, <<Message(what, t, NextNr(t))>>)
  /\ UNCHANGED <<clientVars, routerVars, turnVars, alive, owed, running, outcome, happened>>

\* What it sends when a turn ends; a failure may be reported twice.
Endings(t, how) ==
  CASE how = "completed" -> {<<Message("turnCompleted", t, NextNr(t))>>}
    [] how = "interrupted" -> {<<Message("turnInterrupted", t, NextNr(t))>>}
    [] how = "failed" ->
         {<<Message("turnFailed", t, NextNr(t))>>,
          <<Message("error", t, NextNr(t)), Message("turnFailed", t, NextNr(t) + 1)>>}

\* It completes a turn when no request is open, and may fail at any time.
\* turn/interrupt ends the turn as interrupted.
ServerEnds(t, how) ==
  /\ Working(t)
  /\ how = "completed" => \A n \in 1 .. MaxEvents : asked[<<t, n>>] # "open"
  /\ how = "interrupted" => <<"interrupt", t>> \in owed
  /\ running' = running \ {t}
  /\ outcome' = [outcome EXCEPT ![t] = how]
  /\ asked' = [r \in Requests |-> IF r[1] = t /\ asked[r] = "open" THEN "withdrawn" ELSE asked[r]]
  /\ \E ending \in Endings(t, how) : Send(t, ending)
  /\ UNCHANGED <<clientVars, routerVars, turnVars, alive, owed, happened>>

\* A message that names only the thread, one about an error it retries, one
\* the adapter cannot use, or a line that is no message.
ServerSays(what) ==
  /\ alive /\ Len(wire) < MaxWire /\ Occur(what)
  /\ \E t \in IF what = "retrying" THEN running ELSE {NoTurn} :
       wire' = Append(wire, Message(what, t, 0))
  /\ threadError' = (threadError \/ what = "error")
  /\ UNCHANGED <<clientVars, routerVars, turnVars, alive, owed, running, outcome, asked,
                 sent, heard>>

\* The process ends, or its connection.
ServerExits ==
  /\ alive /\ Occur("exit")
  /\ alive' = FALSE /\ owed' = {} /\ running' = {}
  /\ asked' = [r \in Requests |-> IF asked[r] = "open" THEN "withdrawn" ELSE asked[r]]
  /\ UNCHANGED <<clientVars, routerVars, turnVars, wire, outcome, sent, heard, threadError>>

----------------------------------------------------------------------------
ServerNext(t) ==
  \/ ServerRefuses(t) \/ ServerWrites(t)
  \/ ServerReplies(<<"start", t>>) \/ ServerReplies(<<"interrupt", t>>)
  \/ \E what \in {"requestUserInput", "requestApproval"} : ServerAsks(t, what)
  \/ \E how \in TerminalKinds : ServerEnds(t, how)

TurnNext(t) ==
  \/ StartTurn(t) \/ WriteRaises(t) \/ TurnStarted(t) \/ TurnRefused(t)
  \/ TakeEvent(t) \/ TakeTerminal(t) \/ Answer(t) \/ AnswerUnsupported(t)
  \/ Stop(t, "owner") \/ Stop(t, "idle") \/ Stopped(t, TRUE) \/ Stopped(t, FALSE)

Next ==
  \/ Read \/ ReadEnd \/ Listen \/ ServerExits
  \/ \E what \in {"tokenUsage", "error", "retrying", "malformed", "garbage"} : ServerSays(what)
  \/ \E t \in Turns : TurnNext(t) \/ ServerNext(t)

Spec == Init /\ [][Next]_vars

----------------------------------------------------------------------------
\* Properties.

\* The adapter keeps the promise of EventDelivery: what the server sent about a
\* turn reaches its consumer once and in order, also what is routed before the
\* turn is registered and what follows the end of an earlier turn.
Delivery == INSTANCE EventDelivery
  WITH Events <- AgentEvents, Terminal <- {e \in AgentEvents : e.kind \in TerminalKinds}
DeliversInOrder == Delivery!Spec

\* A turn ends as the server ended it; only an error that names no turn can
\* make one fail that has not.
ResultIsServers ==
  \A t \in Turns :
    result[t] # "none" => result[t] = outcome[t] \/ (result[t] = "failed" /\ threadError)

\* A run goes on after an answer only when the server has been given it as the
\* answer to the request the owner was shown, and to no other, although
\* requests of earlier turns stay in the router's table.
AnswersShownRequest ==
  [][\A t \in Turns :
       alive /\ status[t] = "paused" /\ status'[t] = "open"
         => asked' = [asked EXCEPT ![shown[t].name] = IF @ = "open" THEN "answered" ELSE @]]_vars

\* While the server runs, the request a run waits for can still be answered.
PausedRequestIsKept ==
  \A t \in Turns : alive /\ status[t] = "paused" =>
    \E i \in 1 .. Len(requests) : requests[i] = shown[t]

\* When everything the server sent has been handed on, the stream of a turn that
\* the server has ended has ended too: no consumer is left waiting for an event
\* that went elsewhere, as long as the tasks that bring the messages live.
NoStreamLeftWaiting ==
  \A t \in Turns :
    reader # "dead" /\ listener /\ wire = <<>> /\ incoming = <<>>
        /\ status[t] = "open" /\ queue[t] = <<>>
      => outcome[t] = "none"

=============================================================================
