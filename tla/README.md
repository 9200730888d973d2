# Verification of the Personal Bridge (`c_auto_bridge`)

The bridge lets one owner drive a coding agent (Codex App Server or OpenCode) from a
Feishu private chat.  This directory holds TLA+ modules of it, the TLC configurations that
check them on small instances, and proofs that TLAPS checks for every instance.  Paths
below are relative to `src/`, and in the tables to `src/c_auto_bridge/`; line numbers
without a path are those of the file the paragraph is about.

## 1. Inventory of the system

| Part | State it keeps | Operations | What makes it correct |
|---|---|---|---|
| **Run controller** `core/run_controller.py`, `core/idle_timeout.py` | the `ActiveRun` of each Private Chat Scope (run, view, stream, queue, `stop_requested`, `timed_out`, `completion_future`, idle timer), the selected session, the workspace | start, queue, answer, stop, reset, change workspace, resume, the consumer loop, the idle watchdog | one run and one consumer at a time; no message sent twice; every run ends with one terminal status; `/stop` ends what it stops; a turn works where the owner is |
| **Use case routing** `core/use_cases.py`, `react/pending.py` | model and OpenCode agent selected per scope | text, commands, card actions to the controller | routing looks at the scope's state once, synchronously with the first step of the operation |
| **Queue, reducer** `core/queue.py`, `core/run_view_reducer.py` | none (pure functions) | merge queued messages; reduce an agent event into the Run View | the merge is a prefix, the rest stays in order; a terminal view has no Pending Request |
| **Run persistence** `store/file_run_persistence.py`, `store/file_store.py`, `utils/atomic_file.py` | run, request, session, card and binding records as JSON files, two copies of some | record run/event/terminal status, open/close request, save and bind a session, recover at startup | recovery leaves nothing open; the copies agree on ends; a session that is used is stored |
| **Codex adapter** `agent/codex_app_server.py`, `agent/codex_translator.py` | event queue per turn, early events, request table | start turn, stream, answer, interrupt | a turn's events reach its stream once and in order; an answer goes to the request that was shown |
| **OpenCode adapter** `agent/opencode_server.py`, `agent/opencode_translator.py` | queues per session, early events, text seen so far | start turn, stream, answer, abort, stream interruption | a turn is given its own messages, its text once and whole; a stream ends when the session goes idle or the event stream dies |
| **Agent transports** `agent/codex_stdio.py`, `codex_websocket.py`, `opencode_http.py` | pending JSON-RPC replies | request, respond, listen | a reply resolves its own request; the end of the wire fails the calls that wait |
| **Feishu gateway** `feishu/gateway.py` | message ids seen, chats known | websocket events, backfill after a reconnection | a message is handled once by each path, and a backfill leaves out none it asks for |
| **Stream card, Run View sink** `feishu/stream_card.py`, `feishu/run_view_sink.py` | card per run, sequence number, time of last update, runs that fell back to text | create, update, close, fall back | the owner sees the last view of every run; no late update takes it back |
| **Private chat adapter** `feishu/private_chat_adapter.py` | none | messages and their attachments, menus, card actions | texts stay in order |
| **Runtime** `app/runtime.py` | the listener task | wire the parts, recover, listen | recovery precedes the first input; an interruption is told to every stream |
| **CLI, renderers, workspace validation, first-generation `bot/` modules** | - | formatting, tests of paths, unused predecessors | - |

How they interact.  The Feishu websocket thread submits a coroutine per message or card
action to one asyncio loop; after a reconnection a backfill on that loop submits what the
websocket missed.  The private chat adapter downloads attachments and calls `CoreUseCases`,
which routes to `RunController`; that calls the agent port, the persistence port and the
Run View sink.  A reader task takes the agent's messages off the wire, the runtime's
listener hands them to the adapter's event router, which puts them into the queue of their
turn.  The handler of the text that started a turn iterates over that queue until the turn
ends or asks the owner something; then the handler of the *answer* goes on iterating.  So
several coroutines share one mutable `ActiveRun`, and each looks the scope's entry up again
after awaits.

What is hard: interleavings of those coroutines at every await; `/stop`, `/reset`, `/cd`
and the idle watchdog racing the consumer; queued messages handed over to a next turn in
the same `ActiveRun`; two threads that take messages in without a lock; publishes of one
card that overlap; events that arrive before or after the turn they belong to is
registered; calls that raise half-way; a restart between two writes.  The list, line by
line, is `hazards` in `PROJECT.json`.

## 2. Modules

| Module | Models |
|---|---|
| `RunController` | `core/run_controller.py` with the routing of `core/use_cases.py`: every handler, every await |
| `MessageDelivery` | abstract specification: a message the bridge holds goes to at most one Agent Turn |
| `RunControllerProps`, `MCRunController` | the properties, the refinement mapping to `MessageDelivery`; instances for TLC |
| `RunControllerTypeProofs`, `RunControllerProofs` | theorems about `RunController` for every input, overlap and fault, the refinement of `MessageDelivery` among them, and their proofs |
| `RunControllerScopeProofs` | theorems about what becomes of the scope's run, for every overlap and fault, and their proofs |
| `EventDelivery` | abstract specification: the consumer of a turn is handed what the agent sent about it, in order, once, up to the terminal event |
| `CodexTurns` | `agent/codex_app_server.py` for one Codex thread: JSON-RPC client, event router, `start_turn`, turn stream, answers, with the wire and the server; the refinement mapping to `EventDelivery` |
| `CodexProofs` | theorems about `CodexTurns` and their proofs |
| `OpenCodeTurns` | `agent/opencode_server.py` for one OpenCode session: event router, `start_turn`, turn stream, with the event stream and the server |
| `OpenCodeProofs` | theorems about `OpenCodeTurns` and their proofs |
| `RunViewCards` | `feishu/run_view_sink.py` and `feishu/stream_card.py`: how views get to the owner, with the tasks that publish them and Feishu |
| `RunViewCardsProofs` | theorems about `RunViewCards` and their proofs |
| `MessageIntake` | `feishu/gateway.py` and `handle_message` of `feishu/private_chat_adapter.py`: how messages get to the use cases |
| `RunFiles`, `MCRunFiles` | `store/file_store.py` and `store/file_run_persistence.py`: which files each operation writes, in which order, with crashes and recovery; instances for TLC |
| `RunFilesProofs` | theorems about `RunFiles` and their proofs |
| `MessageIntakeProofs` | theorems about `MessageIntake` and their proofs |

The modules are composed by assumption, each modelling its neighbours as loosely as the
code allows.  `RunController` treats an adapter's stream as a source of events that may
come at any moment or never; the adapters treat the run controller as the reader of one
stream at a time (`StartTurn`, `AfterYield`, `Stop`, `Answer` are what it does to a stream).
`RunController` lets a publish take any time and fail; `RunViewCards` has the run
controller's three publishing tasks, reduced to the order in which they publish.
`RunFiles` has its operations, reduced to what they write.

### `RunController`

Line numbers here are those of `core/run_controller.py`.

* A **handler** is the coroutine of one owner's input.  asyncio runs it without
  interruption between awaits that really suspend, so an action is the code between two
  such awaits and `pc[h]` names the await.  `FileRunPersistence` methods are `async` but
  contain no await: their writes belong to the calling step.
* `pc`: `createSession`/`getSession`/`startTurn`/`replaceSession`/`restartTurn` are the
  agent calls of lines 498-571; `publish*` the sink calls at 122, 486, 349, 372/379, 708
  and 144; `consume` the `async for` of line 337; `answer` lines 293/309; `stopPaused` and
  `stopTurn` lines 142/149; `awaitCompletion` line 150; `createSelected` line 635.
* **`ActiveRun` objects** are named by the handler that made them (only `start_text_run`
  does).  `active` is `_active_runs[scope]`; `run`, `view`, `pending`, `queue`, `stopReq`,
  `timedOut`, `future`, `timer` are the object's fields; `self[h]` is the local variable
  `active_run` of handler `h`; `strm[h]` the run whose generator it iterates over.
* **Sessions** are reduced to the workspace they work in and `epoch`, the number of times
  the owner had chosen a new session when it was asked for.
* **The files** are `status` and `record`: they survive `Restart`, which is the process
  dying at any await followed by `recover_incomplete`.  All else is lost.
* **The agent** is external: `turn`, `unanswered`, `taken`.  It completes no turn with an
  unanswered request and interrupts only a turn it was asked to stop.
* A **message** is the handler that brought it; only its identity matters.

Abstracted: text, thinking, tools and usage of a view; which prefix of the queue
the merge window selects (any non-empty prefix may be); the read-only commands; the
model and OpenCode agent of a turn; time (an armed timer may fire at any moment); the
contents of sessions.  Scope and owner are the only ones (`Personal` Bridge), so the
`user_id` checks always succeed.

Constants that state assumptions:

* `OverlapStarts`: may inputs that start a run or replace the session overlap each other?
  `TRUE` is what the code allows.  `FALSE` assumes an owner who waits for the card of the
  run he started, or the reply to `/reset` and `/cd`, before the next such input.  The code
  does not enforce it: the gateway submits every message as a coroutine of its own.
* `OverlapAnswers`: the same for two answers to one request, or an answer that overtakes
  the recording of its request.

  Both are `TRUE` in `chaos` and `overlaps`.  What fails then is told in section 4.  They are `FALSE` in
  `safety`, three of whose properties the overlaps break and whose size they would multiply,
  and in `liveness`; no theorem assumes them.
* `Faults`: which kinds of awaited call may raise (`FaultOf`).  Nothing between the
  controller and Feishu catches an exception, so a failing handler leaves the state as it is.
* `Commands`, `Agent`, `IdleDefault`: the kinds of input, the adapter, and whether an Idle
  Timeout is configured.

### `OpenCodeTurns`

Line numbers here are those of `agent/opencode_server.py`.

* The **router** never suspends: `handle_event` is one step (`Listen`).  Its state is
  `registered`/`queue` (`_queues`; a stream keeps its queue when the entry goes), `current`
  (`_session_messages`), `bound` (`_session_assistants`), `known` (`_message_parents`),
  `users` (`_message_roles`), `early`, `seen` (`_part_texts`) and `conflicts`.
* The **stream** `_events` (650-673) suspends at `queue.get()`, at its yields and at
  `session_messages`: `TakeEvent`, `TakeFailed`, `TakeCompleted`, then `MessagesReturn` or
  `MessagesRaise`.  `said` is `_text`, `saw` is `_saw_activity`.
* `session_messages` is a call, so what it returns is older than its return: `MessagesRead` is
  the moment the server reads the messages, `reply` what it read, and the server may write on,
  begin another answer or end the turn before `MessagesReturn` uses it.  `Backfill` and
  `Ignored` look at `reply` only.  Its field `final` is history: whether the server had ended
  the turn when it read it.
* A `permission.asked` that names no message is dropped (288); `HandleAsked` therefore may drop
  any.
* `status` says where `start_turn` and then the stream are; `left` is a stream the run
  controller no longer iterates over although no terminal event was yielded, which is never
  unregistered.
* A **message** is named by its turn and a number, so `Parent` is its `parentID`; an answer
  has one text part.  **Text** is a sequence of chunk numbers: that is enough to tell
  doubled, lost, reordered and foreign text apart.
* The **event stream** loses what the server sends before `Connect` and after
  `Disconnect`; `missed` remembers whose.  It never reorders.
* The **server** is external: it works on one prompt of a session after the other, sends
  the prompt's message before any answer to it, announces an answer before its text, writes
  a part as deltas, snapshots or both, and sends the whole part, the message and `idle` (or
  `error`) at the end.  `abort_session` ends the turn it works on.

Abstracted: tool events, thinking, usage; `session.next` deltas (handled like deltas, but
not remembered); unknown events; questions with the capability enabled, which startup never
does; sessions other than the one.  `register` (220) replays what `_early` holds of the new
turn: the model leaves the loop out, and `NothingIsHeardBefore` proves that it finds nothing.
`_early[(session, None)]` is left out because nothing reads it.

### `CodexTurns`

* The **client** (`codex_stdio.py`, `codex_websocket.py`, alike but for the transport):
  `calls` is `_pending`, `replies` the futures that are done, `incoming` is `_events`.
  `Read` is one line of `_read_messages`; a line that is no JSON ends the reader, whose task
  nobody awaits (`"dead"`); at the end of the wire every waiting call fails (`ReadEnd`), but
  `listen` is not told.
* The **router**: `registered`/`queue` (`_queues`), `threadTurn` (`_thread_turns`), `early`
  (`_early_events`, by turn, and under `NoTurn` by thread), `requests` (`_requests`).
  `Listen` is the runtime's listener with `handle_event`; an exception in it ends it.
* **`start_turn` and the stream**: `StartTurn`, `TurnStarted` (which registers the turn and
  replays what came early), `TurnRefused`, `WriteRaises`; `TakeEvent`, `TakeTerminal`;
  `Stop` and `Stopped`; `Answer` with `take_request`'s choice (`Accepts`) and
  `AnswerUnsupported`, an approval decision Codex does not have.
* The **server** is external and asynchronous: the reply to `turn/start` and the events of
  the turn come in any order, a failure may be reported twice, errors and usage may name the
  thread only, and its process may end.

`sent` and `heard` are history, the variables of `EventDelivery`; an event about a turn carries
its number in `sent`, which a request of the turn is named by.  Text, thinking and tool
events are one kind, `content`.  An event that names no turn is in nobody's account in
`EventDelivery`; `ResultIsServers` says what it may do.

### `RunViewCards`

* `call[p]` is the publish a task is in: which await, which view, which card, and the
  sequence number read before the await.  The tasks are the consumer, the handler of an
  answer, and `/stop`; `reader` is the one that consumes.
* `cardOf`, `textRuns`, `pendingTexts`, `disabled` are the fields of `FeishuRunViewSink`;
  `sequence`, `recent`, `closed` those of `StreamCard` (time is whether the interval since
  the last update has passed: `Elapse`).
* **Feishu** is external: `cards` with the last sequence number each has taken, `texts`.
  It takes an update only with a greater number; any call may fail, or succeed and lose its
  reply.

A view is one of five kinds.  A run asks its owner once.  A run starts when the tasks of the
one before are done with its views.

### `MessageIntake`

* Feishu: `history` (a message is its number in it), `pushes`, `connected`, and `aged`, how
  many messages are older than the lookback of a backfill that starts now.
* The gateway: `seen` and `known` are its two sets.  The websocket thread checks an id
  (`OnMessageChecks`), then adds it and submits (`OnMessageSubmits`): `taking` is the message
  in between.  A backfill does the same on the loop, awaiting only the listing of a page:
  while one has a page in hand (`LoopIsFree` is false) nothing else runs on the loop, but
  the websocket thread does.
* A fill's `after` and `upTo` are what it asks for.  `end_time` is cut down to a whole second
  (86), so `upTo` may be any message from the lookback on: what was written in the last
  fraction of a second is not listed.  `cut` is the chats given up with a warning because a
  page had more after it but no `page_token` (262-265), `BackfillListsCut`.
* The loop: `submitted` coroutines start in order; one with attachments is downloading
  before the use cases are handed its message (`handled`).
* `Crash` forgets the ids; the chats of the store's sessions are known again.

Left out: menus and card actions, which keep no state here, and the keepalive.  Whether a
chat is private, and whose it is, is not modelled: all are the owner's.

### `RunFiles`

* `disk` is the files: `runs`, `runIndex`, `pending`, `sessions`, `index`, `binding` are
  those of `FileStore`, `coreRuns`, `corePending`, `coreSessions` the second copies of
  `FileRunPersistence`.
* An operation is a sequence of writes, `todo`, with what becomes of the memory after the
  last or after one that raises, `then`.  A write replaces one file as a whole
  (`utils/atomic_file.py`).  Between two writes of an operation nothing else runs, because
  none of them awaits, but the process may die.
* `mem.phase` is where the bridge is.  `stuck` and `stranded` are real: after a write that
  raised, a run whose request nobody can answer, and an active run that nothing consumes.
* `mem.session` is the session of the active run or of the turn that is being started: once a
  turn has its session, what is selected may change under it.  `/model use` and `/agent`
  (`ClearSelectedSession`) look at no state and come at every await, also while a session is
  created or a turn started.  Messages, `/new`, `/cd` and `/resume` are taken one at a time:
  an assumption, the code does not enforce it, and their overlaps are `RunController`'s.
* `dropped` is history: sessions the owner left and has not resumed.  The memory's choice is
  what counts: `/resume` selects a session without binding it, so a restart goes back to
  the bound one.

Left out: logs, the cards of the first generation, named workspaces, time stamps.  One chat;
a run asks at most once; Codex and OpenCode write alike.

## 3. Runs

`CHECK_DEADLOCK FALSE` everywhere: the bridge is idle when all inputs have been handled.

| Run | Instance | Result |
|---|---|---|
| `safety` | 4 inputs, 3 turns, 2 requests a turn, 2 workspaces, Codex, no faults, disciplined owner; about 490,000 states | 4 properties hold |
| `chaos` | 2 inputs of any kind, all faults, idle timer, 1 restart, overlaps, OpenCode; about 298,000 states | 2 hold |
| `overlaps` | 3 inputs that start, stop, answer and reset with overlaps, failing publishes, Codex; about 310,000 states | 3 hold |
| `liveness` | 3 inputs, fair; about 76,000 states | 2 hold |
| `two_starts` | 2 texts that overlap | `ActiveRunNeverReplaced` fails |
| `codex_turns` | 2 turns, 2 requests or contents, any one occurrence; about 904,000 states | 6 hold |
| `opencode_turns` | 2 turns, an answer of 2 chunks each, any one occurrence, fair; about 103,000 states | 6 hold |
| `opencode_stale` | 2 turns, one `/stop` | `CompletesOwnTurn` fails |
| `cards` | 2 runs, an event, a request and an answer each, `/stop`, any two faults; about 1,430,000 states | 5 hold |
| `pending_hidden` | 1 run, no fault | `RequestIsShown` fails |
| `intake` | 1 chat, 2 messages, pages of 1, any two faults, fair; about 178,000 states | 5 hold |
| `files` | 2 runs, 2 sessions, 2 crashes, 1 write that raises; about 586,000 states | 6 hold |

What the passing runs of the run controller show (what holds with every overlap and fault is
proved as well, section 6):

* `OneConsumerPerStream` (for an owner who does not overlap his answers) - no two handlers
  iterate over one stream, through pauses, answers, resets that decline an approval, and
  hand-overs.
* `QuiescentRunAwaitsOwner` (the same, and no call fails) - when nothing is in progress, the
  scope is free or its run waits for an answer that card, files and agent agree on.
* `StuckScopeRaised` (every overlap, every fault) - what is left of it: a scope is stuck with
  a run only if a handler of that very run has raised.  The run of one handler is never
  stranded by another run's handler, whatever both do to `_active_runs`.
* `StoppedRunIsLeft` (every overlap, every fault) - a command that stopped a run goes on only
  when the scope has left it, whichever handler finished it: no session is replaced under a
  run that works.
* `MessagesDeliveredOnce` (every overlap, fault and restart) - `RunController` implements
  `MessageDelivery`: a message goes to one turn at most.  It may be dropped; that queued
  messages are not lost is `QueuedMessageKept`, which the code breaks (section 4).
* `TurnRunsInCurrentWorkspace` (starts do not overlap) - messages queued while `/cd` stops
  their run are not run in a session of the workspace that was left.
* `ActiveRunIsOpen`, `FinishedRunsStayFinished` (every overlap, fault and restart) - the files
  agree with `_active_runs`, and a terminal status is final.
* `StopEndsItsTurn`, `EndedTurnIsLeft` (inputs of one owner that do not overlap; with overlaps
  the fair instance is too large for TLC) - the scope leaves a turn that was asked to stop, and
  one that has ended.

What those of the agent adapters show:

* `DeliversInOrder` - `CodexTurns` implements `EventDelivery`, although events may be routed
  before their turn is registered and after it was left.
* `ResultIsServers` - a turn ends as the server ended it; only an error that names no turn
  can make one fail that has not.
* `AnswersShownRequest` - although requests of turns that were stopped stay in the router's
  table, an answer goes to the request the owner was shown.
* `PausedRequestIsKept` - while the server runs, a run that waits for its owner can be
  answered, also after a decision Codex does not have.
* `NoStreamLeftWaiting` - when every message has been handed on, no consumer is left waiting
  for the end of a turn that has ended.  It assumes that reader and listener live.
* `QueuesHoldOwnEvents` - although answers to an aborted turn keep arriving while the next
  one is registered, a turn is given text, requests and questions of its own messages only.
* `TextInOrder` - deltas, snapshots of the part and the backfill never double a chunk, and
  the prompt never shows up as output.
* `CompletedTextIsWhole` - an action property: a turn that completes has yielded exactly what
  the server read for `session_messages`, and all its text if the server had ended it by then.
  It does not say that the text is whole whenever the turn completes, because that is false:
  the idle of an aborted turn may ask for the messages in the middle of the next turn's answer
  (`opencode_stale`), and what is written while that reply is on its way is lost even if the
  turn ends meanwhile.  Only for turns whose events were all heard and that have one answer:
  the backfill reads the first answer only, and cannot repair a text whose beginning is
  missing.
* `CompletesOnlyAnswered` - the early idle of a turn before it is ignored
  (`opencode_server.py` 658).
* `LiveTurnIsHeard` - the turn in use stays registered and current, whatever becomes of the
  ones before it.
* `StreamsEnd` - liveness: after an interruption of the event stream every registered
  turn's stream ends; so does that of a turn the server ended, if its answer had begun and
  nothing was missed.  Without these conditions it does not hold: an idle before any answer
  is ignored and no second one comes, and a turn started after the event stream has died
  waits until the Idle Timeout.

What those of the Feishu side show:

* `LastViewIsShown`, `LastViewStays` - whatever overlaps, is refused, fails or loses its
  reply, the owner sees the last view of a run, on a card or as text, unless sending the
  text failed too; and no update that was under way takes it back.  This rests on Feishu's
  refusal of old sequence numbers and on the run controller publishing nothing after a last
  view in one task; the mutant that lets `/stop`'s run go on publishing breaks it.
* `TextRunsShowRequest`, `FinishedCardsAreClosed` - the text fallback sends the request; a
  card is not left streaming.
* `HandedOnOncePerThread` - in one life of the process neither thread hands on a message
  twice, although two backfills may overlap and share pages.  The two threads together may:
  the id is checked and added without a lock.  A submit that raises is excluded: it discards
  the id although a backfill may have added it.
* `TextsStayInOrder` - texts are handed on in the order they were written, also past a
  message whose attachment is being downloaded.
* `BackfillLeavesNoneOut` - an action property: a backfill that ends without an error has
  taken, or found taken, every readable message of the time it asked for, but for the rest of
  a chat whose page did not say how to go on.  What was written in the fraction of a second
  before its start it does not ask for, and such a message may be neither pushed nor listed.
* `PushedMessagesAreHandled` - liveness: what is pushed is handed on, unless the connection
  is lost with it, and so is what a thread has checked or added, connected or not: the two
  threads do not each leave a message to the other.  It is said of a process that lives, whose
  loop takes what is submitted and whose downloads succeed.

What `files` shows, all of it proved as well (section 6):

* `NothingIsLeftBehind` - after a recovery, whatever crashes cut short the operations before
  it or earlier recoveries, what is running or open is of this process.
* `CopiesAgreeOnEnds`, `ClosedStaysClosed` - the second copy never shows an end the store
  does not show, and an end is final, through crashes between two writes and writes that raise.
* `UsableSessionsAreStored` - a session that is selected, bound, in use or offered has its
  file and its index entry.
* `LeftSessionIsNotReused` - no turn is given a session its owner has left, also when the
  bridge died between `/new` and the next session, or when `/model use` came while another
  turn was being started.  A turn that was given its session before it was left goes on in
  it: only later turns are kept out.

### Bounds

A handler lives through one input, so the number of `Handlers` bounds the inputs and the
queue.  Four are enough for a start, an input that races it, an answer and a message
handed over; three turns are enough for a hand-over of a hand-over; two requests per turn
for an answer to a first request that arrives with a second one open; two workspaces to
tell them apart.  `chaos` has two handlers because faults and overlaps multiply every
await, and its properties are proved for any number.

The adapters have two turns because what can go wrong between turns takes an earlier and
a later one.  In `OpenCodeTurns` two chunks make a text have a beginning and a rest.  A second
answer, which changes the one that is bound, is out of a run's time under fairness: without it,
the safety properties hold with two answers as well (1,269,000 states), and so does `StreamsEnd`
with two occurrences and one chunk (203,000).  In `CodexTurns` two requests make an older one stay in the
table, and `MaxWire` of 1 lets a second message be sent as soon as the first is read, which
is all the reordering there is.  `MaxOccurs` bounds how many of the listed disturbances
happen; the OpenCode safety properties are proved without bounds.

`RunViewCards` has two runs for what one leaves behind for the next, and an event beside the
request so that a publish can be throttled; two faults let a fallback fail as well.
`MessageIntake` has pages of one message so that two messages need two pages, and two faults
so that a backfill can be disturbed.  One chat is enough for a backfill and the websocket thread
to compete for a message, or each to be at another; with two chats all its safety properties
hold as well (744,000 states), and they are proved for any number.  `RunFiles` has two crashes for one in
the recovery from another, two sessions for one left and one taken, and is proved for any
number.

### Fairness

`FairSpec` of `RunController` adds weak fairness of `Resumes(h)` (the loop runs a coroutine
whose call has returned, and calls return), of the idle callback, and of the end of a turn
the agent was asked to stop.  It does not assume that a turn ends by itself, that the agent
ever sends an event, or that the owner ever answers.

`OpenCodeTurns` assumes weak fairness of the listener, of the reader of each stream and of
`session_messages`, which are coroutines of a running loop and an HTTP call that returns or
raises.  It assumes nothing of the server, of `Connect` or of `prompt_async`.

`MessageIntake` assumes weak fairness of the websocket thread, of each backfill, and of the
loop's coroutines and downloads, which return or raise.  It assumes nothing of Feishu.

## 4. Disagreements with the documents

Three runs show one each (`findings` in `PROJECT.json` quotes the text).  Line numbers are those
of `core/run_controller.py` unless a file is named.

| Run | What happens |
|---|---|
| `two_starts` | two texts inside the window between lines 66 and 133 both start a run; the second replaces the first, whose turn goes on unseen |
| `opencode_stale` | after `/stop` the run controller leaves the stream at its next event, so the aborted turn's idle may arrive when the next turn is registered.  It names no message (`opencode_server.py` 296) and completes that turn as soon as an answer to it exists |
| `pending_hidden` | a request within 0.4 s of the view before it is dropped by the throttle (`stream_card.py` 143), nothing writes it later, and the run waits for its owner |

More are stated as properties that the code does not keep and that no run lists.  To see one,
put it alone into the configuration named, with the constant changed where one is given; TLC
finds the behaviour within a minute or two.

| Property | Configuration | What happens |
|---|---|---|
| `FinishesOwnRun` | `RunController_safety.cfg`, `OverlapAnswers = TRUE` | two `/stop` of a paused run: the first frees the scope, a text starts a run, and the second one's `_finish` (392) ends that run (`bridge-core-detailed-design.md` 163: "Owns orchestration for one active Run") |
| `QuiescentRunAwaitsOwner` | `RunController_safety.cfg`, `OverlapAnswers = TRUE` | the card shows the request before line 352 records it; an answer in between is delivered and then raises, and the run waits for an answer the agent already has (`personal-workflow-behavior.md` 103: "the next owner message answers it") |
| `SelectionIsCurrent` | `RunController_safety.cfg`, `OverlapStarts = TRUE` | a text asks for a session while `/cd` replaces it: the session of the old workspace arrives later and is selected (499) (`README.md` 18: "Workspace changes clear the current Agent Session") |
| `StopReturns` | `RunController_liveness.cfg` | `/stop` empties the queue, then awaits the `completion_future` of the `ActiveRun`; a message queued before the terminal event is consumed starts a next turn in the same `ActiveRun` (484 resets `stop_requested`), and `/stop` waits for that turn (`personal-bridge-core-refactor.md` 48: "so that I can regain control immediately") |
| `NoRunLeftRunning` | `RunController_safety.cfg` | the path through line 363, a hand-over to queued messages, never calls `_finish` for the run that ended: it shows as running until a restart (`bridge-core-detailed-design.md` 138: "the durable Core state for one Agent Turn") |
| `QueuedMessageKept` | `RunController_safety.cfg`, `IdleDefault = TRUE` | a message queued while the watchdog stops the turn is gone when the timed-out run finishes (370) (`personal-workflow-behavior.md` 15: "are combined into one prompt for the next Agent Turn") |
| `TimedOutRunWasStopped` | `RunController_safety.cfg`, `IdleDefault = TRUE` | `timed_out` is never reset: the watchdog fires during a hand-over, and the next turn's events are swallowed and it is recorded as timed out (`CONTEXT.md` 40: a watchdog "that interrupts a Run after the Agent produces no output") |
| `FinishedRunHasNoOpenRequest` | `RunController_safety.cfg` | `stop_run` reduces `RunInterrupted` into the view, which clears `pending`, before `_finish` would close the request: the record stays `open` until a restart |
| `OnlyOwnersMessages` | `MessageIntake_intake.cfg` | a backfill does not look at who wrote a message: the bot's own texts start turns |
| `OneCardPerRun` | `RunViewCards_cards.cfg` | two publishes that both find no card create one each; the first is never updated again |

## 5. Mutants

Each property of a passing run has a mutation of the model it catches (`mutants` in
`PROJECT.json`); the mutated operator is defined just above the one it replaces and says
which mistake it stands for: an entry that is not popped, a consumer that does not return
when the run pauses, a session created before the workspace is assigned, a merge that
keeps its last message, a recovery that ignores the status or the second copies, an answer
bound without looking at its parent, a delta that is not remembered, an interruption told
to some turns only, early events that are not replayed, a request taken before its decision
is looked at, a last view that is throttled, a second copy written first, a session bound
before it is saved.

## 6. Proofs

TLC checks small instances; these theorems hold for every value of the constants, from the
modules' named `ASSUME`s only: the bounds are numbers, what may occur is among the occurrences
the module knows, and `None` is no request.  Where a theorem has a hypothesis of its own it is
given with it.

`RunControllerProofs` (every set of handlers and workspaces, every bound, both agents, all
faults and all overlaps):

* `TypesAreCorrect`: `Spec => []TypeOK`
* `ActiveRunsAreOpen`: `Spec => []ActiveRunIsOpen`
* `TerminalStatusesAreFinal`: `Spec => FinishedRunsStayFinished`
* `MessagesAreDeliveredOnce`: `Spec => MessagesDeliveredOnce`, the refinement of
  `MessageDelivery`

`ActiveRunIsOpen` is not inductive.  `TurnStarts` writes the run's record before its
`ActiveRun` is registered, and meanwhile any handler may finish the scope's entry; the
invariant must say that this cannot be the run about to be registered.  `Inv` adds

* `HandlersHoldRuns`: a handler past its start holds an `ActiveRun`, and a consumer has a
  stream (without it not even the types are inductive, `run[self[h]]` would be undefined);
* `RunsKnown`: no run above `nextRun` exists anywhere, so a started turn is a new record;
* `InitialRunsApart`: a run whose initial view is being published is `running`, is no
  `ActiveRun`'s run, and belongs to one handler only.

Each action has one lemma for the types (`RunControllerTypeProofs`) and one for the rest;
`RegistryKept` serves the actions that change neither runs nor the entry, and
`RegistryAfterFinish` the four places that call `_finish`.  `FinishedRunsStayFinished`
follows because only `_finish`, `TurnStarts` and `Restart` write a status, the first writes
that of the active run, which is running, the second that of a new run.

The refinement needs to know where a message may be.  `HeldApart` says that the prompts being
sent and the queue of the scope's `ActiveRun` have no message in common and none that has yet
to arrive, and that a queue holds a message once; `NewTurnsEmpty` that a run not yet started
was given nothing; `NewObjectsEmpty` that the `ActiveRun` a handler is going to register has an
empty queue.  Then a step that takes messages out of one place puts them into one other place
or drops them, and that is one step of `MessageDelivery` or none.

`RunControllerScopeProofs` (the same: every overlap, every fault, any number of restarts) proves
what `overlaps` checks of the scope's run:

* `StuckScopesRaised`: `Spec => []StuckScopeRaised`
* `StoppedRunsAreLeft`: `Spec => StoppedRunIsLeft`

`StuckScopeRaised` speaks of a scope where nothing is in progress; `ScopeHeld` of every state:
a handler works on the scope's run or has raised, or the run waits for the owner.  It is not
inductive, because another handler may answer the request the run waits on: `RequestsApart`
(a request is on one `ActiveRun`), `AnswersHold` (an answer on its way holds the `ActiveRun` that
shows its request) and `AnsweredRaised` (a request shown but answered has cost a handler of its
run an exception) say who has done it.  `ReleasedLeft` says that an `ActiveRun` whose waiters are
released is the scope's no more, and that one not yet made is nobody's; `StoppedRunIsLeft` follows.
Every action is shown to have one shape, `Acts` (it moves one handler and its `ActiveRun`,
answers the scope's request or none, shows a new request or takes one away only while it goes on,
and closes a request or leaves the run only in ways `Holds` lists), and the invariant follows from
the shape alone; a restart and the entry of a new run are the exceptions.

What holds only without overlaps is not proved: `safety` checks it.

`OpenCodeProofs` (every number of turns, answers, chunks and disturbances) proves every safety
property of the OpenCode runs but the one the code violates:

* `OpenCodeTypeCorrect`: `Spec => []TypeOK`
* `QueuesAreOwn`: `Spec => []QueuesHoldOwnEvents`
* `LiveTurnsAreHeard`: `Spec => []LiveTurnIsHeard`
* `NothingIsHeardBefore`: `Spec => []NothingHeardBefore`
* `CompletionsAreAnswered`: `Spec => []CompletesOnlyAnswered`
* `YieldedTextIsInOrder`: `Spec => []TextInOrder`
* `CompletedTurnsAreWhole`: `Spec => CompletedTextIsWhole`

Its `Inv` is the types with three facts about the router: a queue is a sequence over the
events its turn may be given (`QueuesOwn`), `_early` keeps under an answer that answer's
events only (`EarlyOwn`), and the bound answer is one of the current turn
(`BoundToCurrent`).  The last is what makes a clean queue inductive: an event of the bound
answer goes to the current turn without another look at its parent.  `LiveTurnIsHeard` needs
`OverInOrder` (a turn starts when those before it are over); every other step of a turn has
the shape `GoesOn`, so one lemma serves all of them.  `NothingHeardBefore` needs `FreshInv`:
the server's queue, the wire and the router know started turns only.

The last three need invariants that reach from the server to what is said.  `HeardOf`: what the
server has written ascends over the answers of a turn; an event on the wire is of an answer
begun, holds text of it, and a delta is new to those before it; nothing is remembered, queued
or seen of an answer before it is begun.  That gives `CompletionsAreAnswered`.

`OrderedInv` follows the chunks of a live turn: what is said lies before what is queued, that
before what is in `_early` of an answer that can still come, and a delta on the wire after all
that was heard.  `_part_texts` makes this inductive (`SeenOrder`): as long as an answer has no
conflict, what was heard of the turn is in the text seen of that answer or lies before all the
answer's text, so what a snapshot adds to the text seen is new (`NewTextIsNew`).  With a
conflict a snapshot adds nothing and only deltas count.  The answers before the last need
`EarlyOrder`, since the parts of two answers wait in `_early` at once.

`CompletedTextIsWhole` needs the converse, that nothing is left out.  `PlainInv`: an event's text
has no gaps.  `WholesInv`, of a live turn with one answer of which no event was missed: there is
no conflict, the text seen is exactly what was heard and counts up from 1, the next delta
continues it and the next snapshot extends it (`WholeWire`), and the wire holds what is written
beyond it.  So what is said is the start of the answer's text when the server reads it, and
stays so while the reply is on its way: `RepliesCount`, for which the stream takes nothing
meanwhile (`ReplyGoes`).  The backfill adds the rest of the reply.  That this is all the text of a
turn that had ended by then is `FinalsInv`: the server writes only of the first prompt of its
list, and those on the list are different and not ended (`TodoInv`).  `RepliesInv` is what the
other theorems need of a reply: it is kept only while the turn completes, one with an answer
holds ascending text of an answer begun, and one without came to a turn without activity.

`RunFilesProofs` (any sets of runs and sessions, any number of crashes and failures) proves
all six properties of `files`:

* `FilesTypeCorrect`, `RecoveryLeavesNothing`, `CopiesAgree`, `SessionsAreStored`,
  `ClosedFilesStayClosed`, `LeftSessionsStayLeft`

What they say of the disk has to survive a crash after any prefix of an operation's writes,
and what they say of the memory has to be true after all of them.  So the invariant speaks
of the writes that are left.  `Stored` is what the disk alone must satisfy whenever the
process may die; `Settled` what the memory relies on between any two writes; `Consumes` that
a run that is read has not ended and one that waits has no closed request; and `Pending` that
each write left may be done once those before it are, and that all of them together make
`Settled` and `Consumes` true of the memory in `then`.  Every operation writes the files in
one order (`FileRank`, `Sorted`), so the writes left may be treated as a set from which the
least is taken: the step of `write_json_atomic` is one case per file, whatever the operation,
and each operation owes `Pending` once, when it starts.

`MessageIntakeProofs` (any number of messages, chats, backfills and page length):

* `NoThreadHandsOnTwice`: `Spec => []HandedOnOncePerThread`
* `TextsAreInOrder`: `Spec => []TextsStayInOrder`
* `BackfillsAreComplete`: `Spec => BackfillLeavesNoneOut`
* `IntakeTypeCorrect`: `Spec => []TypeOK`

The first two say what they say under a condition on what has `happened` (no submit that raised; no
disconnection, submit or crash), which only grows.  That a thread hands a message on once
follows from where it has been: `TakenIsSeen` says that whatever this life took is in `seen`,
`CheckedIsNew` that the message a thread has checked and not yet added was not taken by the
same thread, `OnePage` that one backfill at a time has a page in hand, which is what the
absence of an await between check and addition gives, and `Apart` that a delivery is in one
stage of the loop, once.  The order of texts is an invariant of the whole way a text goes:
pushed, seen, taken and handed on, what is at a stage is older than all that is behind it
(`PushedInOrder`, `SeenInOrder`, `TakenInOrder`).  `TypeInv` is not `TypeOK`: it types only
what these two need, whatever a listing returns.

A backfill that ends has left nothing out because of `CoverInv`: each readable message of its
span that is not in `seen` is in the page it has in hand, in a chat after the one it is at, or
in that chat and beyond the last message listed; nothing is asked of a chat in `cut`.  `PageIsFirst` (a page is what comes first in
a listing, and is empty only if the listing is) carries it over a listing, `ItemDonePasses`
over the end of an item, a page or a chat.  `seen` loses an id only when a submit raises, which
the property excludes, and at a crash, which leaves no backfill at work.  `Shape`, `TypeOK`
with what a backfill holds at each `pc`, is the inductive form of the types.

`CodexProofs` (any number of turns, events, messages under way and occurrences) proves all six
properties of `codex_turns`, the refinement of `EventDelivery` among them:

* `CodexTypeCorrect`, `ResultsAreServers`, `RequestsAreKept`, `NoStreamIsLeft`,
  `AnswersAreShown`, `EventsAreDelivered`

An event about a turn passes through up to four lists, the wire, `_events`, `_early_events`
and `_queues`, which it shares with other turns' events and with messages that name no turn.
The invariant names events by their numbers: `OnWay` says that the four lists together hold
exactly the numbers sent and not heard, `InOrder` that each list ascends and lies before those
behind it; `IsKnown` that an event is the one with its number in `sent`.  From that the next
event a consumer takes is the next one sent (`EventsAreDelivered`), and with nothing on the
way everything was heard (`NoStreamIsLeft`).  The request table holds the same numbers
(`TableInv`).  While a run may still ask (`Asking`), the requests of its turn there are the one
that is shown and later ones (`LaterInv`), so the oldest one, which `take_request` picks for
user input, is the one shown; and none that was routed is missing (`KeptInv`).  A run that a
timeout has stopped reads on without pausing and leaves requests behind, which is why
`LaterInv` speaks of asking turns only.  `StepKinds` sorts the actions by what they do to the
lists, so each part of the invariant has one lemma per kind of step.

`RunViewCardsProofs` (any number of runs, views, cards and failures) proves the properties of
`cards`:

* `TypeCorrect`, `LastViewShown`, `RequestSent`, `FinishedCardsClosed`, `LastViewKept`

Three tasks publish views of one run without a lock and share its card and the sink's table.
The invariant says which may be publishing what.  `OpeningInv`: a card is made for the first
view, by the consumer and with nobody else publishing, or for a last view.  `PendingInv`: while
a request is open, only its own view is being published.  `EndsInv`: once a task publishes a
last view, no other kind of view is taken up.  What is left are updates that were under way by
then; `CallInv` says that their sequence numbers are too low for Feishu to take them after the
last view, which is `LastViewKept`.  `StreamingInv` says why a card that still streams will be
closed: a last view is on its way to it, or the run goes on and the card is the sink's.  The
steps of a publish after its start have one shape (`Evolves`): they take up no other view, no
card loses what it had, and only a task that publishes a last view makes a card show one.

The type invariants of `RunController` and `OpenCodeTurns` are proved and therefore not
listed in a run.

Out of the prover's reach, and left to TLC: the liveness properties (fairness and
`ENABLED`), and what recursive functions compute for every input.  `StreamsEnd`,
`EndedTurnIsLeft`, `StopEndsItsTurn` and `PushedMessagesAreHandled` are liveness and only
model-checked.  So are `OneConsumerPerStream`, `QuiescentRunAwaitsOwner` and
`TurnRunsInCurrentWorkspace`, which hold only without overlaps (run `safety`).  Every other
invariant and action property of the passing runs is stated by a theorem.

## 7. Plan

Done: run controller, both adapters, cards, intake, files; the two abstract specifications.
What is left, in order of importance:

1. **`MessageQueue`** - the merge window of `core/queue.py` and the reducer of
   `core/run_view_reducer.py` as functions, against reference definitions; `RunController`
   allows any prefix and any content meanwhile.
2. **Several chats** - `RunController` and `RunFiles` have one Private Chat Scope; scopes
   share the agent's connection, the store's index and the sink's `disabled` flag.

### Not modelled, and why

* The read-only commands and `/files`, renderers, configuration, command line: they keep no
  state, and a property of them would be about formatting.
* Model and OpenCode agent of a scope: passed through to `start_turn`; that a change drops
  the session is modelled (`clear` of `RunController`, `ClearSelectedSession` of `RunFiles`).
* Named workspaces: a file of names next to the workspace that `RunController` has.
* Card actions and menus in the gateway and the adapter: each submits one handler to the
  loop, which is the input `RunController` starts from.
* Workspace validation: a test of a path against the file system.
* Processes, sockets and HTTP below the messages they carry.
* The first generation under `bot/`, which the runtime does not instantiate.
