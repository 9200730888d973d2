--------------------------- MODULE RunController ---------------------------
(***************************************************************************)
(* The bridge's core: c_auto_bridge/core/run_controller.py with the        *)
(* routing of core/use_cases.py, for the one Private Chat Scope and the    *)
(* one owner the Personal Bridge has.                                      *)
(*                                                                         *)
(* Every chat message, card action and idle-timer callback is a coroutine  *)
(* of one asyncio loop.  Such a handler runs without interruption from one *)
(* await that really suspends to the next, so an action of this module is  *)
(* the code between two of those awaits, and pc[h] names the await handler *)
(* h is suspended at.  The persistence methods are declared async but      *)
(* never suspend: their effects belong to the step that calls them.        *)
(*                                                                         *)
(* An ActiveRun is a mutable object that several handlers hold at once.    *)
(* Only start_text_run makes one, so an object is named by the handler     *)
(* that made it; active is the entry of _active_runs for the scope.        *)
(***************************************************************************)
EXTENDS Naturals, Sequences, FiniteSets

CONSTANTS
  Handlers,       \* identities of the coroutines the owner's inputs start
  Workspaces,     \* directories the owner may work in
  Home,           \* the workspace the bridge is configured with
  None,           \* no ActiveRun, no session, no request
  MaxRuns,        \* bound: Agent Turns the agent accepts
  MaxRequests,    \* bound: Pending Requests one turn makes
  MaxRestarts,    \* bound: restarts of the bridge
  Agent,          \* "codex" or "opencode"
  Commands,       \* the kinds of input the owner sends
  Faults,         \* the kinds of call that may raise, see FaultOf
  IdleDefault,    \* is an Idle Timeout configured?
  OverlapStarts,  \* may inputs that start a run or change the session overlap?
  OverlapAnswers  \* may answers to a Pending Request overlap with others or
                  \* with the delivery of the view that shows the request?

AllCommands == {"text", "click", "stop", "reset", "cd", "clear", "resume", "timeout"}
AllFaults == {"create", "missing", "start", "publish", "stop", "answer",
              "stream", "silent"}

ASSUME ConstantsAssumption ==
  /\ None \notin Handlers
  /\ Home \in Workspaces
  /\ MaxRuns \in Nat /\ MaxRequests \in Nat /\ MaxRestarts \in Nat
  /\ Agent \in {"codex", "opencode"}
  /\ Commands \subseteq AllCommands
  /\ Faults \subseteq AllFaults
  /\ {IdleDefault, OverlapStarts, OverlapAnswers} \subseteq BOOLEAN

Runs == 1 .. MaxRuns
RequestKinds == {"user_input", "approval"}
Requests == [run : Runs, n : 1 .. MaxRequests, kind : RequestKinds]
ASSUME NoneAssumption == None \notin Requests

\* An Agent Session, reduced to what matters across sessions: the workspace
\* it works in and how many times the owner had chosen a new session when it
\* was asked for.
Sessions == [ws : Workspaces, epoch : Nat]

Terminal == {"completed", "failed", "interrupted", "timed_out"}
ViewStatuses == {"running", "pending"} \union Terminal

VARIABLES
  \* the handlers
  pc,         \* where a handler is suspended
  cmd,        \* the input it handles
  self,       \* the ActiveRun it holds in its local variable
  strm,       \* the run whose event stream it iterates over
  sess,       \* the session it asked for, or uses
  prompt,     \* the messages of the prompt it starts a turn with
  ev,         \* the event it has just reduced
  answers,    \* the request it answers
  \* the scope
  active, selected, fresh, workspace, epoch, timeoutOn, fired,
  \* the ActiveRun objects
  run, view, pending, queue, stopReq, timedOut, future, timer,
  \* the agent: its turns and the requests it waits on
  turn, sent, usedSess, stopAsked, asked, unanswered, taken,
  \* the files under data_dir, which survive a restart
  nextRun, status, record, restarts

handlerVars == <<pc, cmd, self, strm, sess, prompt, ev, answers>>
sessionVars == <<selected, fresh, workspace, epoch>>
objectVars  == <<run, view, pending, queue, stopReq, timedOut, future, timer>>
turnVars    == <<turn, sent, usedSess, stopAsked, asked, unanswered, taken>>
fileVars    == <<nextRun, status, record, restarts>>
vars == <<handlerVars, active, sessionVars, timeoutOn, fired, objectVars, turnVars, fileVars>>

\* The awaits a handler can be suspended at, and the two ways it ends.
StartPcs == {"createSession", "getSession", "startTurn", "replaceSession",
             "restartTurn", "publishInitial"}
Pcs == StartPcs \union
       {"idle", "publishNext", "consume", "publishEvent", "publishEnd", "answer",
        "publishResolved", "stopPaused", "publishStop", "stopTurn",
        "awaitCompletion", "createSelected", "done", "failed"}
Ended == {"done", "failed"}

HandlersTypeOK ==
  /\ pc \in [Handlers -> Pcs]
  /\ cmd \in [Handlers -> AllCommands \union {"none"}]
  /\ self \in [Handlers -> Handlers \union {None}]
  /\ strm \in [Handlers -> 0 .. MaxRuns]
  /\ sess \in [Handlers -> Sessions]
  /\ prompt \in [Handlers -> Seq(Handlers)]
  /\ ev \in [Handlers -> RequestKinds \union {"none", "progress", "terminal"}]
  /\ answers \in [Handlers -> Requests \union {None}]
ScopeTypeOK ==
  /\ active \in Handlers \union {None}
  /\ selected \in Sessions \union {None}
  /\ fresh \in BOOLEAN
  /\ workspace \in Workspaces
  /\ epoch \in Nat
  /\ timeoutOn \in BOOLEAN
  /\ fired \in {0, 1}
ObjectsTypeOK ==
  /\ run \in [Handlers -> 0 .. MaxRuns]
  /\ view \in [Handlers -> ViewStatuses]
  /\ pending \in [Handlers -> Requests \union {None}]
  /\ queue \in [Handlers -> Seq(Handlers)]
  /\ stopReq \in [Handlers -> BOOLEAN]
  /\ timedOut \in [Handlers -> BOOLEAN]
  /\ future \in [Handlers -> BOOLEAN]
  /\ timer \in [Handlers -> BOOLEAN]
TurnsTypeOK ==
  /\ turn \in [Runs -> Terminal \union {"none", "running", "closed"}]
  /\ sent \in [Runs -> Seq(Handlers)]
  /\ usedSess \in [Runs -> Sessions]
  /\ stopAsked \in [Runs -> BOOLEAN]
  /\ asked \in [Runs -> 0 .. MaxRequests]
  /\ unanswered \subseteq Requests
  /\ taken \subseteq Requests
FilesTypeOK ==
  /\ nextRun \in 0 .. MaxRuns
  /\ status \in [Runs -> ViewStatuses \union {"none"}]
  /\ record \in [Requests -> {"none", "open", "resolved", "cancelled"}]
  /\ restarts \in 0 .. MaxRestarts
TypeOK == HandlersTypeOK /\ ScopeTypeOK /\ ObjectsTypeOK /\ TurnsTypeOK /\ FilesTypeOK

NewSession == [ws |-> workspace, epoch |-> epoch]

Init ==
  /\ pc = [h \in Handlers |-> "idle"]
  /\ cmd = [h \in Handlers |-> "none"]
  /\ self = [h \in Handlers |-> None]
  /\ strm = [h \in Handlers |-> 0]
  /\ sess = [h \in Handlers |-> [ws |-> Home, epoch |-> 0]]
  /\ prompt = [h \in Handlers |-> <<>>]
  /\ ev = [h \in Handlers |-> "none"]
  /\ answers = [h \in Handlers |-> None]
  /\ active = None
  /\ selected = None /\ fresh = FALSE /\ workspace = Home /\ epoch = 0
  /\ timeoutOn = IdleDefault /\ fired = 0
  /\ run = [h \in Handlers |-> 0]
  /\ view = [h \in Handlers |-> "running"]
  /\ pending = [h \in Handlers |-> None]
  /\ queue = [h \in Handlers |-> <<>>]
  /\ stopReq = [h \in Handlers |-> FALSE]
  /\ timedOut = [h \in Handlers |-> FALSE]
  /\ future = [h \in Handlers |-> FALSE]
  /\ timer = [h \in Handlers |-> FALSE]
  /\ turn = [r \in Runs |-> "none"]
  /\ sent = [r \in Runs |-> <<>>]
  /\ usedSess = [r \in Runs |-> [ws |-> Home, epoch |-> 0]]
  /\ stopAsked = [r \in Runs |-> FALSE]
  /\ asked = [r \in Runs |-> 0]
  /\ unanswered = {} /\ taken = {}
  /\ nextRun = 0
  /\ status = [r \in Runs |-> "none"]
  /\ record = [q \in Requests |-> "none"]
  /\ restarts = 0

-----------------------------------------------------------------------------
(* Steps shared by several actions.                                        *)

Goto(h, p) == pc' = [pc EXCEPT ![h] = p]

\* An input reaches the loop and its handler runs to its first await.
Arrives(h, c) ==
  /\ pc[h] = "idle" /\ c \in Commands
  /\ cmd' = [cmd EXCEPT ![h] = c]

\* The owner's discipline: what the constants OverlapStarts and OverlapAnswers
\* rule out when they are FALSE.
Starting(h) == pc[h] \in StartPcs /\ self[h] = None
SessionBusy ==
  \E h \in Handlers : Starting(h) \/ (cmd[h] \in {"reset", "cd"} /\ pc[h] \notin Ended)
MayStart == OverlapStarts \/ ~SessionBusy
AnswerBusy ==
  \E h \in Handlers : \/ pc[h] \in {"answer", "stopPaused", "publishStop"}
                      \/ pc[h] = "publishEvent" /\ ev[h] \in RequestKinds
MayAnswer == OverlapAnswers \/ ~AnswerBusy

Paused(o) == pending[o] # None

\* The guard at the top of start_text_run.
ScopeIsFree == active = None

\* _session_for_new_turn up to the agent call that answers it.
RequestSession(h) ==
  IF fresh
    THEN Goto(h, "createSession") /\ sess' = [sess EXCEPT ![h] = NewSession]
  ELSE IF selected # None
    THEN Goto(h, "startTurn") /\ sess' = [sess EXCEPT ![h] = selected]
  ELSE Goto(h, "getSession") /\ sess' = [sess EXCEPT ![h] = NewSession]

\* _clear_session_selection, then _create_selected_session up to its call (first
\* a mutation: the session is created before the workspace is assigned; this
\* operator and those like it below are only used as mutations).
CreateBeforeChanging(h, w) ==
  /\ selected' = None /\ fresh' = FALSE
  /\ workspace' = w /\ epoch' = epoch + 1
  /\ sess' = [sess EXCEPT ![h] = [ws |-> workspace, epoch |-> epoch + 1]]
  /\ Goto(h, "createSelected")
ClearAndCreate(h, w) ==
  /\ selected' = None /\ fresh' = FALSE
  /\ workspace' = w /\ epoch' = epoch + 1
  /\ sess' = [sess EXCEPT ![h] = [ws |-> w, epoch |-> epoch + 1]]
  /\ Goto(h, "createSelected")

\* What the callers of stop_run and of _consume_until_pause_or_terminal do once
\* the run is over: reset_session and change_workspace go on to a new session.
CallerResumes(h) ==
  CASE cmd[h] = "reset" -> ClearAndCreate(h, workspace)
    [] cmd[h] = "cd"    -> ClearAndCreate(h, sess[h].ws)
    [] OTHER            -> Goto(h, "done") /\ UNCHANGED <<sess, sessionVars>>

\* stop_run up to the agent's reply to turn_stream.stop() (mutation: it leaves
\* a paused run to a consumer that does not exist).
StopLeavesItToConsumer(h) ==
  IF active = None
    THEN Goto(h, "failed") /\ UNCHANGED <<self, stopReq, queue, stopAsked>>
    ELSE /\ Goto(h, "stopTurn")
         /\ self' = [self EXCEPT ![h] = active]
         /\ stopReq' = [stopReq EXCEPT ![active] = TRUE]
         /\ queue' = [queue EXCEPT ![active] = <<>>]
         /\ stopAsked' = [stopAsked EXCEPT ![run[active]] = TRUE]
StopRun(h) ==
  IF active = None
    THEN Goto(h, "failed") /\ UNCHANGED <<self, stopReq, queue, stopAsked>>
    ELSE /\ Goto(h, IF Paused(active) THEN "stopPaused" ELSE "stopTurn")
         /\ self' = [self EXCEPT ![h] = active]
         /\ stopReq' = [stopReq EXCEPT ![active] = TRUE]
         /\ queue' = [queue EXCEPT ![active] = <<>>]
         /\ stopAsked' = [stopAsked EXCEPT ![run[active]] = TRUE]

\* What they do when the run paused instead: the fallback of
\* _finish_run_for_session_reset interrupts it (mutation: the consumer does not
\* return when the run pauses).
KeepConsuming(h) == Goto(h, "consume") /\ UNCHANGED <<self, stopReq, queue, stopAsked>>
AfterPause(h) ==
  IF cmd[h] = "reset"
    THEN StopRun(h)
    ELSE Goto(h, "done") /\ UNCHANGED <<self, stopReq, queue, stopAsked>>

\* _consume_until_pause_or_terminal up to the first event.
Consume(h) ==
  IF active = None
    THEN Goto(h, "failed") /\ UNCHANGED <<self, strm>>
    ELSE /\ Goto(h, "consume")
         /\ self' = [self EXCEPT ![h] = active]
         /\ strm' = [strm EXCEPT ![h] = run[active]]

\* _arm_idle_timeout and _cancel_idle_timeout act on the scope's entry.
ScopeTimer(armed) ==
  timer' = IF active = None THEN timer ELSE [timer EXCEPT ![active] = armed]

\* _finish: it looks the ActiveRun up again, and raises when there is none or
\* when the request it cancels was never written.  (Mutation: it does not pop the
\* entry.)
CanFinish == active # None /\ (Paused(active) => record[pending[active]] # "none")
FinishKeepsEntry(st) ==
  /\ record' = IF Paused(active) THEN [record EXCEPT ![pending[active]] = "cancelled"]
                                 ELSE record
  /\ status' = [status EXCEPT ![run[active]] = st]
  /\ timer' = [timer EXCEPT ![active] = FALSE]
  /\ UNCHANGED active
Finish(st) ==
  /\ record' = IF Paused(active) THEN [record EXCEPT ![pending[active]] = "cancelled"]
                                 ELSE record
  /\ status' = [status EXCEPT ![run[active]] = st]
  /\ timer' = [timer EXCEPT ![active] = FALSE]
  /\ active' = None
\* The tail shared by the consumers and by stop_run: finish, release the waiters
\* on the completion_future of the ActiveRun h holds, return to the caller.
FinishAndRelease(h, st) ==
  IF CanFinish
    THEN /\ Finish(st)
         /\ future' = [future EXCEPT ![self[h]] = TRUE]
         /\ CallerResumes(h)
    ELSE /\ Goto(h, "failed")
         /\ IF pc[h] = "publishEvent" THEN ScopeTimer(FALSE) ELSE UNCHANGED timer
         /\ UNCHANGED <<record, status, active, future, sess, sessionVars>>

-----------------------------------------------------------------------------
(* handle_private_chat_text and handle_run_view_action: the owner's inputs. *)

\* Text with no run active: start_text_run.
StartTextRun(h) ==
  /\ Arrives(h, "text") /\ ScopeIsFree /\ MayStart
  /\ RequestSession(h)
  /\ prompt' = [prompt EXCEPT ![h] = <<h>>]
  /\ UNCHANGED <<self, strm, ev, answers, active, sessionVars, timeoutOn, fired,
                 objectVars, turnVars, fileVars>>

\* Text while a run is active and not paused: queue_message.
QueueMessage(h) ==
  /\ Arrives(h, "text") /\ active # None /\ ~Paused(active)
  /\ queue' = [queue EXCEPT ![active] = Append(@, h)]
  /\ Goto(h, "done")
  /\ UNCHANGED <<self, strm, sess, prompt, ev, answers, active, sessionVars, timeoutOn,
                 fired, run, view, pending, stopReq, timedOut, future, timer,
                 turnVars, fileVars>>

\* Text that is no decision while an approval is open: ApprovalDecisionRequired.
AskForDecision(h) ==
  /\ Arrives(h, "text") /\ active # None /\ Paused(active)
  /\ pending[active].kind = "approval"
  /\ Goto(h, "done")
  /\ UNCHANGED <<self, strm, sess, prompt, ev, answers, active, sessionVars, timeoutOn,
                 fired, objectVars, turnVars, fileVars>>

\* The decisions map_approval_decision and the card buttons produce, and the
\* ones each adapter accepts before it calls the agent.
Decisions == {"accept", "reject", "acceptForSession", "decline", "cancel"}
Accepted == IF Agent = "codex" THEN {"accept", "reject", "decline", "cancel"}
                               ELSE {"accept", "reject"}

\* answer_user_input and answer_approval up to the agent's reply.  Codex takes
\* the request out of its table first, so a second answer raises at once.
SendAnswer(h, q, decision) ==
  IF (q.kind = "approval" /\ decision \notin Accepted) \/ (Agent = "codex" /\ q \in taken)
    THEN Goto(h, "failed") /\ UNCHANGED <<self, answers, taken>>
    ELSE /\ Goto(h, "answer")
         /\ self' = [self EXCEPT ![h] = active]
         /\ answers' = [answers EXCEPT ![h] = q]
         /\ taken' = taken \union {q}

\* Text or a click that answers the open request.
AnswerRequest(h, c, decision) ==
  /\ Arrives(h, c) /\ active # None /\ Paused(active) /\ MayAnswer
  /\ c = "click" => pending[active].kind = "approval"
  /\ SendAnswer(h, pending[active], decision)
  /\ UNCHANGED <<strm, sess, prompt, ev, active, sessionVars, timeoutOn, fired, objectVars,
                 turn, sent, usedSess, stopAsked, asked, unanswered, fileVars>>

\* A click on the card of a request that is not, or no longer, the open one.
ClickStaleCard(h, q) ==
  /\ Arrives(h, "click") /\ q.kind = "approval" /\ q.n <= asked[q.run]
  /\ active # None => pending[active] # q
  /\ Goto(h, "failed")
  /\ UNCHANGED <<self, strm, sess, prompt, ev, answers, active, sessionVars, timeoutOn,
                 fired, objectVars, turnVars, fileVars>>

\* /stop
Stop(h) ==
  /\ Arrives(h, "stop")
  /\ (active # None /\ Paused(active)) => MayAnswer
  /\ StopRun(h)
  /\ UNCHANGED <<strm, sess, prompt, ev, answers, active, sessionVars, timeoutOn, fired,
                 run, view, pending, timedOut, future, timer,
                 turn, sent, usedSess, asked, unanswered, taken, fileVars>>

\* /new and /reset: a pending approval is answered "cancel" first, any other
\* run is stopped, and with no run the session is replaced at once.
Reset(h) ==
  /\ Arrives(h, "reset") /\ MayStart
  /\ \/ /\ active = None
        /\ ClearAndCreate(h, workspace)
        /\ UNCHANGED <<self, answers, taken, stopReq, queue, stopAsked>>
     \/ /\ active # None /\ Paused(active) /\ pending[active].kind = "approval" /\ MayAnswer
        /\ SendAnswer(h, pending[active], "cancel")
        /\ UNCHANGED <<sess, sessionVars, stopReq, queue, stopAsked>>
     \/ /\ active # None /\ Paused(active) => pending[active].kind # "approval" /\ MayAnswer
        /\ StopRun(h)
        /\ UNCHANGED <<sess, sessionVars, answers, taken>>
  /\ UNCHANGED <<strm, prompt, ev, active, timeoutOn, fired,
                 run, view, pending, timedOut, future, timer,
                 turn, sent, usedSess, asked, unanswered, fileVars>>

\* /cd and /ws use: the target waits in sess[h] while the run is stopped.
ChangeWorkspace(h, w) ==
  /\ Arrives(h, "cd") /\ MayStart
  /\ \/ /\ active = None
        /\ ClearAndCreate(h, w)
        /\ UNCHANGED <<self, stopReq, queue, stopAsked>>
     \/ /\ active # None /\ Paused(active) => MayAnswer
        /\ StopRun(h)
        /\ sess' = [sess EXCEPT ![h] = [ws |-> w, epoch |-> epoch]]
        /\ UNCHANGED sessionVars
  /\ UNCHANGED <<strm, prompt, ev, answers, active, timeoutOn, fired,
                 run, view, pending, timedOut, future, timer,
                 turn, sent, usedSess, asked, unanswered, taken, fileVars>>

\* /model use and /agent: clear_selected_session.
ClearSelectedSession(h) ==
  /\ Arrives(h, "clear") /\ MayStart
  /\ selected' = None /\ fresh' = TRUE /\ epoch' = epoch + 1
  /\ Goto(h, "done")
  /\ UNCHANGED <<self, strm, sess, prompt, ev, answers, active, workspace, timeoutOn, fired,
                 objectVars, turnVars, fileVars>>

\* /resume with a compatible session; while a run is active the same text is
\* queued or answers the open request.
ResumeSession(h) ==
  /\ Arrives(h, "resume") /\ MayStart /\ active = None
  /\ fresh' = FALSE /\ epoch' = epoch + 1
  /\ selected' = [ws |-> workspace, epoch |-> epoch + 1]
  /\ Goto(h, "done")
  /\ UNCHANGED <<self, strm, sess, prompt, ev, answers, active, workspace, timeoutOn, fired,
                 objectVars, turnVars, fileVars>>

\* /timeout N, default and off: N arms the timer of a run that is paused too.
SetIdleTimeout(h, on) ==
  /\ Arrives(h, "timeout")
  /\ timeoutOn' = on /\ ScopeTimer(on)
  /\ Goto(h, "done")
  /\ UNCHANGED <<self, strm, sess, prompt, ev, answers, active, sessionVars, fired,
                 run, view, pending, queue, stopReq, timedOut, future, turnVars, fileVars>>

-----------------------------------------------------------------------------
(* Replies of the agent and of the Run View sink, and what follows them.   *)

\* create_session or get_or_create_session answers _session_for_new_turn, or
\* create_session answers the recovery from a vanished session.
SessionReady(h) ==
  /\ pc[h] \in {"createSession", "getSession", "replaceSession"}
  /\ selected' = sess[h]
  /\ fresh' = IF pc[h] = "createSession" THEN FALSE ELSE fresh
  /\ Goto(h, IF pc[h] = "replaceSession" THEN "restartTurn" ELSE "startTurn")
  /\ UNCHANGED <<cmd, self, strm, sess, prompt, ev, answers, active, workspace, epoch,
                 timeoutOn, fired, objectVars, turnVars, fileVars>>

\* start_turn raises AgentThreadNotFound: a replacement session is asked for.
ThreadMissing(h) ==
  /\ pc[h] = "startTurn" /\ "missing" \in Faults
  /\ sess' = [sess EXCEPT ![h] = NewSession]
  /\ Goto(h, "replaceSession")
  /\ UNCHANGED <<cmd, self, strm, prompt, ev, answers, active, sessionVars, timeoutOn, fired,
                 objectVars, turnVars, fileVars>>

\* start_turn returns.  A first run only exists in the files and on the card
\* until its initial view is out; a queued turn takes over the ActiveRun.
TurnStarts(h) ==
  /\ pc[h] \in {"startTurn", "restartTurn"} /\ nextRun < MaxRuns
  /\ LET r == nextRun + 1 o == self[h] IN
     /\ nextRun' = r
     /\ turn' = [turn EXCEPT ![r] = "running"]
     /\ sent' = [sent EXCEPT ![r] = prompt[h]]
     /\ usedSess' = [usedSess EXCEPT ![r] = sess[h]]
     /\ status' = [status EXCEPT ![r] = "running"]
     /\ IF o = None
          THEN /\ Goto(h, "publishInitial")
               /\ strm' = [strm EXCEPT ![h] = r]
               /\ UNCHANGED objectVars
          ELSE /\ Goto(h, "publishNext")
               /\ run' = [run EXCEPT ![o] = r]
               /\ view' = [view EXCEPT ![o] = "running"]
               /\ pending' = [pending EXCEPT ![o] = None]
               /\ stopReq' = [stopReq EXCEPT ![o] = FALSE]
               /\ UNCHANGED <<strm, queue, timedOut, future, timer>>
  /\ UNCHANGED <<cmd, self, sess, prompt, ev, answers, active, sessionVars, timeoutOn, fired,
                 stopAsked, asked, unanswered, taken, record, restarts>>

\* The initial view is out: the ActiveRun enters _active_runs.
InitialPublished(h) ==
  /\ pc[h] = "publishInitial"
  /\ active' = h
  /\ run' = [run EXCEPT ![h] = strm[h]]
  /\ timer' = [timer EXCEPT ![h] = timeoutOn]
  /\ self' = [self EXCEPT ![h] = h]
  /\ Goto(h, "consume")
  /\ UNCHANGED <<cmd, strm, sess, prompt, ev, answers, sessionVars, timeoutOn, fired,
                 view, pending, queue, stopReq, timedOut, future, turnVars, fileVars>>

NextPublished(h) ==
  /\ pc[h] = "publishNext"
  /\ Consume(h)
  /\ UNCHANGED <<cmd, sess, prompt, ev, answers, active, sessionVars, timeoutOn, fired,
                 objectVars, turnVars, fileVars>>

\* The consumer reduces an event into the view and publishes it; after a stop
\* any event counts as RunInterrupted.
Reduce(h, e, st, q) ==
  LET o == self[h] stopped == stopReq[o] IN
  /\ ev' = [ev EXCEPT ![h] = IF stopped THEN "terminal" ELSE e]
  /\ view' = [view EXCEPT ![o] = IF stopped THEN "interrupted" ELSE st]
  /\ pending' = [pending EXCEPT ![o] = IF stopped THEN None ELSE q]
  /\ Goto(h, "publishEvent")

\* Text, thinking, tool and usage events; a timed-out run swallows them.
ConsumeProgress(h) ==
  /\ pc[h] = "consume" /\ turn[strm[h]] = "running" /\ ~timedOut[self[h]]
  /\ Reduce(h, "progress", view[self[h]], pending[self[h]])
  /\ UNCHANGED <<cmd, self, strm, sess, prompt, answers, active, sessionVars, timeoutOn, fired,
                 run, queue, stopReq, timedOut, future, timer, turnVars, fileVars>>

\* UserInputRequested or ApprovalRequested.
ConsumeRequest(h, kind) ==
  /\ pc[h] = "consume" /\ turn[strm[h]] = "running" /\ asked[strm[h]] < MaxRequests
  /\ LET r == strm[h] q == [run |-> r, n |-> asked[r] + 1, kind |-> kind] IN
     /\ asked' = [asked EXCEPT ![r] = @ + 1]
     /\ unanswered' = unanswered \union {q}
     /\ IF timedOut[self[h]] THEN UNCHANGED <<pc, ev, view, pending>>
                             ELSE Reduce(h, kind, "pending", q)
  /\ UNCHANGED <<cmd, self, strm, sess, prompt, answers, active, sessionVars, timeoutOn, fired,
                 run, queue, stopReq, timedOut, future, timer,
                 turn, sent, usedSess, stopAsked, taken, fileVars>>

\* The terminal event of the turn.  A timed-out run swallows it and the stream
\* ends; a turn whose stream ends without one ("silent") takes the same path.
ConsumeTerminal(h, silent) ==
  /\ pc[h] = "consume" /\ turn[strm[h]] \in Terminal
  /\ silent => "silent" \in Faults
  /\ LET o == self[h] r == strm[h] IN
     /\ turn' = [turn EXCEPT ![r] = "closed"]
     /\ CASE timedOut[o] ->
               /\ view' = [view EXCEPT ![o] = "timed_out"]
               /\ pending' = [pending EXCEPT ![o] = None]
               /\ Goto(h, "publishEnd") /\ ScopeTimer(FALSE) /\ UNCHANGED ev
          [] ~timedOut[o] /\ silent /\ stopReq[o] ->
               /\ view' = [view EXCEPT ![o] = "interrupted"]
               /\ pending' = [pending EXCEPT ![o] = None]
               /\ Goto(h, "publishEnd") /\ ScopeTimer(FALSE) /\ UNCHANGED ev
          [] ~timedOut[o] /\ silent /\ ~stopReq[o] ->
               Goto(h, "failed") /\ ScopeTimer(FALSE) /\ UNCHANGED <<ev, view, pending>>
          [] OTHER -> Reduce(h, "terminal", turn[r], None) /\ UNCHANGED timer
  /\ UNCHANGED <<cmd, self, strm, sess, prompt, answers, active, sessionVars, timeoutOn, fired,
                 run, queue, stopReq, timedOut, future,
                 sent, usedSess, stopAsked, asked, unanswered, taken, fileVars>>

\* The view with the request is out: _open_pending_request, and the consumer
\* returns.  It raises when the request is gone from the view by now.
PauseForOwner(h) ==
  /\ pc[h] = "publishEvent" /\ ev[h] \in RequestKinds
  /\ ScopeTimer(FALSE)
  /\ LET q == pending[self[h]] IN
     IF q = None
       THEN Goto(h, "failed") /\ UNCHANGED <<self, stopReq, queue, stopAsked, record>>
       ELSE record' = [record EXCEPT ![q] = "open"] /\ AfterPause(h)
  /\ UNCHANGED <<cmd, strm, sess, prompt, ev, answers, active, sessionVars, timeoutOn, fired,
                 run, view, pending, timedOut, future,
                 turn, sent, usedSess, asked, unanswered, taken, nextRun, status, restarts>>

\* Any other view is out and the run goes on: the timer is armed again.
ContinueConsuming(h) ==
  /\ pc[h] = "publishEvent" /\ ev[h] \notin RequestKinds /\ view[self[h]] \notin Terminal
  /\ ScopeTimer(timeoutOn)
  /\ Goto(h, "consume")
  /\ UNCHANGED <<cmd, self, strm, sess, prompt, ev, answers, active, sessionVars, timeoutOn,
                 fired, run, view, pending, queue, stopReq, timedOut, future,
                 turnVars, fileVars>>

TerminalViewOut(h) ==
  pc[h] = "publishEvent" /\ ev[h] \notin RequestKinds /\ view[self[h]] \in Terminal

\* The terminal view is out and nothing is queued.
FinishRun(h) ==
  /\ TerminalViewOut(h) /\ queue[self[h]] = <<>>
  /\ FinishAndRelease(h, view[self[h]])
  /\ UNCHANGED <<cmd, self, strm, prompt, ev, answers, timeoutOn, fired,
                 run, view, pending, queue, stopReq, timedOut, turnVars, nextRun, restarts>>

\* What pop_next_merged_prompt leaves in a queue whose first k messages it merged
\* (mutation: it keeps the last of them).
RemainingOffByOne(q, k) == SubSeq(q, k, Len(q))
Remaining(q, k) == SubSeq(q, k + 1, Len(q))

\* _start_queued_next_turn: the first k queued messages, those within the merge
\* window of one another, become the prompt of the next turn.
StartQueuedTurn(h, k) ==
  /\ TerminalViewOut(h) /\ queue[self[h]] # <<>>
  /\ active # None /\ k \in 1 .. Len(queue[active])
  /\ prompt' = [prompt EXCEPT ![h] = SubSeq(queue[active], 1, k)]
  /\ queue' = [queue EXCEPT ![active] = Remaining(@, k)]
  /\ self' = [self EXCEPT ![h] = active]
  /\ ScopeTimer(FALSE)
  /\ RequestSession(h)
  /\ UNCHANGED <<cmd, strm, ev, answers, active, sessionVars, timeoutOn, fired,
                 run, view, pending, stopReq, timedOut, future, turnVars, fileVars>>

\* ... looked up in _active_runs again: the entry may be gone, or be another
\* ActiveRun with nothing queued, which is then finished with its own status.
StartQueuedTurnElsewhere(h) ==
  /\ TerminalViewOut(h) /\ queue[self[h]] # <<>>
  /\ active # None => queue[active] = <<>>
  /\ IF CanFinish
       THEN /\ Finish(view[active])
            /\ IF cmd[h] = "reset" /\ view[active] \notin Terminal
                 THEN Goto(h, "failed") /\ UNCHANGED <<sess, sessionVars>>
                 ELSE CallerResumes(h)
       ELSE /\ Goto(h, "failed") /\ ScopeTimer(FALSE)
            /\ UNCHANGED <<sess, sessionVars, record, status, active>>
  /\ UNCHANGED <<cmd, self, strm, prompt, ev, answers, timeoutOn, fired, run, view, pending,
                 queue, stopReq, timedOut, future, turnVars, nextRun, restarts>>

\* The view of a run whose stream ended is out.
FinishEndedRun(h) ==
  /\ pc[h] = "publishEnd"
  /\ FinishAndRelease(h, IF timedOut[self[h]] THEN "timed_out" ELSE "interrupted")
  /\ UNCHANGED <<cmd, self, strm, prompt, ev, answers, timeoutOn, fired,
                 run, view, pending, queue, stopReq, timedOut, turnVars, nextRun, restarts>>

\* The agent took an answer: _resolve_pending_request, which raises when the
\* view has no request any more or its record was never written.
AnswerDelivered(h) ==
  /\ pc[h] = "answer"
  /\ unanswered' = unanswered \ {answers[h]}
  /\ LET o == self[h] q == pending[o] IN
     IF q = None \/ record[q] = "none"
       THEN Goto(h, "failed") /\ UNCHANGED <<record, pending, view>>
       ELSE /\ record' = [record EXCEPT ![q] = "resolved"]
            /\ pending' = [pending EXCEPT ![o] = None]
            /\ view' = [view EXCEPT ![o] = "running"]
            /\ Goto(h, "publishResolved")
  /\ UNCHANGED <<cmd, self, strm, sess, prompt, ev, answers, active, sessionVars, timeoutOn,
                 fired, run, queue, stopReq, timedOut, future, timer,
                 turn, sent, usedSess, stopAsked, asked, taken, nextRun, status, restarts>>

ResolvedPublished(h) ==
  /\ pc[h] = "publishResolved"
  /\ ScopeTimer(timeoutOn)
  /\ Consume(h)
  /\ UNCHANGED <<cmd, sess, prompt, ev, answers, active, sessionVars, timeoutOn, fired,
                 run, view, pending, queue, stopReq, timedOut, future, turnVars, fileVars>>

\* turn_stream.stop() returns while the run was paused: no consumer will see
\* the end of the turn, so stop_run publishes and finishes the run itself.
PausedTurnStopped(h) ==
  /\ pc[h] = "stopPaused"
  /\ view' = [view EXCEPT ![self[h]] = "interrupted"]
  /\ pending' = [pending EXCEPT ![self[h]] = None]
  /\ Goto(h, "publishStop")
  /\ UNCHANGED <<cmd, self, strm, sess, prompt, ev, answers, active, sessionVars, timeoutOn,
                 fired, run, queue, stopReq, timedOut, future, timer, turnVars, fileVars>>

FinishStoppedRun(h) ==
  /\ pc[h] = "publishStop"
  /\ FinishAndRelease(h, "interrupted")
  /\ UNCHANGED <<cmd, self, strm, prompt, ev, answers, timeoutOn, fired,
                 run, view, pending, queue, stopReq, timedOut, turnVars, nextRun, restarts>>

\* turn_stream.stop() returns, or the awaited completion_future resolves (mutation:
\* the command goes on without awaiting the completion_future).
StopAcknowledgedAtOnce(h) ==
  /\ pc[h] = "stopTurn"
  /\ CallerResumes(h)
  /\ UNCHANGED <<cmd, self, strm, prompt, ev, answers, active, timeoutOn, fired,
                 objectVars, turnVars, fileVars>>
StopAcknowledged(h) ==
  /\ \/ pc[h] = "stopTurn"
     \/ pc[h] = "awaitCompletion" /\ future[self[h]]
  /\ IF future[self[h]] THEN CallerResumes(h)
                        ELSE Goto(h, "awaitCompletion") /\ UNCHANGED <<sess, sessionVars>>
  /\ UNCHANGED <<cmd, self, strm, prompt, ev, answers, active, timeoutOn, fired,
                 objectVars, turnVars, fileVars>>

\* create_session answers _create_selected_session.
SelectedSessionCreated(h) ==
  /\ pc[h] = "createSelected"
  /\ selected' = sess[h]
  /\ Goto(h, "done")
  /\ UNCHANGED <<cmd, self, strm, sess, prompt, ev, answers, active, fresh, workspace, epoch,
                 timeoutOn, fired, objectVars, turnVars, fileVars>>

-----------------------------------------------------------------------------
(* The agent, the idle timer, failing calls and the restart of the bridge. *)

\* The agent ends a turn.  It completes no turn while it waits for an answer,
\* and interrupts a turn only when it was asked to.
AgentTurnEnds(r, outcome) ==
  /\ turn[r] = "running"
  /\ outcome = "completed" => \A q \in unanswered : q.run # r
  /\ outcome = "interrupted" => stopAsked[r]
  /\ outcome # "timed_out"
  /\ turn' = [turn EXCEPT ![r] = outcome]
  /\ UNCHANGED <<handlerVars, active, sessionVars, timeoutOn, fired, objectVars,
                 sent, usedSess, stopAsked, asked, unanswered, taken, fileVars>>

\* call_later fires and creates the task that will run the callback; cancelling
\* the handle does not take that task back.
IdleTimerFires(o) ==
  /\ timer[o] /\ fired = 0
  /\ timer' = [timer EXCEPT ![o] = FALSE]
  /\ fired' = 1
  /\ UNCHANGED <<handlerVars, active, sessionVars, timeoutOn,
                 run, view, pending, queue, stopReq, timedOut, future, turnVars, fileVars>>

\* _handle_idle_timeout, for whatever run the scope has by then.
HandleIdleTimeout ==
  /\ fired = 1 /\ fired' = 0
  /\ IF active = None \/ timedOut[active] \/ Paused(active)
       THEN UNCHANGED <<timedOut, queue, stopAsked>>
       ELSE /\ timedOut' = [timedOut EXCEPT ![active] = TRUE]
            /\ queue' = [queue EXCEPT ![active] = <<>>]
            /\ stopAsked' = [stopAsked EXCEPT ![run[active]] = TRUE]
  /\ UNCHANGED <<handlerVars, active, sessionVars, timeoutOn,
                 run, view, pending, stopReq, future, timer,
                 turn, sent, usedSess, asked, unanswered, taken, fileVars>>

\* The kind of call a suspended handler waits for.
FaultOf(p) ==
  CASE p \in {"createSession", "getSession", "replaceSession", "createSelected"} -> "create"
    [] p \in {"startTurn", "restartTurn"} -> "start"
    [] p \in {"publishInitial", "publishNext", "publishEvent", "publishEnd",
              "publishResolved", "publishStop"} -> "publish"
    [] p \in {"stopPaused", "stopTurn"} -> "stop"
    [] p = "answer" -> "answer"
    [] p = "consume" -> "stream"
    [] OTHER -> "none"

\* The awaited call raises.  Nothing between it and the Feishu adapter catches
\* the exception, so the handler ends and leaves the state as it is.
CallFails(h) ==
  /\ FaultOf(pc[h]) \in Faults
  /\ Goto(h, "failed")
  /\ UNCHANGED <<cmd, self, strm, sess, prompt, ev, answers, active, sessionVars, timeoutOn,
                 fired, objectVars, turnVars, fileVars>>

\* recover_incomplete: what becomes of the status of a run (mutation: it does not
\* look at the status).
InterruptEveryRun(st) == IF st = "none" THEN "none" ELSE "interrupted"
Recovered(st) == IF st \in {"running", "pending"} THEN "interrupted" ELSE st

\* The process dies and starts again: recover_incomplete closes the records
\* that were left open, and everything in memory is gone.
Restart ==
  /\ restarts < MaxRestarts /\ restarts' = restarts + 1
  /\ status' = [r \in Runs |-> Recovered(status[r])]
  /\ record' = [q \in Requests |-> IF record[q] = "open" THEN "cancelled" ELSE record[q]]
  /\ pc' = [h \in Handlers |-> IF pc[h] = "idle" THEN "idle" ELSE "failed"]
  /\ active' = None /\ selected' = None /\ fresh' = FALSE /\ workspace' = Home
  /\ timeoutOn' = IdleDefault /\ fired' = 0
  /\ timer' = [h \in Handlers |-> FALSE]
  /\ queue' = [h \in Handlers |-> <<>>]
  /\ turn' = [r \in Runs |-> IF turn[r] = "none" THEN "none" ELSE "closed"]
  /\ UNCHANGED <<cmd, self, strm, sess, prompt, ev, answers, epoch, run, view, pending,
                 stopReq, timedOut, future, sent, usedSess, stopAsked, asked,
                 unanswered, taken, nextRun>>

-----------------------------------------------------------------------------
Input(h) ==
  \/ StartTextRun(h) \/ QueueMessage(h) \/ AskForDecision(h)
  \/ \E c \in {"text", "click"}, d \in Decisions : AnswerRequest(h, c, d)
  \/ \E q \in Requests : ClickStaleCard(h, q)
  \/ Stop(h) \/ Reset(h) \/ ClearSelectedSession(h) \/ ResumeSession(h)
  \/ \E w \in Workspaces : ChangeWorkspace(h, w)
  \/ \E on \in BOOLEAN : SetIdleTimeout(h, on)

\* What a handler does as soon as the call it waits for has returned.
Resumes(h) ==
  \/ SessionReady(h) \/ TurnStarts(h) \/ InitialPublished(h) \/ NextPublished(h)
  \/ \E silent \in BOOLEAN : ConsumeTerminal(h, silent)
  \/ PauseForOwner(h) \/ ContinueConsuming(h) \/ FinishRun(h)
  \/ \E k \in 1 .. Cardinality(Handlers) : StartQueuedTurn(h, k)
  \/ StartQueuedTurnElsewhere(h) \/ FinishEndedRun(h)
  \/ AnswerDelivered(h) \/ ResolvedPublished(h)
  \/ PausedTurnStopped(h) \/ FinishStoppedRun(h) \/ StopAcknowledged(h)
  \/ SelectedSessionCreated(h)

\* What the agent or the network may do to it.
Happens(h) ==
  \/ ThreadMissing(h) \/ ConsumeProgress(h) \/ CallFails(h)
  \/ \E kind \in RequestKinds : ConsumeRequest(h, kind)

Next ==
  \/ \E h \in Handlers : Input(h) \/ Resumes(h) \/ Happens(h) \/ IdleTimerFires(h)
  \/ \E r \in Runs, outcome \in Terminal : AgentTurnEnds(r, outcome)
  \/ HandleIdleTimeout
  \/ Restart

Spec == Init /\ [][Next]_vars

\* The loop runs every handler whose call has returned, the calls return, and a
\* turn the agent was asked to stop ends.  No turn need end by itself.
StoppedTurnEnds(r) == stopAsked[r] /\ \E outcome \in Terminal : AgentTurnEnds(r, outcome)
FairSpec ==
  /\ Spec
  /\ \A h \in Handlers : WF_vars(Resumes(h))
  /\ WF_vars(HandleIdleTimeout)
  /\ \A r \in Runs : WF_vars(StoppedTurnEnds(r))

=============================================================================
