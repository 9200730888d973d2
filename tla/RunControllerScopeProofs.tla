---------------------- MODULE RunControllerScopeProofs ----------------------
(***************************************************************************)
(* Theorems about the scope's run when everything overlaps: for every set  *)
(* of handlers and workspaces, every bound, both agents, every fault, any  *)
(* number of restarts and with or without the owner's discipline, a scope  *)
(* is stuck with a run only after a handler of that run has raised, and a  *)
(* command that stopped a run goes on only when the scope has left it.     *)
(*                                                                         *)
(* StuckScopeRaised says nothing of a scope where something is in progress.*)
(* The invariant does: as long as the scope has a run, a handler works on  *)
(* it, or one has raised, or it waits for the owner (ScopeHeld).  What may *)
(* break this is an answer that another handler gives to the run's request.*)
(* So requests are numbered and each is on one card (RequestsApart), an    *)
(* answer on its way holds the ActiveRun that shows its request            *)
(* (AnswersHold), and a request that is shown but answered has cost its    *)
(* handler an exception (AnsweredRaised).                                  *)
(***************************************************************************)
EXTENDS RunControllerProofs

\* A handler that carries an ActiveRun on: it starts the next turn, consumes,
\* publishes, answers or ends the run.
Working == {"publishNext", "consume", "publishEvent", "publishEnd", "answer", "publishResolved",
            "stopPaused", "publishStop"}
Works(h) == pc[h] \in Working \/ (InFlight(h) /\ self[h] # None)

\* It does, or it has raised on the way.
Stays(h) == Works(h) \/ pc[h] = "failed"

\* The agent has asked what is shown and what is answered, and shows each once.
RequestsApart ==
  /\ \A o \in Handlers : Paused(o) => pending[o].n <= asked[pending[o].run]
  /\ \A h \in Handlers : answers[h] # None => answers[h].n <= asked[answers[h].run]
  /\ \A o, p \in Handlers : Paused(o) /\ pending[o] = pending[p] => o = p

\* An answer on its way holds the ActiveRun that shows its request, if any does.
AnswersHold ==
  \A h \in Handlers : pc[h] = "answer" =>
    answers[h] # None /\ \A o \in Handlers : pending[o] = answers[h] => self[h] = o

\* A request that is shown but was answered has cost a handler of its run an exception.
AnsweredRaised ==
  \A o \in Handlers : Paused(o) /\ pending[o] \notin unanswered =>
    \E g \in Handlers : pc[g] = "failed" /\ self[g] = o

\* The scope's run is held, or waits for the owner.
ScopeHeld ==
  active # None => AwaitsOwner(active) \/ \E h \in Handlers : Stays(h) /\ self[h] = active

\* An ActiveRun that is not made yet is held by nobody and has released nobody; one
\* that has released its waiters is not the scope's.
ReleasedLeft ==
  /\ \A o \in Handlers : self[o] = None => ~future[o] /\ \A g \in Handlers : self[g] # o
  /\ \A o \in Handlers : future[o] => active # o

ScopeInv == RequestsApart /\ AnswersHold /\ AnsweredRaised /\ ScopeHeld /\ ReleasedLeft

-----------------------------------------------------------------------------
(* What the step of a handler does.                                        *)

\* It touches no other handler, and no ActiveRun but the one it holds.
Moves(h) ==
  /\ pc[h] \notin Ended
  /\ \A g \in Handlers \ {h} : pc'[g] = pc[g] /\ self'[g] = self[g] /\ answers'[g] = answers[g]
  /\ self'[h] = self[h] \/ (active # None /\ self'[h] = active)
  /\ active' \in {active, None}
  /\ \A o \in Handlers : o # self[h] => pending'[o] = pending[o] /\ future'[o] = future[o]
  /\ future' = future \/ active' = None

\* It answers the scope's request; otherwise what it has to answer is as before.
Answers(h) ==
  IF pc'[h] = "answer"
    THEN /\ active # None /\ Paused(active) /\ UNCHANGED <<pending, asked>>
         /\ answers'[h] = pending[active] /\ self'[h] = active
    ELSE answers'[h] = answers[h]

\* A change of the request its ActiveRun shows keeps it at work: it takes the
\* request away, or shows a new one the agent waits on.
Shows(h) ==
  /\ \A r \in Runs : asked[r] <= asked'[r]
  /\ \A o \in Handlers : pending'[o] # pending[o] =>
       /\ Stays(h)' /\ self'[h] = o
       /\ pending'[o] = None \/ LET q == pending'[o] IN
            q \in unanswered' /\ asked[q.run] < q.n /\ q.n <= asked'[q.run]

\* It delivers its answer, and then its run shows no request or it has raised.
Delivers(h) ==
  \A q \in unanswered : q \notin unanswered' =>
    /\ pc[h] = "answer" /\ q = answers[h] /\ self'[h] = self[h]
    /\ pc'[h] = "failed" \/ pending'[self[h]] = None

\* It closes no request of the scope's run and does not leave that run, but for a
\* request in the files.
Holds(h) ==
  active' # None =>
    /\ \A q \in Requests : record[q] = "open" /\ record'[q] # "open" =>
         Stays(h)' /\ self[h] # None /\ self'[h] = self[h] /\ q = pending[self[h]]
    /\ Stays(h) /\ self[h] = active =>
         \/ Stays(h)' /\ self'[h] = active
         \/ Paused(active)' /\ record'[pending'[active]] = "open"

Acts(h) == Moves(h) /\ Answers(h) /\ Shows(h) /\ Delivers(h) /\ Holds(h)

-----------------------------------------------------------------------------
(* Such a step keeps the invariant.                                        *)

LEMMA ActsKeepsRequests ==
  ASSUME TypeOK, TypeOK', RequestsApart, NEW h \in Handlers, Moves(h), Answers(h), Shows(h)
  PROVE  RequestsApart'
<1>1. ASSUME NEW q \in Requests, q.n <= asked[q.run] PROVE q.n <= asked'[q.run]
  <2>1. q.run \in Runs /\ q.n \in Nat
    BY ConstantsAssumption DEF Requests
  <2>2. asked[q.run] \in Nat /\ asked'[q.run] \in Nat /\ asked[q.run] <= asked'[q.run]
    BY <2>1, ConstantsAssumption DEF TypeOK, TurnsTypeOK, Shows
  <2> QED BY <1>1, <2>1, <2>2
<1>2. ASSUME NEW o \in Handlers, pending'[o] # None
      PROVE  /\ pending'[o] \in Requests
             /\ \/ pending'[o] = pending[o] /\ pending[o].n <= asked[pending[o].run]
                \/ asked[pending'[o].run] < pending'[o].n /\ pending'[o].n <= asked'[pending'[o].run] /\ o = self'[h]
  BY <1>2 DEF RequestsApart, Shows, Paused, TypeOK, ObjectsTypeOK
<1>3. \A o \in Handlers : pending'[o] # None => pending'[o].n <= asked'[pending'[o].run]
  BY <1>1, <1>2
<1>4. ASSUME NEW g \in Handlers, answers'[g] # None PROVE answers'[g].n <= asked'[answers'[g].run]
  <2>1. answers'[g] = answers[g] \/ (active # None /\ Paused(active) /\ answers'[g] = pending[active])
    BY DEF Moves, Answers
  <2>2. answers'[g] \in Requests
    BY <1>4 DEF TypeOK, HandlersTypeOK
  <2>3. answers'[g].n <= asked[answers'[g].run]
    BY <1>4, <2>1 DEF RequestsApart, TypeOK, ScopeTypeOK
  <2> QED BY <1>1, <2>2, <2>3
<1>5. ASSUME NEW o \in Handlers, NEW p \in Handlers, pending'[o] # None, pending'[o] = pending'[p] PROVE o = p
  <2>1. pending'[o].run \in Runs /\ pending'[o].n \in Nat /\ asked[pending'[o].run] \in Nat
    BY <1>2, <1>5, ConstantsAssumption DEF Requests, TypeOK, TurnsTypeOK
  <2> QED BY <1>2, <1>5, <2>1 DEF RequestsApart, Paused
<1> QED BY <1>3, <1>4, <1>5 DEF RequestsApart, Paused

LEMMA ActsKeepsAnswers ==
  ASSUME TypeOK, TypeOK', RequestsApart, AnswersHold, NEW h \in Handlers, Moves(h), Answers(h), Shows(h)
  PROVE  AnswersHold'
<1> SUFFICES ASSUME NEW g \in Handlers, pc'[g] = "answer"
             PROVE  answers'[g] # None /\ \A o \in Handlers : pending'[o] = answers'[g] => self'[g] = o
  BY DEF AnswersHold
<1>1. CASE g = h
  BY <1>1 DEF Answers, RequestsApart, Paused, TypeOK, ScopeTypeOK
<1>2. CASE g # h
  <2>1. pc[g] = "answer" /\ answers'[g] = answers[g] /\ self'[g] = self[g] /\ answers[g] # None
    BY <1>2 DEF Moves, AnswersHold
  <2>2. ASSUME NEW o \in Handlers, pending'[o] = answers[g] PROVE pending[o] = answers[g]
    <3>1. answers[g] \in Requests /\ answers[g].n <= asked[answers[g].run]
      BY <2>1 DEF RequestsApart, TypeOK, HandlersTypeOK
    <3>2. answers[g].n \in Nat /\ asked[answers[g].run] \in Nat
      BY <3>1, ConstantsAssumption DEF Requests, TypeOK, TurnsTypeOK
    <3> QED BY <2>1, <2>2, <3>1, <3>2 DEF Shows
  <2> QED BY <2>1, <2>2 DEF AnswersHold
<1> QED BY <1>1, <1>2

LEMMA ActsKeepsRaised ==
  ASSUME TypeOK, TypeOK', AnswersHold, AnsweredRaised, NEW h \in Handlers, Moves(h), Shows(h), Delivers(h)
  PROVE  AnsweredRaised'
<1> SUFFICES ASSUME NEW o \in Handlers, pending'[o] # None, pending'[o] \notin unanswered'
             PROVE  \E g \in Handlers : pc'[g] = "failed" /\ self'[g] = o
  BY DEF AnsweredRaised, Paused
<1>1. pending'[o] = pending[o]
  BY DEF Shows
<1>2. CASE pending[o] \notin unanswered
  <2>1. PICK g \in Handlers : pc[g] = "failed" /\ self[g] = o
    BY <1>1, <1>2 DEF AnsweredRaised, Paused
  <2> QED BY <2>1 DEF Moves, Ended
<1>3. CASE pending[o] \in unanswered
  <2>1. pc[h] = "answer" /\ pending[o] = answers[h] /\ self'[h] = self[h] /\ (pc'[h] = "failed" \/ pending'[self[h]] = None)
    BY <1>1, <1>3 DEF Delivers
  <2>2. self[h] = o
    BY <2>1 DEF AnswersHold
  <2> QED BY <2>1, <2>2
<1> QED BY <1>2, <1>3

LEMMA ActsKeepsScope ==
  ASSUME TypeOK, TypeOK', RequestsApart, AnsweredRaised', ScopeHeld, NEW h \in Handlers,
         Moves(h), Shows(h), Holds(h)
  PROVE  ScopeHeld'
<1> SUFFICES ASSUME active' # None
             PROVE  AwaitsOwner(active)' \/ \E g \in Handlers : Stays(g)' /\ self'[g] = active'
  BY DEF ScopeHeld
<1>1. active' = active /\ active \in Handlers
  BY DEF Moves, TypeOK, ScopeTypeOK
<1>2. CASE Paused(active)' /\ record'[pending'[active]] = "open"
  <2>1. pending'[active] \notin unanswered' => \E g \in Handlers : Stays(g)' /\ self'[g] = active
    BY <1>1, <1>2 DEF AnsweredRaised, Paused, Stays
  <2> QED BY <1>1, <1>2, <2>1 DEF AwaitsOwner
<1>3. CASE Stays(h)' /\ self'[h] = active
  BY <1>1, <1>3
<1>4. ASSUME NEW g \in Handlers, Stays(g), self[g] = active
      PROVE  \/ \E f \in Handlers : Stays(f)' /\ self'[f] = active
             \/ Paused(active)' /\ record'[pending'[active]] = "open"
  <2>1. CASE g = h
    BY <1>4, <2>1 DEF Holds
  <2>2. CASE g # h
    BY <1>4, <2>2 DEF Moves, Stays, Works, InFlight
  <2> QED BY <2>1, <2>2
<1>5. ASSUME AwaitsOwner(active), ~(Stays(h)' /\ self'[h] = active) PROVE Paused(active)' /\ record'[pending'[active]] = "open"
  <2>1. pending'[active] = pending[active]
    BY <1>1, <1>5 DEF Shows
  <2>2. pending[active] \in Requests
    BY <1>1, <1>5 DEF AwaitsOwner, Paused, TypeOK, ObjectsTypeOK
  <2>3. pending[active] = pending[self[h]] /\ self[h] \in Handlers => self[h] = active
    BY <1>1, <1>5 DEF AwaitsOwner, RequestsApart, Paused
  <2>4. record'[pending[active]] = "open"
    <3>1. SUFFICES ASSUME record'[pending[active]] # "open" PROVE FALSE
      OBVIOUS
    <3>2. Stays(h)' /\ self[h] # None /\ self'[h] = self[h] /\ pending[active] = pending[self[h]]
      BY <1>5, <2>2, <3>1 DEF Holds, AwaitsOwner
    <3>3. self[h] \in Handlers
      BY <3>2 DEF TypeOK, HandlersTypeOK
    <3> QED BY <1>5, <2>3, <3>2, <3>3
  <2> QED BY <1>1, <1>5, <2>1, <2>4 DEF AwaitsOwner, Paused
<1> QED BY <1>1, <1>2, <1>3, <1>4, <1>5 DEF ScopeHeld

LEMMA ActsKeepsReleased ==
  ASSUME TypeOK, NewObjectsEmpty, ReleasedLeft, NEW h \in Handlers, Moves(h)
  PROVE  ReleasedLeft'
<1>1. ASSUME NEW o \in Handlers, self'[o] = None PROVE ~future'[o] /\ \A g \in Handlers : self'[g] # o
  <2>1. self[o] = None
    BY <1>1 DEF Moves
  <2>2. o # self[h] /\ o # active /\ ~future[o] /\ \A g \in Handlers : self[g] # o
    BY <2>1 DEF ReleasedLeft, NewObjectsEmpty
  <2> QED BY <2>2 DEF Moves
<1>2. ASSUME NEW o \in Handlers, future'[o] PROVE active' # o
  BY <1>2, ConstantsAssumption DEF Moves, ReleasedLeft
<1> QED BY <1>1, <1>2 DEF ReleasedLeft

LEMMA ActsKeeps ==
  ASSUME TypeOK, TypeOK', NewObjectsEmpty, ScopeInv, NEW h \in Handlers, Acts(h)
  PROVE  ScopeInv'
BY ActsKeepsRequests, ActsKeepsAnswers, ActsKeepsRaised, ActsKeepsScope, ActsKeepsReleased DEF Acts, ScopeInv

-----------------------------------------------------------------------------
(* Kinds of steps.                                                         *)

\* A step that leaves every request alone, and the scope's run as it is held.
LEMMA QuietActs ==
  ASSUME TypeOK, NEW h \in Handlers, pc[h] \notin Ended, NEW p, p # "answer", Goto(h, p),
         self' = self \/ (active # None /\ self' = [self EXCEPT ![h] = active]),
         UNCHANGED <<active, pending, future, asked, answers, record, unanswered>>,
         Stays(h) /\ self[h] = active => Stays(h)' /\ self'[h] = active
  PROVE  Acts(h)
<1>1. pc'[h] = p /\ \A g \in Handlers \ {h} : pc'[g] = pc[g] /\ self'[g] = self[g]
  BY DEF Goto, TypeOK, HandlersTypeOK
<1>2. self'[h] = self[h] \/ (active # None /\ self'[h] = active)
  BY DEF TypeOK, HandlersTypeOK
<1>3. Moves(h) /\ Answers(h)
  BY <1>1, <1>2 DEF Moves, Answers
<1>4. \A r \in Runs : asked[r] <= asked'[r]
  BY ConstantsAssumption DEF TypeOK, TurnsTypeOK
<1>5. Shows(h) /\ Delivers(h) /\ Holds(h)
  BY <1>4 DEF Shows, Delivers, Holds
<1> QED BY <1>3, <1>5 DEF Acts

\* The step of a worker that takes the request of its ActiveRun away, or changes
\* nothing of it, and goes on.
LEMMA WorkerActs ==
  ASSUME TypeOK, NEW h \in Handlers, pc[h] \notin Ended, NEW p, p \in Working \union {"failed"}, p # "answer",
         Goto(h, p), self[h] \in Handlers,
         pending' = pending \/ pending' = [pending EXCEPT ![self[h]] = None],
         UNCHANGED <<self, active, future, asked, answers, record, unanswered>>
  PROVE  Acts(h)
<1>1. pc'[h] = p /\ (\A g \in Handlers \ {h} : pc'[g] = pc[g]) /\ Stays(h)'
  BY DEF Goto, TypeOK, HandlersTypeOK, Stays, Works
<1>2. \A o \in Handlers : pending'[o] = pending[o] \/ (o = self[h] /\ pending'[o] = None)
  BY DEF TypeOK, ObjectsTypeOK
<1>3. Moves(h) /\ Answers(h)
  BY <1>1, <1>2 DEF Moves, Answers
<1>4. \A r \in Runs : asked[r] <= asked'[r]
  BY ConstantsAssumption DEF TypeOK, TurnsTypeOK
<1>5. Shows(h) /\ Delivers(h) /\ Holds(h)
  BY <1>1, <1>2, <1>4 DEF Shows, Delivers, Holds
<1> QED BY <1>3, <1>5 DEF Acts

\* A step that frees the scope.
LEMMA FreeingActs ==
  ASSUME TypeOK, NEW h \in Handlers, pc[h] \notin Ended, pc'[h] # "answer",
         \A g \in Handlers \ {h} : pc'[g] = pc[g],
         UNCHANGED <<self, pending, asked, answers, unanswered>>,
         future' = future \/ (self[h] \in Handlers /\ future' = [future EXCEPT ![self[h]] = TRUE]),
         active' = None
  PROVE  Acts(h)
<1>1. \A o \in Handlers : o # self[h] => future'[o] = future[o]
  BY DEF TypeOK, ObjectsTypeOK
<1>2. Moves(h) /\ Answers(h)
  BY <1>1 DEF Moves, Answers
<1>3. \A r \in Runs : asked[r] <= asked'[r]
  BY ConstantsAssumption DEF TypeOK, TurnsTypeOK
<1>4. Shows(h) /\ Delivers(h) /\ Holds(h)
  BY <1>3 DEF Shows, Delivers, Holds
<1> QED BY <1>2, <1>4 DEF Acts

\* An idle handler works on nothing.
LEMMA IdleIsFree == ASSUME NEW h \in Handlers, pc[h] = "idle" PROVE ~Stays(h) /\ pc[h] \notin Ended
BY DEF Stays, Works, Working, InFlight, StartPcs, Ended

\* A worker holds an ActiveRun and has not ended.
LEMMA WorkersHold ==
  ASSUME TypeOK, HandlersHoldRuns, NEW h \in Handlers, Works(h)
  PROVE  self[h] \in Handlers /\ pc[h] \notin Ended \union {"idle"}
BY DEF Works, Working, InFlight, StartPcs, Ended, HandlersHoldRuns, HoldsRun, TypeOK, HandlersTypeOK

-----------------------------------------------------------------------------
(* The owner's inputs.                                                     *)

\* stop_run up to the agent's reply; a paused run is ended by its handler itself.
LEMMA StopRunActs ==
  ASSUME TypeOK, NEW h \in Handlers, pc[h] \notin Ended, StopRun(h),
         UNCHANGED <<active, pending, future, asked, answers, record, unanswered>>,
         Stays(h) /\ self[h] = active => Paused(active)
  PROVE  Acts(h)
<1>1. CASE active = None
  <2>1. Goto(h, "failed") /\ self' = self /\ pc'[h] = "failed"
    BY <1>1 DEF StopRun, Goto, TypeOK, HandlersTypeOK
  <2> QED BY <2>1, QuietActs DEF Stays
<1>2. CASE active # None /\ Paused(active)
  <2>1. Goto(h, "stopPaused") /\ self' = [self EXCEPT ![h] = active] /\ pc'[h] = "stopPaused" /\ self'[h] = active
    BY <1>2 DEF StopRun, Goto, TypeOK, HandlersTypeOK
  <2> QED BY <1>2, <2>1, QuietActs DEF Stays, Works, Working
<1>3. CASE active # None /\ ~Paused(active)
  <2>1. Goto(h, "stopTurn") /\ self' = [self EXCEPT ![h] = active]
    BY <1>3 DEF StopRun
  <2> QED BY <1>3, <2>1, QuietActs
<1> QED BY <1>1, <1>2, <1>3

\* An answer goes to the agent, or is refused.
LEMMA SendAnswerActs ==
  ASSUME TypeOK, NEW h \in Handlers, pc[h] = "idle", active # None, Paused(active),
         NEW d, SendAnswer(h, pending[active], d),
         UNCHANGED <<active, pending, future, asked, record, unanswered>>
  PROVE  Acts(h)
<1>1. CASE Goto(h, "failed") /\ UNCHANGED <<self, answers>>
  BY <1>1, IdleIsFree, QuietActs
<1>2. CASE /\ Goto(h, "answer")
           /\ self' = [self EXCEPT ![h] = active]
           /\ answers' = [answers EXCEPT ![h] = pending[active]]
  <2>1. /\ pc'[h] = "answer" /\ self'[h] = active /\ answers'[h] = pending[active]
        /\ \A g \in Handlers \ {h} : pc'[g] = pc[g] /\ self'[g] = self[g] /\ answers'[g] = answers[g]
    BY <1>2 DEF Goto, TypeOK, HandlersTypeOK
  <2>2. Moves(h) /\ Answers(h)
    BY <2>1, IdleIsFree DEF Moves, Answers
  <2>3. \A r \in Runs : asked[r] <= asked'[r]
    BY ConstantsAssumption DEF TypeOK, TurnsTypeOK
  <2>4. Shows(h) /\ Delivers(h) /\ Holds(h)
    BY <2>3, IdleIsFree DEF Shows, Delivers, Holds
  <2> QED BY <2>2, <2>4 DEF Acts
<1> QED BY <1>1, <1>2 DEF SendAnswer

LEMMA InputsAct ==
  ASSUME TypeOK, NEW h \in Handlers, Input(h)
  PROVE  Acts(h)
<1>1. pc[h] = "idle" /\ ~Stays(h) /\ pc[h] \notin Ended
  <2>1. pc[h] = "idle"
    BY DEF Input, StartTextRun, QueueMessage, AskForDecision, AnswerRequest, ClickStaleCard, Stop, Reset,
           ChangeWorkspace, ClearSelectedSession, ResumeSession, SetIdleTimeout, Arrives
  <2> QED BY <2>1, IdleIsFree
<1>2. ASSUME StartTextRun(h) PROVE Acts(h)
  <2>1. PICK p \in {"createSession", "startTurn", "getSession"} : Goto(h, p)
    BY <1>2 DEF StartTextRun, RequestSession
  <2>2. UNCHANGED <<self, active, pending, future, asked, answers, record, unanswered>>
    BY <1>2 DEF StartTextRun, objectVars, turnVars, fileVars
  <2> QED BY <1>1, <2>1, <2>2, QuietActs
<1>3. ASSUME QueueMessage(h) PROVE Acts(h)
  BY <1>1, <1>3, QuietActs DEF QueueMessage, turnVars, fileVars
<1>4. ASSUME AskForDecision(h) PROVE Acts(h)
  BY <1>1, <1>4, QuietActs DEF AskForDecision, objectVars, turnVars, fileVars
<1>5. ASSUME NEW c \in {"text", "click"}, NEW d \in Decisions, AnswerRequest(h, c, d) PROVE Acts(h)
  BY <1>1, <1>5, SendAnswerActs DEF AnswerRequest, objectVars, fileVars
<1>6. ASSUME NEW q \in Requests, ClickStaleCard(h, q) PROVE Acts(h)
  BY <1>1, <1>6, QuietActs DEF ClickStaleCard, objectVars, turnVars, fileVars
<1>7. ASSUME Stop(h) PROVE Acts(h)
  BY <1>1, <1>7, StopRunActs DEF Stop, fileVars
<1>8. ASSUME Reset(h) PROVE Acts(h)
  <2>1. UNCHANGED <<active, pending, future, asked, record, unanswered>>
    BY <1>8 DEF Reset, fileVars
  <2>2. CASE ClearAndCreate(h, workspace) /\ UNCHANGED <<self, answers>>
    BY <1>1, <2>1, <2>2, QuietActs DEF ClearAndCreate
  <2>3. CASE active # None /\ Paused(active) /\ SendAnswer(h, pending[active], "cancel")
    BY <1>1, <2>1, <2>3, SendAnswerActs
  <2>4. CASE StopRun(h) /\ UNCHANGED answers
    BY <1>1, <2>1, <2>4, StopRunActs
  <2> QED BY <1>8, <2>2, <2>3, <2>4 DEF Reset
<1>9. ASSUME NEW w \in Workspaces, ChangeWorkspace(h, w) PROVE Acts(h)
  <2>1. UNCHANGED <<active, pending, future, asked, answers, record, unanswered>>
    BY <1>9 DEF ChangeWorkspace, fileVars
  <2>2. CASE ClearAndCreate(h, w) /\ UNCHANGED self
    BY <1>1, <2>1, <2>2, QuietActs DEF ClearAndCreate
  <2>3. CASE StopRun(h)
    BY <1>1, <2>1, <2>3, StopRunActs
  <2> QED BY <1>9, <2>2, <2>3 DEF ChangeWorkspace
<1>10. ASSUME ClearSelectedSession(h) PROVE Acts(h)
  BY <1>1, <1>10, QuietActs DEF ClearSelectedSession, objectVars, turnVars, fileVars
<1>11. ASSUME ResumeSession(h) PROVE Acts(h)
  BY <1>1, <1>11, QuietActs DEF ResumeSession, objectVars, turnVars, fileVars
<1>12. ASSUME NEW on \in BOOLEAN, SetIdleTimeout(h, on) PROVE Acts(h)
  BY <1>1, <1>12, QuietActs DEF SetIdleTimeout, turnVars, fileVars
<1> QED BY <1>2, <1>3, <1>4, <1>5, <1>6, <1>7, <1>8, <1>9, <1>10, <1>11, <1>12 DEF Input

-----------------------------------------------------------------------------
(* What follows the replies of the agent and of the Run View sink.         *)

LEMMA StartsAct ==
  ASSUME TypeOK, HandlersHoldRuns, NEW h \in Handlers, SessionReady(h) \/ ThreadMissing(h) \/ TurnStarts(h)
  PROVE  Acts(h)
<1>1. pc[h] \notin Ended /\ InFlight(h)
  BY DEF SessionReady, ThreadMissing, TurnStarts, InFlight, StartPcs, Ended
<1>2. ASSUME NEW p \in {"startTurn", "restartTurn", "replaceSession"}, Goto(h, p),
             UNCHANGED <<self, active, pending, future, asked, answers, record, unanswered>>
      PROVE  Acts(h)
  <2>1. Stays(h) /\ self[h] = active => Stays(h)' /\ self'[h] = active
    BY <1>1, <1>2 DEF Stays, Works, Working, InFlight, StartPcs, Goto, TypeOK, HandlersTypeOK, Ended
  <2> QED BY <1>1, <1>2, <2>1, QuietActs
<1>3. ASSUME SessionReady(h) PROVE Acts(h)
  BY <1>2, <1>3 DEF SessionReady, objectVars, turnVars, fileVars
<1>4. ASSUME ThreadMissing(h) PROVE Acts(h)
  BY <1>2, <1>4 DEF ThreadMissing, objectVars, turnVars, fileVars
<1>5. ASSUME TurnStarts(h) PROVE Acts(h)
  <2>1. UNCHANGED <<self, active, future, asked, answers, record, unanswered>>
    BY <1>5 DEF TurnStarts, objectVars
  <2>2. CASE self[h] = None
    <3>1. Goto(h, "publishInitial") /\ UNCHANGED pending
      BY <1>5, <2>2 DEF TurnStarts, objectVars
    <3>2. ~Stays(h)
      BY <1>1, <2>2 DEF Stays, Works, Working, InFlight, StartPcs, Ended
    <3> QED BY <1>1, <2>1, <3>1, <3>2, QuietActs
  <2>3. CASE self[h] # None
    <3>1. Goto(h, "publishNext") /\ pending' = [pending EXCEPT ![self[h]] = None]
      BY <1>5, <2>3 DEF TurnStarts
    <3>2. self[h] \in Handlers
      BY <2>3 DEF TypeOK, HandlersTypeOK
    <3> QED BY <1>1, <2>1, <3>1, <3>2, WorkerActs DEF Working
  <2> QED BY <2>2, <2>3
<1> QED BY <1>3, <1>4, <1>5

\* A handler that goes on to consume the stream of the scope's run.
LEMMA ConsumeActs ==
  ASSUME TypeOK, NEW h \in Handlers, pc[h] \notin Ended, Consume(h),
         UNCHANGED <<active, pending, future, asked, answers, record, unanswered>>
  PROVE  Acts(h)
<1>1. CASE active = None
  <2>1. Goto(h, "failed") /\ self' = self /\ pc'[h] = "failed"
    BY <1>1 DEF Consume, Goto, TypeOK, HandlersTypeOK
  <2> QED BY <2>1, QuietActs DEF Stays
<1>2. CASE active # None
  <2>1. Goto(h, "consume") /\ self' = [self EXCEPT ![h] = active] /\ pc'[h] = "consume" /\ self'[h] = active
    BY <1>2 DEF Consume, Goto, TypeOK, HandlersTypeOK
  <2> QED BY <1>2, <2>1, QuietActs DEF Stays, Works, Working
<1> QED BY <1>1, <1>2

LEMMA ConsumersAct ==
  ASSUME TypeOK, HandlersHoldRuns, NEW h \in Handlers,
         \/ NextPublished(h) \/ ResolvedPublished(h) \/ ConsumeProgress(h) \/ ContinueConsuming(h)
         \/ \E silent \in BOOLEAN : ConsumeTerminal(h, silent)
  PROVE  Acts(h)
<1> DEFINE o == self[h]
<1>1. pc[h] \in Working
  BY DEF NextPublished, ResolvedPublished, ConsumeProgress, ContinueConsuming, ConsumeTerminal, Working
<1>2. o \in Handlers /\ pc[h] \notin Ended
  BY <1>1, WorkersHold DEF Works
<1>3. {"consume", "publishEvent", "publishEnd"} \subseteq Working
  BY DEF Working
<1> DEFINE Same == UNCHANGED <<active, future, asked, answers, record, unanswered>>
<1>4. ASSUME NextPublished(h) \/ ResolvedPublished(h) PROVE Acts(h)
  <2>1. Consume(h) /\ Same /\ UNCHANGED pending
    BY <1>4 DEF NextPublished, ResolvedPublished, objectVars, turnVars, fileVars
  <2> QED BY <1>2, <2>1, ConsumeActs
<1>5. ASSUME ContinueConsuming(h) PROVE Acts(h)
  <2>1. Goto(h, "consume") /\ Same /\ UNCHANGED <<pending, self>>
    BY <1>5 DEF ContinueConsuming, turnVars, fileVars
  <2> QED BY <1>2, <1>3, <2>1, WorkerActs
<1>6. ASSUME NEW e, NEW st, NEW q, Reduce(h, e, st, q), Same, UNCHANGED self, q \in {None, pending[o]}
      PROVE  Acts(h)
  <2>1. Goto(h, "publishEvent")
    BY <1>6 DEF Reduce
  <2>2. pending' = [pending EXCEPT ![o] = IF stopReq[o] THEN None ELSE q]
    BY <1>6 DEF Reduce
  <2>3. pending' = pending \/ pending' = [pending EXCEPT ![o] = None]
    <3>1. CASE stopReq[o] \/ q = None
      BY <2>2, <3>1
    <3>2. CASE ~stopReq[o] /\ q = pending[o]
      <4>1. pending' = [pending EXCEPT ![o] = pending[o]]
        BY <2>2, <3>2
      <4> QED BY <4>1 DEF TypeOK, ObjectsTypeOK
    <3> QED BY <1>6, <3>1, <3>2
  <2> QED BY <1>2, <1>3, <1>6, <2>1, <2>3, WorkerActs
<1>7. ASSUME ConsumeProgress(h) PROVE Acts(h)
  BY <1>6, <1>7 DEF ConsumeProgress, turnVars, fileVars
<1>8. ASSUME NEW silent \in BOOLEAN, ConsumeTerminal(h, silent) PROVE Acts(h)
  <2>1. Same /\ UNCHANGED self
    BY <1>8 DEF ConsumeTerminal, fileVars
  <2>2. CASE Goto(h, "publishEnd") /\ pending' = [pending EXCEPT ![o] = None]
    BY <1>2, <1>3, <2>1, <2>2, WorkerActs
  <2>3. CASE Goto(h, "failed") /\ UNCHANGED pending
    BY <1>2, <2>1, <2>3, WorkerActs
  <2>4. CASE \E st : Reduce(h, "terminal", st, None)
    BY <1>6, <2>1, <2>4
  <2>5. CASE timedOut[o]
    BY <1>8, <2>2, <2>5 DEF ConsumeTerminal
  <2>6. CASE ~timedOut[o] /\ silent
    BY <1>8, <2>2, <2>3, <2>6 DEF ConsumeTerminal
  <2>7. CASE ~timedOut[o] /\ ~silent
    BY <1>8, <2>4, <2>7 DEF ConsumeTerminal
  <2> QED BY <2>5, <2>6, <2>7
<1> QED BY <1>4, <1>5, <1>7, <1>8

\* The agent asks for something: the view shows it, unless the run is over.
LEMMA ConsumeRequestActs ==
  ASSUME TypeOK, TypeOK', HandlersHoldRuns, NEW h \in Handlers, NEW kind \in RequestKinds, ConsumeRequest(h, kind)
  PROVE  Acts(h)
<1> DEFINE o == self[h]
           r == strm[h]
           q == [run |-> r, n |-> asked[r] + 1, kind |-> kind]
<1>1. pc[h] = "consume" /\ asked[r] < MaxRequests
      /\ UNCHANGED <<self, active, future, answers, record>>
  BY DEF ConsumeRequest, fileVars
<1>2. o \in Handlers /\ pc[h] \notin Ended /\ r \in Runs
  BY <1>1, WorkersHold DEF Works, Working, HandlersHoldRuns, TypeOK, HandlersTypeOK, Runs
<1>3. asked' = [asked EXCEPT ![r] = asked[r] + 1] /\ unanswered' = unanswered \union {q}
  BY DEF ConsumeRequest
<1>4. /\ \A s \in Runs : asked[s] \in Nat /\ asked[s] <= asked'[s]
      /\ asked'[r] = asked[r] + 1
  BY <1>2, <1>3, ConstantsAssumption DEF TypeOK, TurnsTypeOK
<1>5. /\ pc'[h] \in {"consume", "publishEvent"} /\ \A g \in Handlers \ {h} : pc'[g] = pc[g]
      /\ pending' = pending \/ pending' = [pending EXCEPT ![o] = None] \/ pending' = [pending EXCEPT ![o] = q]
  <2>1. CASE timedOut[o]
    BY <1>1, <2>1 DEF ConsumeRequest
  <2>2. CASE ~timedOut[o]
    <3>1. Reduce(h, kind, "pending", q)
      BY <2>2 DEF ConsumeRequest
    <3> QED BY <3>1 DEF Reduce, Goto, TypeOK, HandlersTypeOK
  <2> QED BY <2>1, <2>2
<1>6. Stays(h)'
  BY <1>5 DEF Stays, Works, Working
<1>7. \A p \in Handlers : pending'[p] # pending[p] => p = o /\ pending'[p] \in {None, q}
  BY <1>2, <1>5 DEF TypeOK, ObjectsTypeOK
<1>8. Moves(h) /\ Answers(h)
  BY <1>1, <1>2, <1>5, <1>7 DEF Moves, Answers
<1>9. asked[q.run] < q.n /\ q.n <= asked'[q.run] /\ q \in unanswered'
  <2>1. asked[r] < asked[r] + 1 /\ asked[r] + 1 <= asked'[r]
    BY <1>2, <1>4
  <2> QED BY <1>3, <2>1
<1> HIDE DEF q
<1>10. Shows(h)
  BY <1>1, <1>4, <1>6, <1>7, <1>9 DEF Shows
<1>11. Delivers(h) /\ Holds(h)
  BY <1>1, <1>3, <1>6 DEF Delivers, Holds
<1> QED BY <1>8, <1>10, <1>11 DEF Acts

\* The run pauses once its request is in the files.
LEMMA PauseForOwnerActs ==
  ASSUME TypeOK, HandlersHoldRuns, NEW h \in Handlers, PauseForOwner(h)
  PROVE  Acts(h)
<1> DEFINE o == self[h]
           q == pending[o]
<1>1. pc[h] = "publishEvent" /\ UNCHANGED <<active, pending, future, asked, answers, unanswered>>
  BY DEF PauseForOwner
<1>2. o \in Handlers /\ pc[h] \notin Ended
  BY <1>1, WorkersHold DEF Works, Working
<1>3. CASE q = None
  <2>1. Goto(h, "failed") /\ UNCHANGED <<self, record>>
    BY <1>3 DEF PauseForOwner
  <2> QED BY <1>1, <1>2, <2>1, WorkerActs
<1>4. CASE q # None
  <2>1. record' = [record EXCEPT ![q] = "open"] /\ AfterPause(h) /\ q \in Requests
    BY <1>2, <1>4 DEF PauseForOwner, TypeOK, ObjectsTypeOK
  <2>2. \E p \in {"done", "failed", "stopPaused", "stopTurn"} : Goto(h, p)
    BY <2>1 DEF AfterPause, StopRun
  <2>3. pc'[h] # "answer" /\ \A g \in Handlers \ {h} : pc'[g] = pc[g]
    BY <2>2 DEF Goto, TypeOK, HandlersTypeOK
  <2>4. self' = self \/ (active # None /\ self' = [self EXCEPT ![h] = active])
    BY <2>1 DEF AfterPause, StopRun
  <2>5. (\A g \in Handlers \ {h} : self'[g] = self[g]) /\ (self'[h] = self[h] \/ (active # None /\ self'[h] = active))
    BY <2>4 DEF TypeOK, HandlersTypeOK
  <2>6. Moves(h) /\ Answers(h)
    BY <1>1, <1>2, <2>3, <2>5 DEF Moves, Answers
  <2>7. record'[q] = "open" /\ \A p \in Requests : record[p] = "open" => record'[p] = "open"
    BY <2>1 DEF TypeOK, FilesTypeOK
  <2>8. \A r \in Runs : asked[r] <= asked'[r]
    BY <1>1, ConstantsAssumption DEF TypeOK, TurnsTypeOK
  <2>9. Shows(h) /\ Delivers(h) /\ Holds(h)
    BY <1>1, <1>4, <2>7, <2>8 DEF Shows, Delivers, Holds, Paused
  <2> QED BY <2>6, <2>9 DEF Acts
<1> QED BY <1>3, <1>4

\* The agent took the answer.
LEMMA AnswerDeliveredActs ==
  ASSUME TypeOK, HandlersHoldRuns, NEW h \in Handlers, AnswerDelivered(h)
  PROVE  Acts(h)
<1> DEFINE o == self[h]
           q == pending[o]
<1>1. pc[h] = "answer" /\ unanswered' = unanswered \ {answers[h]}
      /\ UNCHANGED <<self, active, future, asked, answers>>
  BY DEF AnswerDelivered
<1>2. o \in Handlers /\ pc[h] \notin Ended
  BY <1>1, WorkersHold DEF Works, Working
<1>3. \/ Goto(h, "failed") /\ UNCHANGED <<record, pending>>
      \/ /\ q # None /\ record' = [record EXCEPT ![q] = "resolved"]
         /\ pending' = [pending EXCEPT ![o] = None] /\ Goto(h, "publishResolved")
  BY DEF AnswerDelivered
<1>4. /\ pc'[h] \in {"failed", "publishResolved"} /\ \A g \in Handlers \ {h} : pc'[g] = pc[g]
      /\ pc'[h] = "failed" \/ pending'[o] = None
  BY <1>2, <1>3 DEF Goto, TypeOK, HandlersTypeOK, ObjectsTypeOK
<1>5. Stays(h)' /\ self'[h] = o /\ o # None
  BY <1>1, <1>2, <1>4, ConstantsAssumption DEF Stays, Works, Working
<1>6. \A p \in Handlers : pending'[p] # pending[p] => p = o /\ pending'[p] = None
  BY <1>2, <1>3 DEF TypeOK, ObjectsTypeOK
<1>7. \A p \in Requests : record[p] = "open" /\ record'[p] # "open" => p = q
  BY <1>3 DEF TypeOK, FilesTypeOK
<1>8. Moves(h) /\ Answers(h)
  BY <1>1, <1>2, <1>4, <1>6 DEF Moves, Answers
<1>9. \A r \in Runs : asked[r] <= asked'[r]
  BY <1>1, ConstantsAssumption DEF TypeOK, TurnsTypeOK
<1>10. Shows(h)
  BY <1>5, <1>6, <1>9 DEF Shows
<1>11. Delivers(h)
  BY <1>1, <1>4 DEF Delivers
<1>12. Holds(h)
  BY <1>1, <1>5, <1>7 DEF Holds
<1> QED BY <1>8, <1>10, <1>11, <1>12 DEF Acts

-----------------------------------------------------------------------------
(* The end of a run, and of a command.                                     *)

\* A handler finishes the scope's run, whichever that is, or raises.
LEMMA FinishersAct ==
  ASSUME TypeOK, HandlersHoldRuns, NEW h \in Handlers,
         FinishRun(h) \/ FinishEndedRun(h) \/ FinishStoppedRun(h) \/ StartQueuedTurnElsewhere(h)
  PROVE  Acts(h)
<1>1. pc[h] \in {"publishEvent", "publishEnd", "publishStop"}
      /\ UNCHANGED <<self, pending, asked, answers, unanswered>>
  BY DEF FinishRun, FinishEndedRun, FinishStoppedRun, StartQueuedTurnElsewhere, TerminalViewOut, turnVars
<1>2. self[h] \in Handlers /\ pc[h] \notin Ended
  BY <1>1, WorkersHold DEF Works, Working
<1>3. CASE Goto(h, "failed") /\ UNCHANGED <<record, active, future>>
  BY <1>1, <1>2, <1>3, WorkerActs
<1>4. ASSUME active' = None, NEW p \in {"done", "failed", "createSelected"}, Goto(h, p),
             future' = future \/ future' = [future EXCEPT ![self[h]] = TRUE]
      PROVE  Acts(h)
  <2>1. pc'[h] # "answer" /\ \A g \in Handlers \ {h} : pc'[g] = pc[g]
    BY <1>4 DEF Goto, TypeOK, HandlersTypeOK
  <2> QED BY <1>1, <1>2, <1>4, <2>1, FreeingActs
<1>5. CallerResumes(h) => \E p \in {"done", "createSelected"} : Goto(h, p)
  BY DEF CallerResumes, ClearAndCreate
<1>6. ASSUME NEW st, FinishAndRelease(h, st) PROVE Acts(h)
  <2>1. CASE CanFinish
    <3>1. active' = None /\ future' = [future EXCEPT ![self[h]] = TRUE] /\ CallerResumes(h)
      BY <1>6, <2>1 DEF FinishAndRelease, Finish
    <3> QED BY <1>4, <1>5, <3>1
  <2>2. CASE ~CanFinish
    BY <1>3, <1>6, <2>2 DEF FinishAndRelease
  <2> QED BY <2>1, <2>2
<1>7. ASSUME StartQueuedTurnElsewhere(h) PROVE Acts(h)
  <2>1. UNCHANGED future
    BY <1>7 DEF StartQueuedTurnElsewhere
  <2>2. CASE CanFinish
    <3>1. active' = None /\ (Goto(h, "failed") \/ CallerResumes(h))
      BY <1>7, <2>2 DEF StartQueuedTurnElsewhere, Finish
    <3> QED BY <1>4, <1>5, <2>1, <3>1
  <2>3. CASE ~CanFinish
    BY <1>3, <1>7, <2>1, <2>3 DEF StartQueuedTurnElsewhere
  <2> QED BY <2>2, <2>3
<1> QED BY <1>6, <1>7 DEF FinishRun, FinishEndedRun, FinishStoppedRun

\* A turn is started for queued messages; a paused run's turn was stopped; a command
\* goes on; a call raises.
LEMMA OthersAct ==
  ASSUME TypeOK, HandlersHoldRuns, NEW h \in Handlers,
         \/ \E k \in 1 .. Cardinality(Handlers) : StartQueuedTurn(h, k)
         \/ PausedTurnStopped(h) \/ StopAcknowledged(h) \/ SelectedSessionCreated(h) \/ CallFails(h)
  PROVE  Acts(h)
<1>1. ASSUME NEW k, StartQueuedTurn(h, k) PROVE Acts(h)
  <2>1. /\ pc[h] = "publishEvent" /\ active # None /\ self' = [self EXCEPT ![h] = active]
        /\ UNCHANGED <<active, pending, future, asked, answers, record, unanswered>>
    BY <1>1 DEF StartQueuedTurn, TerminalViewOut, turnVars, fileVars
  <2>2. PICK p \in {"createSession", "startTurn", "getSession"} : Goto(h, p)
    BY <1>1 DEF StartQueuedTurn, RequestSession
  <2>3. pc'[h] = p /\ self'[h] = active
    BY <2>1, <2>2 DEF Goto, TypeOK, HandlersTypeOK
  <2>4. Stays(h)' /\ self'[h] = active
    BY <2>1, <2>3 DEF Stays, Works, InFlight, StartPcs
  <2>5. pc[h] \notin Ended
    BY <2>1 DEF Ended
  <2> QED BY <2>1, <2>2, <2>4, <2>5, QuietActs
<1>2. ASSUME PausedTurnStopped(h) PROVE Acts(h)
  <2>1. /\ pc[h] = "stopPaused" /\ Goto(h, "publishStop") /\ pending' = [pending EXCEPT ![self[h]] = None]
        /\ UNCHANGED <<self, active, future, asked, answers, record, unanswered>>
    BY <1>2 DEF PausedTurnStopped, turnVars, fileVars
  <2>2. self[h] \in Handlers /\ pc[h] \notin Ended
    BY <2>1, WorkersHold DEF Works, Working
  <2> QED BY <2>1, <2>2, WorkerActs DEF Working
<1>3. ASSUME NEW p \in {"done", "createSelected", "awaitCompletion"}, Goto(h, p),
             pc[h] \in {"stopTurn", "awaitCompletion", "createSelected"},
             UNCHANGED <<self, active, pending, future, asked, answers, record, unanswered>>
      PROVE  Acts(h)
  <2>1. ~Stays(h) /\ pc[h] \notin Ended
    BY <1>3 DEF Stays, Works, Working, InFlight, StartPcs, Ended
  <2> QED BY <1>3, <2>1, QuietActs
<1>4. ASSUME StopAcknowledged(h) PROVE Acts(h)
  <2>1. /\ pc[h] \in {"stopTurn", "awaitCompletion"}
        /\ UNCHANGED <<self, active, pending, future, asked, answers, record, unanswered>>
    BY <1>4 DEF StopAcknowledged, objectVars, turnVars, fileVars
  <2>2. \E p \in {"done", "createSelected", "awaitCompletion"} : Goto(h, p)
    BY <1>4 DEF StopAcknowledged, CallerResumes, ClearAndCreate
  <2> QED BY <1>3, <2>1, <2>2
<1>5. ASSUME SelectedSessionCreated(h) PROVE Acts(h)
  BY <1>3, <1>5 DEF SelectedSessionCreated, objectVars, turnVars, fileVars
<1>6. ASSUME CallFails(h) PROVE Acts(h)
  <2>1. pc[h] \notin Ended
    BY <1>6, ConstantsAssumption DEF CallFails, FaultOf, AllFaults, Ended
  <2>2. Goto(h, "failed") /\ UNCHANGED <<self, active, pending, future, asked, answers, record, unanswered>>
    BY <1>6 DEF CallFails, objectVars, turnVars, fileVars
  <2>3. Stays(h)'
    BY <2>2 DEF Goto, Stays, TypeOK, HandlersTypeOK
  <2> QED BY <2>1, <2>2, <2>3, QuietActs
<1> QED BY <1>1, <1>2, <1>4, <1>5, <1>6

\* Every step of a handler but the entry of its run.
LEMMA HandlersAct ==
  ASSUME TypeOK, TypeOK', HandlersHoldRuns, NEW h \in Handlers, Input(h) \/ Resumes(h) \/ Happens(h),
         ~InitialPublished(h)
  PROVE  Acts(h)
BY InputsAct, StartsAct, ConsumersAct, ConsumeRequestActs, PauseForOwnerActs, AnswerDeliveredActs,
   FinishersAct, OthersAct DEF Resumes, Happens

-----------------------------------------------------------------------------
(* A new run, and steps of no handler.                                     *)

\* The ActiveRun that enters _active_runs is held by the handler that made it.
LEMMA InitialPublishedKeepsScope ==
  ASSUME TypeOK, NewObjectsEmpty, ScopeInv, NEW h \in Handlers, InitialPublished(h)
  PROVE  ScopeInv'
<1>1. /\ pc[h] = "publishInitial" /\ pc'[h] = "consume" /\ \A g \in Handlers \ {h} : pc'[g] = pc[g]
      /\ active' = h /\ self'[h] = h /\ \A g \in Handlers \ {h} : self'[g] = self[g]
      /\ UNCHANGED <<answers, pending, future, asked, record, unanswered>>
  BY DEF InitialPublished, Goto, TypeOK, HandlersTypeOK, turnVars, fileVars
<1>2. self[h] = None /\ h # None
  BY <1>1, ConstantsAssumption DEF NewObjectsEmpty
<1>3. RequestsApart'
  BY <1>1 DEF ScopeInv, RequestsApart, Paused
<1>4. AnswersHold'
  BY <1>1 DEF ScopeInv, AnswersHold
<1>5. AnsweredRaised'
  BY <1>1 DEF ScopeInv, AnsweredRaised, Paused
<1>6. ScopeHeld'
  BY <1>1 DEF ScopeHeld, Stays, Works, Working
<1>7. ReleasedLeft'
  BY <1>1, <1>2 DEF ScopeInv, ReleasedLeft
<1> QED BY <1>3, <1>4, <1>5, <1>6, <1>7 DEF ScopeInv

\* The agent ends a turn, or the idle timer runs.
LEMMA UnseenKeepsScope ==
  ASSUME ScopeInv, UNCHANGED <<pc, self, answers, active, pending, future, asked, record, unanswered>>
  PROVE  ScopeInv'
<1>1. \A h \in Handlers : /\ Stays(h)' <=> Stays(h)
                          /\ Paused(h)' <=> Paused(h)
  BY DEF Stays, Works, InFlight, Paused
<1>2. AwaitsOwner(active)' <=> AwaitsOwner(active)
  BY DEF AwaitsOwner, Paused
<1>3. RequestsApart' /\ AnswersHold' /\ AnsweredRaised'
  BY <1>1 DEF ScopeInv, RequestsApart, AnswersHold, AnsweredRaised
<1>4. ScopeHeld' /\ ReleasedLeft'
  BY <1>1, <1>2 DEF ScopeInv, ScopeHeld, ReleasedLeft
<1> QED BY <1>3, <1>4 DEF ScopeInv

\* After a restart the scope is free and no handler does anything more.
LEMMA RestartKeepsScope ==
  ASSUME ScopeInv, Restart
  PROVE  ScopeInv'
<1>1. /\ \A h \in Handlers : pc'[h] = IF pc[h] = "idle" THEN "idle" ELSE "failed"
      /\ active' = None /\ UNCHANGED <<self, answers, pending, future, asked, unanswered>>
  BY DEF Restart
<1>2. RequestsApart' /\ AnswersHold' /\ AnsweredRaised'
  BY <1>1 DEF ScopeInv, RequestsApart, AnswersHold, AnsweredRaised, Paused
<1>3. ScopeHeld' /\ ReleasedLeft'
  BY <1>1, ConstantsAssumption DEF ScopeInv, ScopeHeld, ReleasedLeft
<1> QED BY <1>2, <1>3 DEF ScopeInv

-----------------------------------------------------------------------------
(* The invariant and the theorems.                                         *)

Scoped == Inv /\ DeliveryInv /\ ScopeInv

LEMMA InitScoped == Init => Scoped
<1> SUFFICES ASSUME Init PROVE ScopeInv
  BY InitInv, InitDelivers DEF Scoped
<1>1. \A h \in Handlers : pc[h] = "idle" /\ self[h] = None /\ answers[h] = None /\ pending[h] = None /\ ~future[h]
  BY DEF Init
<1>2. active = None
  BY DEF Init
<1> QED BY <1>1, <1>2, ConstantsAssumption
        DEF ScopeInv, RequestsApart, AnswersHold, AnsweredRaised, ScopeHeld, ReleasedLeft, Paused

LEMMA NextScoped == ASSUME Scoped, Next PROVE Scoped'
<1>1. Inv' /\ DeliveryInv' /\ TypeOK'
  BY NextInv, DeliveryStep DEF Scoped, Inv
<1>2. TypeOK /\ HandlersHoldRuns /\ NewObjectsEmpty /\ ScopeInv
  BY DEF Scoped, Inv, DeliveryInv
<1>3. ASSUME NEW h \in Handlers, Input(h) \/ Resumes(h) \/ Happens(h) PROVE ScopeInv'
  BY <1>1, <1>2, <1>3, HandlersAct, InitialPublishedKeepsScope, ActsKeeps
<1>4. ASSUME NEW h \in Handlers, IdleTimerFires(h) PROVE ScopeInv'
  BY <1>2, <1>4, UnseenKeepsScope DEF IdleTimerFires, handlerVars, turnVars, fileVars
<1>5. ASSUME NEW r \in Runs, NEW outcome \in Terminal, AgentTurnEnds(r, outcome) PROVE ScopeInv'
  BY <1>2, <1>5, UnseenKeepsScope DEF AgentTurnEnds, handlerVars, objectVars, fileVars
<1>6. ASSUME HandleIdleTimeout PROVE ScopeInv'
  BY <1>2, <1>6, UnseenKeepsScope DEF HandleIdleTimeout, handlerVars, fileVars
<1>7. ScopeInv'
  BY <1>2, <1>3, <1>4, <1>5, <1>6, RestartKeepsScope DEF Next
<1> QED BY <1>1, <1>7 DEF Scoped

LEMMA ScopeInvariance == Spec => []Scoped
<1>1. ASSUME Scoped, UNCHANGED vars PROVE Scoped'
  BY <1>1, StutterInv, StutterDelivers, UnseenKeepsScope
     DEF Scoped, vars, handlerVars, objectVars, turnVars, fileVars
<1>2. Scoped /\ [Next]_vars => Scoped'
  BY <1>1, NextScoped
<1> QED BY <1>2, InitScoped, PTL DEF Spec

\* A scope is stuck with a run nobody works on only if a handler of that very run
\* has raised: whatever inputs overlap, whatever calls fail and however often the
\* bridge restarts, the run that is left is not the victim of another run's handler.
THEOREM StuckScopesRaised == Spec => []StuckScopeRaised
<1>1. ScopeHeld => StuckScopeRaised
  <2> SUFFICES ASSUME ScopeHeld, Quiescent, active # None, ~AwaitsOwner(active)
               PROVE  \E h \in Handlers : pc[h] = "failed" /\ self[h] = active
    BY DEF StuckScopeRaised
  <2>1. PICK h \in Handlers : Stays(h) /\ self[h] = active
    BY DEF ScopeHeld
  <2>2. ~Works(h)
    BY DEF Quiescent, Works, Working, InFlight, StartPcs, Ended
  <2> QED BY <2>1, <2>2 DEF Stays
<1> QED BY <1>1, ScopeInvariance, PTL DEF Scoped, ScopeInv

\* A command that stopped a run goes on only when the scope has left that run: its
\* future is resolved only by the step that frees the scope, and no ActiveRun comes
\* back to the scope after that, although _finish ends whatever the scope has by then.
THEOREM StoppedRunsAreLeft == Spec => StoppedRunIsLeft
<1> DEFINE Left == \A h \in Handlers :
                     /\ pc[h] \in {"stopTurn", "awaitCompletion"} /\ pc'[h] \in {"done", "createSelected"}
                     => active # self[h]
<1>1. Scoped /\ Scoped' /\ [Next]_vars => [Left]_vars
  <2> SUFFICES ASSUME Scoped, Scoped', Next, NEW h \in Handlers,
                      pc[h] \in {"stopTurn", "awaitCompletion"}, pc'[h] \in {"done", "createSelected"}
               PROVE  active # self[h]
    OBVIOUS
  <2>1. TypeOK /\ TypeOK' /\ HandlersHoldRuns /\ ScopeInv
    BY DEF Scoped, Inv
  <2>2. ASSUME NEW g \in Handlers, Input(g) \/ Resumes(g) \/ Happens(g) PROVE g = h
    <3>1. ASSUME InitialPublished(g), g # h PROVE pc'[h] = pc[h]
      BY <2>1, <3>1 DEF InitialPublished, Goto, TypeOK, HandlersTypeOK
    <3>2. ASSUME ~InitialPublished(g), g # h PROVE pc'[h] = pc[h]
      <4>1. Acts(g)
        BY <2>1, <2>2, <3>2, HandlersAct
      <4> QED BY <3>2, <4>1 DEF Acts, Moves
    <3> QED BY <3>1, <3>2
  <2>3. StopAcknowledged(h) \/ CallFails(h)
    <3>1. Input(h) \/ Resumes(h) \/ Happens(h)
      <4>1. ASSUME UNCHANGED pc PROVE FALSE
        BY <4>1
      <4>2. ~Restart
        BY DEF Restart
      <4>3. (\A o \in Handlers : ~IdleTimerFires(o)) /\ ~HandleIdleTimeout
        BY <4>1 DEF IdleTimerFires, HandleIdleTimeout, handlerVars
      <4>4. \A r \in Runs, outcome \in Terminal : ~AgentTurnEnds(r, outcome)
        BY <4>1 DEF AgentTurnEnds, handlerVars
      <4> QED BY <2>2, <4>2, <4>3, <4>4 DEF Next
    <3>2. ~Input(h)
      BY DEF Input, StartTextRun, QueueMessage, AskForDecision, AnswerRequest, ClickStaleCard, Stop, Reset,
             ChangeWorkspace, ClearSelectedSession, ResumeSession, SetIdleTimeout, Arrives
    <3>3. Resumes(h) => StopAcknowledged(h)
      BY DEF Resumes, SessionReady, TurnStarts, InitialPublished, NextPublished, ConsumeTerminal, PauseForOwner,
             ContinueConsuming, FinishRun, StartQueuedTurn, StartQueuedTurnElsewhere, TerminalViewOut, FinishEndedRun,
             AnswerDelivered, ResolvedPublished, PausedTurnStopped, FinishStoppedRun, SelectedSessionCreated
    <3>4. Happens(h) => CallFails(h)
      BY DEF Happens, ThreadMissing, ConsumeProgress, ConsumeRequest
    <3> QED BY <3>1, <3>2, <3>3, <3>4
  <2>4. ~CallFails(h)
    BY <2>1 DEF CallFails, Goto, TypeOK, HandlersTypeOK
  <2>5. future[self[h]]
    <3>1. ASSUME ~future[self[h]] PROVE FALSE
      <4>1. Goto(h, "awaitCompletion")
        BY <2>3, <2>4, <3>1 DEF StopAcknowledged
      <4> QED BY <2>1, <4>1 DEF Goto, TypeOK, HandlersTypeOK
    <3> QED BY <3>1
  <2>6. self[h] \in Handlers
    BY <2>1 DEF HandlersHoldRuns, HoldsRun, TypeOK, HandlersTypeOK
  <2> QED BY <2>1, <2>5, <2>6 DEF ScopeInv, ReleasedLeft
<1> HIDE DEF Left
<1>2. Spec => [][Left]_vars
  BY <1>1, ScopeInvariance, PTL DEF Spec
<1> QED BY <1>2 DEF StoppedRunIsLeft, Left
=============================================================================
