---------------------- MODULE RunControllerTypeProofs ----------------------
(***************************************************************************)
(* Every step of RunController preserves TypeOK.  The lemmas on the helpers*)
(* say what a helper leaves in the variables it assigns; the lemma of an   *)
(* action then goes through the five groups of TypeOK.                     *)
(*                                                                         *)
(* TypeOK is not inductive alone: a consumer copies the status of the view *)
(* of the ActiveRun it holds into the files, so it must hold one, and it   *)
(* counts the requests of the run whose stream it iterates over.           *)
(***************************************************************************)
EXTENDS RunControllerProps, SequenceTheorems, TLAPS

\* A handler that is past its start holds an ActiveRun (the result of
\* _require_active_run, or the one it made), and one that has a turn knows its run.
HoldsRun == {"publishNext", "consume", "publishEvent", "publishEnd", "answer",
             "publishResolved", "stopPaused", "publishStop", "stopTurn", "awaitCompletion"}
HandlersHoldRuns ==
  \A h \in Handlers :
    /\ pc[h] \in HoldsRun => self[h] # None
    /\ pc[h] \in {"publishInitial", "consume", "publishEvent"} => strm[h] # 0

-----------------------------------------------------------------------------
(* The helpers.                                                            *)

\* A handler moves to one of the awaits.
LEMMA GotoTypes ==
  ASSUME TypeOK, NEW h, NEW p \in Pcs, Goto(h, p)
  PROVE  pc' \in [Handlers -> Pcs]
BY DEF TypeOK, HandlersTypeOK, Goto

\* Arming or cancelling the timer leaves a Boolean for every ActiveRun.
LEMMA ScopeTimerTypes ==
  ASSUME TypeOK, NEW armed \in BOOLEAN, ScopeTimer(armed)
  PROVE  timer' \in [Handlers -> BOOLEAN]
BY DEF TypeOK, ObjectsTypeOK, ScopeTimer

\* A session asked for now is a session of the current workspace.
LEMMA NewSessionTypes == ASSUME TypeOK PROVE NewSession \in Sessions
BY DEF TypeOK, ScopeTypeOK, NewSession, Sessions

\* Asking for a session leaves every handler at an await, with a session.
LEMMA RequestSessionTypes ==
  ASSUME TypeOK, NEW h, RequestSession(h)
  PROVE  /\ pc' \in [Handlers -> Pcs]
         /\ sess' \in [Handlers -> Sessions]
<1>1. pc' \in [Handlers -> Pcs]
  BY DEF RequestSession, TypeOK, HandlersTypeOK, Goto, Pcs, StartPcs
<1>2. sess' \in [Handlers -> Sessions]
  BY NewSessionTypes DEF RequestSession, TypeOK, HandlersTypeOK, ScopeTypeOK
<1> QED BY <1>1, <1>2

\* Clearing the selection and asking for a new session keeps the types.
LEMMA ClearAndCreateTypes ==
  ASSUME TypeOK, NEW h, NEW w \in Workspaces, ClearAndCreate(h, w)
  PROVE  /\ pc' \in [Handlers -> Pcs]
         /\ sess' \in [Handlers -> Sessions]
         /\ selected' \in Sessions \union {None} /\ fresh' \in BOOLEAN
         /\ workspace' \in Workspaces /\ epoch' \in Nat
<1>1. pc' \in [Handlers -> Pcs]
  BY DEF ClearAndCreate, TypeOK, HandlersTypeOK, Goto, Pcs
<1>2. [ws |-> w, epoch |-> epoch + 1] \in Sessions
  BY DEF TypeOK, ScopeTypeOK, Sessions
<1>3. sess' \in [Handlers -> Sessions]
  BY <1>2 DEF ClearAndCreate, TypeOK, HandlersTypeOK
<1>4. /\ selected' \in Sessions \union {None} /\ fresh' \in BOOLEAN
      /\ workspace' \in Workspaces /\ epoch' \in Nat
  <2>1. selected' = None /\ fresh' = FALSE /\ workspace' = w /\ epoch' = epoch + 1
    BY DEF ClearAndCreate
  <2>2. epoch' \in Nat
    BY <2>1 DEF TypeOK, ScopeTypeOK
  <2> QED BY <2>1, <2>2
<1> QED BY <1>1, <1>3, <1>4

\* What the callers do once the run is over keeps the types.
LEMMA CallerResumesTypes ==
  ASSUME TypeOK, NEW h \in Handlers, CallerResumes(h)
  PROVE  /\ pc' \in [Handlers -> Pcs]
         /\ sess' \in [Handlers -> Sessions]
         /\ selected' \in Sessions \union {None} /\ fresh' \in BOOLEAN
         /\ workspace' \in Workspaces /\ epoch' \in Nat
<1>1. CASE cmd[h] = "reset"
  <2>1. workspace \in Workspaces /\ ClearAndCreate(h, workspace)
    BY <1>1 DEF CallerResumes, TypeOK, ScopeTypeOK
  <2> QED BY <2>1, ClearAndCreateTypes
<1>2. CASE cmd[h] = "cd"
  <2>1. sess[h].ws \in Workspaces
    BY DEF TypeOK, HandlersTypeOK, Sessions
  <2>2. ClearAndCreate(h, sess[h].ws)
    BY <1>2 DEF CallerResumes
  <2> QED BY <2>1, <2>2, ClearAndCreateTypes
<1>3. CASE cmd[h] \notin {"reset", "cd"}
  BY <1>3 DEF CallerResumes, TypeOK, HandlersTypeOK, ScopeTypeOK, sessionVars, Goto, Pcs
<1> QED BY <1>1, <1>2, <1>3

\* Stopping the run keeps the types, and the handler holds the run it stops.
LEMMA StopRunTypes ==
  ASSUME TypeOK, NEW h, StopRun(h)
  PROVE  /\ pc' \in [Handlers -> Pcs]
         /\ self' \in [Handlers -> Handlers \union {None}]
         /\ stopReq' \in [Handlers -> BOOLEAN]
         /\ queue' \in [Handlers -> Seq(Handlers)]
         /\ stopAsked' \in [Runs -> BOOLEAN]
<1>1. pc' \in [Handlers -> Pcs]
  BY DEF StopRun, TypeOK, HandlersTypeOK, Goto, Pcs
<1>2. self' \in [Handlers -> Handlers \union {None}]
  BY DEF StopRun, TypeOK, HandlersTypeOK, ScopeTypeOK
<1>3. stopReq' \in [Handlers -> BOOLEAN] /\ queue' \in [Handlers -> Seq(Handlers)]
  <2>1. CASE active = None
    BY <2>1 DEF StopRun, TypeOK, ObjectsTypeOK
  <2>2. CASE active # None
    <3>1. stopReq' = [stopReq EXCEPT ![active] = TRUE]
       /\ queue' = [queue EXCEPT ![active] = <<>>]
      BY <2>2 DEF StopRun
    <3>2. <<>> \in Seq(Handlers)
      OBVIOUS
    <3> QED BY <3>1, <3>2 DEF TypeOK, ObjectsTypeOK
  <2> QED BY <2>1, <2>2
<1>4. stopAsked' \in [Runs -> BOOLEAN]
  BY DEF StopRun, TypeOK, TurnsTypeOK
<1> QED BY <1>1, <1>2, <1>3, <1>4

\* What the callers do when the run paused keeps the types.
LEMMA AfterPauseTypes ==
  ASSUME TypeOK, NEW h, AfterPause(h)
  PROVE  /\ pc' \in [Handlers -> Pcs]
         /\ self' \in [Handlers -> Handlers \union {None}]
         /\ stopReq' \in [Handlers -> BOOLEAN]
         /\ queue' \in [Handlers -> Seq(Handlers)]
         /\ stopAsked' \in [Runs -> BOOLEAN]
<1>1. CASE cmd[h] = "reset"
  BY <1>1, StopRunTypes DEF AfterPause
<1>2. CASE cmd[h] # "reset"
  BY <1>2 DEF AfterPause, TypeOK, HandlersTypeOK, ObjectsTypeOK, TurnsTypeOK, Goto, Pcs
<1> QED BY <1>1, <1>2

\* A consumer holds the ActiveRun whose stream it iterates over.
LEMMA ConsumeTypes ==
  ASSUME TypeOK, NEW h, Consume(h)
  PROVE  /\ pc' \in [Handlers -> Pcs]
         /\ self' \in [Handlers -> Handlers \union {None}]
         /\ strm' \in [Handlers -> 0 .. MaxRuns]
<1>1. pc' \in [Handlers -> Pcs]
  BY DEF Consume, TypeOK, HandlersTypeOK, Goto, Pcs
<1>2. self' \in [Handlers -> Handlers \union {None}]
  BY DEF Consume, TypeOK, HandlersTypeOK, ScopeTypeOK
<1>3. strm' \in [Handlers -> 0 .. MaxRuns]
  <2>1. CASE active = None
    BY <2>1 DEF Consume, TypeOK, HandlersTypeOK
  <2>2. CASE active # None
    <3>1. run[active] \in 0 .. MaxRuns
      BY <2>2 DEF TypeOK, ScopeTypeOK, ObjectsTypeOK
    <3> QED BY <2>2, <3>1 DEF Consume, TypeOK, HandlersTypeOK
  <2> QED BY <2>1, <2>2
<1> QED BY <1>1, <1>2, <1>3

\* Sending an answer keeps the types, and the handler holds the run it answers.
LEMMA SendAnswerTypes ==
  ASSUME TypeOK, NEW h, NEW q \in Requests, NEW d, SendAnswer(h, q, d)
  PROVE  /\ pc' \in [Handlers -> Pcs]
         /\ self' \in [Handlers -> Handlers \union {None}]
         /\ answers' \in [Handlers -> Requests \union {None}]
         /\ taken' \subseteq Requests
<1>1. pc' \in [Handlers -> Pcs]
  BY DEF SendAnswer, TypeOK, HandlersTypeOK, Goto, Pcs
<1>2. /\ self' \in [Handlers -> Handlers \union {None}]
      /\ answers' \in [Handlers -> Requests \union {None}]
  BY DEF SendAnswer, TypeOK, HandlersTypeOK, ScopeTypeOK
<1>3. taken' \subseteq Requests
  BY DEF SendAnswer, TypeOK, TurnsTypeOK
<1> QED BY <1>1, <1>2, <1>3

\* Reducing an event into the view keeps the types.
LEMMA ReduceTypes ==
  ASSUME TypeOK, NEW h \in Handlers, self[h] # None,
         NEW e \in RequestKinds \union {"progress", "terminal"},
         NEW st \in ViewStatuses, NEW q \in Requests \union {None}, Reduce(h, e, st, q)
  PROVE  /\ pc' \in [Handlers -> Pcs]
         /\ ev' \in [Handlers -> RequestKinds \union {"none", "progress", "terminal"}]
         /\ view' \in [Handlers -> ViewStatuses]
         /\ pending' \in [Handlers -> Requests \union {None}]
<1>1. pc' \in [Handlers -> Pcs]
  BY DEF Reduce, TypeOK, HandlersTypeOK, Goto, Pcs
<1>2. ev' \in [Handlers -> RequestKinds \union {"none", "progress", "terminal"}]
  BY DEF Reduce, TypeOK, HandlersTypeOK
<1>3. view' \in [Handlers -> ViewStatuses]
  BY DEF Reduce, TypeOK, ObjectsTypeOK, ViewStatuses, Terminal
<1>4. pending' \in [Handlers -> Requests \union {None}]
  BY DEF Reduce, TypeOK, ObjectsTypeOK
<1> QED BY <1>1, <1>2, <1>3, <1>4

\* _finish writes a status into the files and frees the scope.
LEMMA FinishTypes ==
  ASSUME TypeOK, NEW st \in ViewStatuses, Finish(st)
  PROVE  /\ record' \in [Requests -> {"none", "open", "resolved", "cancelled"}]
         /\ status' \in [Runs -> ViewStatuses \union {"none"}]
         /\ timer' \in [Handlers -> BOOLEAN]
         /\ active' \in Handlers \union {None}
<1>1. record' \in [Requests -> {"none", "open", "resolved", "cancelled"}]
  BY DEF Finish, TypeOK, FilesTypeOK
<1>2. status' \in [Runs -> ViewStatuses \union {"none"}]
  BY DEF Finish, TypeOK, FilesTypeOK
<1> QED BY <1>1, <1>2 DEF Finish, TypeOK, ObjectsTypeOK

\* Finishing and releasing the waiters keeps the types.
LEMMA FinishAndReleaseTypes ==
  ASSUME TypeOK, NEW h \in Handlers, NEW st \in ViewStatuses, FinishAndRelease(h, st)
  PROVE  /\ pc' \in [Handlers -> Pcs]
         /\ sess' \in [Handlers -> Sessions]
         /\ selected' \in Sessions \union {None} /\ fresh' \in BOOLEAN
         /\ workspace' \in Workspaces /\ epoch' \in Nat
         /\ record' \in [Requests -> {"none", "open", "resolved", "cancelled"}]
         /\ status' \in [Runs -> ViewStatuses \union {"none"}]
         /\ timer' \in [Handlers -> BOOLEAN]
         /\ future' \in [Handlers -> BOOLEAN]
         /\ active' \in Handlers \union {None}
<1>1. CASE CanFinish
  <2>1. Finish(st) /\ CallerResumes(h) /\ future' = [future EXCEPT ![self[h]] = TRUE]
    BY <1>1 DEF FinishAndRelease
  <2>2. future' \in [Handlers -> BOOLEAN]
    BY <2>1 DEF TypeOK, ObjectsTypeOK
  <2> QED BY <2>1, <2>2, FinishTypes, CallerResumesTypes
<1>2. CASE ~CanFinish
  <2>1. /\ Goto(h, "failed")
        /\ IF pc[h] = "publishEvent" THEN ScopeTimer(FALSE) ELSE UNCHANGED timer
        /\ UNCHANGED <<record, status, active, future, sess, sessionVars>>
    BY <1>2 DEF FinishAndRelease
  <2>2. pc' \in [Handlers -> Pcs]
    BY <2>1, GotoTypes DEF Pcs
  <2>3. timer' \in [Handlers -> BOOLEAN]
    BY <2>1, ScopeTimerTypes DEF TypeOK, ObjectsTypeOK
  <2> QED
    BY <2>1, <2>2, <2>3
    DEF TypeOK, HandlersTypeOK, ScopeTypeOK, ObjectsTypeOK, FilesTypeOK, sessionVars
<1> QED BY <1>1, <1>2

-----------------------------------------------------------------------------
(* The actions.                                                            *)

\* StartTextRun keeps every variable in its type.
LEMMA StartTextRunTypes ==
  ASSUME TypeOK, HandlersHoldRuns, NEW h \in Handlers, StartTextRun(h)
  PROVE  TypeOK'
<1>1. prompt' \in [Handlers -> Seq(Handlers)]
  <2>1. <<h>> \in Seq(Handlers)
    OBVIOUS
  <2> QED BY <2>1 DEF StartTextRun, TypeOK, HandlersTypeOK
<1>2. HandlersTypeOK'
  BY <1>1, RequestSessionTypes DEF TypeOK, HandlersTypeOK, StartTextRun, Arrives,
     AllCommands, handlerVars
<1>3. ScopeTypeOK'
  BY DEF TypeOK, ScopeTypeOK, StartTextRun, sessionVars
<1>4. ObjectsTypeOK'
  BY DEF TypeOK, ObjectsTypeOK, StartTextRun, objectVars
<1>5. TurnsTypeOK'
  BY DEF TypeOK, TurnsTypeOK, StartTextRun, turnVars
<1>6. FilesTypeOK'
  BY DEF TypeOK, FilesTypeOK, StartTextRun, fileVars
<1> QED BY <1>2, <1>3, <1>4, <1>5, <1>6 DEF TypeOK

\* QueueMessage keeps every variable in its type.
LEMMA QueueMessageTypes ==
  ASSUME TypeOK, HandlersHoldRuns, NEW h \in Handlers, QueueMessage(h)
  PROVE  TypeOK'
<1>1. queue' \in [Handlers -> Seq(Handlers)]
  BY DEF QueueMessage, TypeOK, ScopeTypeOK, ObjectsTypeOK
<1>2. HandlersTypeOK'
  BY DEF TypeOK, HandlersTypeOK, QueueMessage, Arrives, AllCommands, Goto, Pcs, handlerVars
<1>3. ScopeTypeOK'
  BY DEF TypeOK, ScopeTypeOK, QueueMessage, sessionVars
<1>4. ObjectsTypeOK'
  BY <1>1 DEF TypeOK, ObjectsTypeOK, QueueMessage, objectVars
<1>5. TurnsTypeOK'
  BY DEF TypeOK, TurnsTypeOK, QueueMessage, turnVars
<1>6. FilesTypeOK'
  BY DEF TypeOK, FilesTypeOK, QueueMessage, fileVars
<1> QED BY <1>2, <1>3, <1>4, <1>5, <1>6 DEF TypeOK

\* AskForDecision keeps every variable in its type.
LEMMA AskForDecisionTypes ==
  ASSUME TypeOK, HandlersHoldRuns, NEW h \in Handlers, AskForDecision(h)
  PROVE  TypeOK'
BY DEF TypeOK, HandlersTypeOK, ScopeTypeOK, ObjectsTypeOK, TurnsTypeOK, FilesTypeOK,
      AskForDecision, Arrives, Goto, Pcs, AllCommands, sessionVars, objectVars, turnVars,
      fileVars

\* AnswerRequest keeps every variable in its type.
LEMMA AnswerRequestTypes ==
  ASSUME TypeOK, HandlersHoldRuns, NEW h \in Handlers, NEW c \in {"text", "click"},
         NEW d \in Decisions, AnswerRequest(h, c, d)
  PROVE  TypeOK'
<1>1. pending[active] \in Requests
  BY DEF AnswerRequest, Paused, TypeOK, ScopeTypeOK, ObjectsTypeOK
<1>2. /\ pc' \in [Handlers -> Pcs]
      /\ self' \in [Handlers -> Handlers \union {None}]
      /\ answers' \in [Handlers -> Requests \union {None}]
      /\ taken' \subseteq Requests
  BY <1>1, SendAnswerTypes DEF AnswerRequest
<1>3. HandlersTypeOK'
  BY <1>2 DEF TypeOK, HandlersTypeOK, AnswerRequest, Arrives, AllCommands, handlerVars
<1>4. ScopeTypeOK'
  BY DEF TypeOK, ScopeTypeOK, AnswerRequest, sessionVars
<1>5. ObjectsTypeOK'
  BY DEF TypeOK, ObjectsTypeOK, AnswerRequest, objectVars
<1>6. TurnsTypeOK'
  BY <1>2 DEF TypeOK, TurnsTypeOK, AnswerRequest, turnVars
<1>7. FilesTypeOK'
  BY DEF TypeOK, FilesTypeOK, AnswerRequest, fileVars
<1> QED BY <1>3, <1>4, <1>5, <1>6, <1>7 DEF TypeOK

\* ClickStaleCard keeps every variable in its type.
LEMMA ClickStaleCardTypes ==
  ASSUME TypeOK, HandlersHoldRuns, NEW h \in Handlers, NEW q \in Requests, ClickStaleCard(h, q)
  PROVE  TypeOK'
BY DEF TypeOK, HandlersTypeOK, ScopeTypeOK, ObjectsTypeOK, TurnsTypeOK, FilesTypeOK,
      ClickStaleCard, Arrives, Goto, Pcs, AllCommands, sessionVars, objectVars, turnVars,
      fileVars

\* Stop keeps every variable in its type.
LEMMA StopTypes ==
  ASSUME TypeOK, HandlersHoldRuns, NEW h \in Handlers, Stop(h)
  PROVE  TypeOK'
<1>1. /\ pc' \in [Handlers -> Pcs]
      /\ self' \in [Handlers -> Handlers \union {None}]
      /\ stopReq' \in [Handlers -> BOOLEAN]
      /\ queue' \in [Handlers -> Seq(Handlers)]
      /\ stopAsked' \in [Runs -> BOOLEAN]
  BY StopRunTypes DEF Stop
<1>2. HandlersTypeOK'
  BY <1>1 DEF TypeOK, HandlersTypeOK, Stop, Arrives, AllCommands, handlerVars
<1>3. ScopeTypeOK'
  BY DEF TypeOK, ScopeTypeOK, Stop, sessionVars
<1>4. ObjectsTypeOK'
  BY <1>1 DEF TypeOK, ObjectsTypeOK, Stop, objectVars
<1>5. TurnsTypeOK'
  BY <1>1 DEF TypeOK, TurnsTypeOK, Stop, turnVars
<1>6. FilesTypeOK'
  BY DEF TypeOK, FilesTypeOK, Stop, fileVars
<1> QED BY <1>2, <1>3, <1>4, <1>5, <1>6 DEF TypeOK

\* Reset keeps every variable in its type.
LEMMA ResetTypes ==
  ASSUME TypeOK, HandlersHoldRuns, NEW h \in Handlers, Reset(h)
  PROVE  TypeOK'
<1>1. /\ pc' \in [Handlers -> Pcs]
      /\ sess' \in [Handlers -> Sessions]
      /\ self' \in [Handlers -> Handlers \union {None}]
      /\ answers' \in [Handlers -> Requests \union {None}]
      /\ selected' \in Sessions \union {None} /\ fresh' \in BOOLEAN
      /\ workspace' \in Workspaces /\ epoch' \in Nat
      /\ stopReq' \in [Handlers -> BOOLEAN]
      /\ queue' \in [Handlers -> Seq(Handlers)]
      /\ stopAsked' \in [Runs -> BOOLEAN]
      /\ taken' \subseteq Requests
  <2>1. CASE /\ active = None /\ ClearAndCreate(h, workspace)
             /\ UNCHANGED <<self, answers, taken, stopReq, queue, stopAsked>>
    <3>1. workspace \in Workspaces
      BY DEF TypeOK, ScopeTypeOK
    <3> QED
      BY <2>1, <3>1, ClearAndCreateTypes DEF TypeOK, HandlersTypeOK, ObjectsTypeOK,
         TurnsTypeOK
  <2>2. CASE /\ active # None /\ Paused(active)
             /\ SendAnswer(h, pending[active], "cancel")
             /\ UNCHANGED <<sess, sessionVars, stopReq, queue, stopAsked>>
    <3>1. pending[active] \in Requests
      BY <2>2 DEF Paused, TypeOK, ScopeTypeOK, ObjectsTypeOK
    <3> QED
      BY <2>2, <3>1, SendAnswerTypes
      DEF TypeOK, HandlersTypeOK, ScopeTypeOK, ObjectsTypeOK, TurnsTypeOK, sessionVars
  <2>3. CASE StopRun(h) /\ UNCHANGED <<sess, sessionVars, answers, taken>>
    BY <2>3, StopRunTypes DEF TypeOK, HandlersTypeOK, ScopeTypeOK, TurnsTypeOK, sessionVars
  <2> QED BY <2>1, <2>2, <2>3 DEF Reset
<1>2. HandlersTypeOK'
  BY <1>1 DEF TypeOK, HandlersTypeOK, Reset, Arrives, AllCommands
<1>3. ScopeTypeOK'
  BY <1>1 DEF TypeOK, ScopeTypeOK, Reset
<1>4. ObjectsTypeOK'
  BY <1>1 DEF TypeOK, ObjectsTypeOK, Reset
<1>5. TurnsTypeOK' /\ FilesTypeOK'
  BY <1>1 DEF TypeOK, TurnsTypeOK, FilesTypeOK, Reset, fileVars
<1> QED BY <1>2, <1>3, <1>4, <1>5 DEF TypeOK

\* ChangeWorkspace keeps every variable in its type.
LEMMA ChangeWorkspaceTypes ==
  ASSUME TypeOK, HandlersHoldRuns, NEW h \in Handlers, NEW w \in Workspaces,
         ChangeWorkspace(h, w)
  PROVE  TypeOK'
<1>1. /\ pc' \in [Handlers -> Pcs]
      /\ sess' \in [Handlers -> Sessions]
      /\ self' \in [Handlers -> Handlers \union {None}]
      /\ selected' \in Sessions \union {None} /\ fresh' \in BOOLEAN
      /\ workspace' \in Workspaces /\ epoch' \in Nat
      /\ stopReq' \in [Handlers -> BOOLEAN]
      /\ queue' \in [Handlers -> Seq(Handlers)]
      /\ stopAsked' \in [Runs -> BOOLEAN]
  <2>1. CASE ClearAndCreate(h, w) /\ UNCHANGED <<self, stopReq, queue, stopAsked>>
    BY <2>1, ClearAndCreateTypes DEF TypeOK, HandlersTypeOK, ObjectsTypeOK, TurnsTypeOK
  <2>2. CASE /\ StopRun(h) /\ UNCHANGED sessionVars
             /\ sess' = [sess EXCEPT ![h] = [ws |-> w, epoch |-> epoch]]
    <3>1. [ws |-> w, epoch |-> epoch] \in Sessions
      BY DEF TypeOK, ScopeTypeOK, Sessions
    <3>2. sess' \in [Handlers -> Sessions]
      BY <2>2, <3>1 DEF TypeOK, HandlersTypeOK
    <3> QED BY <2>2, <3>2, StopRunTypes DEF TypeOK, ScopeTypeOK, sessionVars
  <2> QED BY <2>1, <2>2 DEF ChangeWorkspace
<1>2. HandlersTypeOK'
  BY <1>1 DEF TypeOK, HandlersTypeOK, ChangeWorkspace, Arrives, AllCommands
<1>3. ScopeTypeOK'
  BY <1>1 DEF TypeOK, ScopeTypeOK, ChangeWorkspace
<1>4. ObjectsTypeOK'
  BY <1>1 DEF TypeOK, ObjectsTypeOK, ChangeWorkspace
<1>5. TurnsTypeOK' /\ FilesTypeOK'
  BY <1>1 DEF TypeOK, TurnsTypeOK, FilesTypeOK, ChangeWorkspace, fileVars
<1> QED BY <1>2, <1>3, <1>4, <1>5 DEF TypeOK

\* ClearSelectedSession keeps every variable in its type.
LEMMA ClearSelectedSessionTypes ==
  ASSUME TypeOK, HandlersHoldRuns, NEW h \in Handlers, ClearSelectedSession(h)
  PROVE  TypeOK'
BY DEF TypeOK, HandlersTypeOK, ScopeTypeOK, ObjectsTypeOK, TurnsTypeOK, FilesTypeOK,
      ClearSelectedSession, Arrives, Goto, Pcs, AllCommands, objectVars, turnVars, fileVars

\* ResumeSession keeps every variable in its type.
LEMMA ResumeSessionTypes ==
  ASSUME TypeOK, HandlersHoldRuns, NEW h \in Handlers, ResumeSession(h)
  PROVE  TypeOK'
<1>1. selected' \in Sessions /\ epoch' \in Nat
  BY DEF ResumeSession, TypeOK, ScopeTypeOK, Sessions
<1>2. HandlersTypeOK'
  BY DEF TypeOK, HandlersTypeOK, ResumeSession, Arrives, AllCommands, Goto, Pcs, handlerVars
<1>3. ScopeTypeOK'
  BY <1>1 DEF TypeOK, ScopeTypeOK, ResumeSession, sessionVars
<1>4. ObjectsTypeOK'
  BY DEF TypeOK, ObjectsTypeOK, ResumeSession, objectVars
<1>5. TurnsTypeOK'
  BY DEF TypeOK, TurnsTypeOK, ResumeSession, turnVars
<1>6. FilesTypeOK'
  BY DEF TypeOK, FilesTypeOK, ResumeSession, fileVars
<1> QED BY <1>2, <1>3, <1>4, <1>5, <1>6 DEF TypeOK

\* SetIdleTimeout keeps every variable in its type.
LEMMA SetIdleTimeoutTypes ==
  ASSUME TypeOK, HandlersHoldRuns, NEW h \in Handlers, NEW on \in BOOLEAN, SetIdleTimeout(h, on)
  PROVE  TypeOK'
BY DEF TypeOK, HandlersTypeOK, ScopeTypeOK, ObjectsTypeOK, TurnsTypeOK, FilesTypeOK,
      SetIdleTimeout, Arrives, ScopeTimer, Goto, Pcs, AllCommands, sessionVars, turnVars,
      fileVars

\* SessionReady keeps every variable in its type.
LEMMA SessionReadyTypes ==
  ASSUME TypeOK, HandlersHoldRuns, NEW h \in Handlers, SessionReady(h)
  PROVE  TypeOK'
BY DEF TypeOK, HandlersTypeOK, ScopeTypeOK, ObjectsTypeOK, TurnsTypeOK, FilesTypeOK,
      SessionReady, Goto, Pcs, StartPcs, objectVars, turnVars, fileVars

\* ThreadMissing keeps every variable in its type.
LEMMA ThreadMissingTypes ==
  ASSUME TypeOK, HandlersHoldRuns, NEW h \in Handlers, ThreadMissing(h)
  PROVE  TypeOK'
BY DEF TypeOK, HandlersTypeOK, ScopeTypeOK, ObjectsTypeOK, TurnsTypeOK, FilesTypeOK,
      ThreadMissing, NewSession, Sessions, Goto, Pcs, StartPcs, sessionVars, objectVars,
      turnVars, fileVars

\* TurnStarts keeps every variable in its type.
LEMMA TurnStartsTypes ==
  ASSUME TypeOK, HandlersHoldRuns, NEW h \in Handlers, TurnStarts(h)
  PROVE  TypeOK'
<1> DEFINE r == nextRun + 1
<1>1. r \in 1 .. MaxRuns /\ r \in Runs /\ r \in 0 .. MaxRuns
  BY ConstantsAssumption DEF TurnStarts, TypeOK, FilesTypeOK, Runs
<1>2. HandlersTypeOK'
  <2>1. \/ pc' = [pc EXCEPT ![h] = "publishInitial"] /\ strm' = [strm EXCEPT ![h] = r]
        \/ pc' = [pc EXCEPT ![h] = "publishNext"] /\ strm' = strm
    BY DEF TurnStarts, Goto
  <2>2. pc' \in [Handlers -> Pcs]
    BY <2>1 DEF TypeOK, HandlersTypeOK, Pcs, StartPcs
  <2>3. strm' \in [Handlers -> 0 .. MaxRuns]
    <3> HIDE DEF r
    <3> QED BY <1>1, <2>1 DEF TypeOK, HandlersTypeOK
  <2> QED BY <2>2, <2>3 DEF TurnStarts, TypeOK, HandlersTypeOK
<1>3. ScopeTypeOK'
  BY DEF TurnStarts, TypeOK, ScopeTypeOK, sessionVars
<1>4. ObjectsTypeOK'
  <2>1. CASE self[h] = None
    BY <2>1 DEF TurnStarts, TypeOK, ObjectsTypeOK, objectVars
  <2>2. CASE self[h] # None
    <3>1. run' \in [Handlers -> 0 .. MaxRuns]
      <4>1. run' = [run EXCEPT ![self[h]] = r]
        BY <2>2 DEF TurnStarts
      <4> HIDE DEF r
      <4> QED BY <1>1, <4>1 DEF TypeOK, ObjectsTypeOK
    <3>2. view' \in [Handlers -> ViewStatuses]
      BY <2>2 DEF TurnStarts, TypeOK, ObjectsTypeOK, ViewStatuses
    <3> QED BY <2>2, <3>1, <3>2 DEF TurnStarts, TypeOK, ObjectsTypeOK
  <2> QED BY <2>1, <2>2
<1>5. TurnsTypeOK'
  <2>1. sent' \in [Runs -> Seq(Handlers)] /\ usedSess' \in [Runs -> Sessions]
    BY DEF TurnStarts, TypeOK, TurnsTypeOK, HandlersTypeOK
  <2> QED BY <2>1 DEF TurnStarts, TypeOK, TurnsTypeOK
<1>6. FilesTypeOK'
  BY <1>1 DEF TurnStarts, TypeOK, FilesTypeOK, ViewStatuses
<1> QED BY <1>2, <1>3, <1>4, <1>5, <1>6 DEF TypeOK

\* InitialPublished keeps every variable in its type.
LEMMA InitialPublishedTypes ==
  ASSUME TypeOK, HandlersHoldRuns, NEW h \in Handlers, InitialPublished(h)
  PROVE  TypeOK'
BY DEF TypeOK, HandlersTypeOK, ScopeTypeOK, ObjectsTypeOK, TurnsTypeOK, FilesTypeOK,
      InitialPublished, Goto, Pcs, sessionVars, turnVars, fileVars

\* NextPublished keeps every variable in its type.
LEMMA NextPublishedTypes ==
  ASSUME TypeOK, HandlersHoldRuns, NEW h \in Handlers, NextPublished(h)
  PROVE  TypeOK'
<1>1. /\ pc' \in [Handlers -> Pcs]
      /\ self' \in [Handlers -> Handlers \union {None}]
      /\ strm' \in [Handlers -> 0 .. MaxRuns]
  BY ConsumeTypes DEF NextPublished
<1>2. HandlersTypeOK'
  BY <1>1 DEF TypeOK, HandlersTypeOK, NextPublished, handlerVars
<1>3. ScopeTypeOK'
  BY DEF TypeOK, ScopeTypeOK, NextPublished, sessionVars
<1>4. ObjectsTypeOK'
  BY DEF TypeOK, ObjectsTypeOK, NextPublished, objectVars
<1>5. TurnsTypeOK'
  BY DEF TypeOK, TurnsTypeOK, NextPublished, turnVars
<1>6. FilesTypeOK'
  BY DEF TypeOK, FilesTypeOK, NextPublished, fileVars
<1> QED BY <1>2, <1>3, <1>4, <1>5, <1>6 DEF TypeOK

\* ConsumeProgress keeps every variable in its type.
LEMMA ConsumeProgressTypes ==
  ASSUME TypeOK, HandlersHoldRuns, NEW h \in Handlers, ConsumeProgress(h)
  PROVE  TypeOK'
BY DEF TypeOK, HandlersTypeOK, ScopeTypeOK, ObjectsTypeOK, TurnsTypeOK, FilesTypeOK,
      ConsumeProgress, Reduce, ViewStatuses, Terminal, HandlersHoldRuns, HoldsRun, Goto, Pcs,
      sessionVars, turnVars, fileVars

\* ConsumeRequest keeps every variable in its type.
LEMMA ConsumeRequestTypes ==
  ASSUME TypeOK, HandlersHoldRuns, NEW h \in Handlers, NEW kind \in RequestKinds,
         ConsumeRequest(h, kind)
  PROVE  TypeOK'
<1> DEFINE r == strm[h]
           q == [run |-> r, n |-> asked[r] + 1, kind |-> kind]
<1>1. self[h] # None /\ r \in Runs
  BY DEF ConsumeRequest, HandlersHoldRuns, HoldsRun, TypeOK, HandlersTypeOK, Runs
<1>2. asked[r] + 1 \in 1 .. MaxRequests
  BY <1>1, ConstantsAssumption DEF ConsumeRequest, TypeOK, TurnsTypeOK
<1>3. q \in Requests
  BY <1>1, <1>2 DEF Requests
<1>4. /\ pc' \in [Handlers -> Pcs]
      /\ ev' \in [Handlers -> RequestKinds \union {"none", "progress", "terminal"}]
      /\ view' \in [Handlers -> ViewStatuses]
      /\ pending' \in [Handlers -> Requests \union {None}]
  <2>1. CASE timedOut[self[h]]
    BY <2>1 DEF ConsumeRequest, TypeOK, HandlersTypeOK, ObjectsTypeOK
  <2>2. CASE ~timedOut[self[h]]
    <3>1. Reduce(h, kind, "pending", q)
      BY <2>2 DEF ConsumeRequest
    <3>2. "pending" \in ViewStatuses
      BY DEF ViewStatuses
    <3> QED BY <1>1, <1>3, <3>1, <3>2, ReduceTypes
  <2> QED BY <2>1, <2>2
<1>5. HandlersTypeOK'
  BY <1>4 DEF ConsumeRequest, TypeOK, HandlersTypeOK
<1>6. ScopeTypeOK'
  BY DEF ConsumeRequest, TypeOK, ScopeTypeOK, sessionVars
<1>7. ObjectsTypeOK'
  BY <1>4 DEF ConsumeRequest, TypeOK, ObjectsTypeOK
<1>8. TurnsTypeOK'
  <2>1. asked' = [asked EXCEPT ![r] = asked[r] + 1] /\ unanswered' = unanswered \union {q}
    BY DEF ConsumeRequest
  <2>2. asked' \in [Runs -> 0 .. MaxRequests]
    BY <1>1, <1>2, <2>1 DEF TypeOK, TurnsTypeOK
  <2>3. unanswered' \subseteq Requests
    BY <1>3, <2>1 DEF TypeOK, TurnsTypeOK
  <2> QED BY <2>2, <2>3 DEF ConsumeRequest, TypeOK, TurnsTypeOK
<1>9. FilesTypeOK'
  BY DEF ConsumeRequest, TypeOK, FilesTypeOK, fileVars
<1> QED BY <1>5, <1>6, <1>7, <1>8, <1>9 DEF TypeOK

\* ConsumeTerminal keeps every variable in its type.
LEMMA ConsumeTerminalTypes ==
  ASSUME TypeOK, HandlersHoldRuns, NEW h \in Handlers, NEW silent \in BOOLEAN,
         ConsumeTerminal(h, silent)
  PROVE  TypeOK'
<1> DEFINE o == self[h]
           r == strm[h]
<1>1. self[h] # None /\ self[h] \in Handlers /\ turn[r] \in Terminal
  BY DEF ConsumeTerminal, HandlersHoldRuns, HoldsRun, TypeOK, HandlersTypeOK
<1>2. /\ pc' \in [Handlers -> Pcs]
      /\ ev' \in [Handlers -> RequestKinds \union {"none", "progress", "terminal"}]
      /\ view' \in [Handlers -> ViewStatuses]
      /\ pending' \in [Handlers -> Requests \union {None}]
      /\ timer' \in [Handlers -> BOOLEAN]
  <2>1. CASE /\ view' \in {[view EXCEPT ![o] = "timed_out"], [view EXCEPT ![o] = "interrupted"]}
             /\ pending' = [pending EXCEPT ![o] = None]
             /\ Goto(h, "publishEnd") /\ ScopeTimer(FALSE) /\ UNCHANGED ev
    <3>1. pc' \in [Handlers -> Pcs]
      BY <2>1, GotoTypes DEF Pcs
    <3>2. timer' \in [Handlers -> BOOLEAN]
      BY <2>1, ScopeTimerTypes
    <3>3. view' \in [Handlers -> ViewStatuses]
      BY <2>1 DEF TypeOK, ObjectsTypeOK, ViewStatuses, Terminal
    <3>4. pending' \in [Handlers -> Requests \union {None}]
      BY <2>1 DEF TypeOK, ObjectsTypeOK
    <3> QED BY <2>1, <3>1, <3>2, <3>3, <3>4 DEF TypeOK, HandlersTypeOK
  <2>2. CASE Goto(h, "failed") /\ ScopeTimer(FALSE) /\ UNCHANGED <<ev, view, pending>>
    <3>1. pc' \in [Handlers -> Pcs]
      BY <2>2, GotoTypes DEF Pcs
    <3>2. timer' \in [Handlers -> BOOLEAN]
      BY <2>2, ScopeTimerTypes
    <3> QED BY <2>2, <3>1, <3>2 DEF TypeOK, HandlersTypeOK, ObjectsTypeOK
  <2>3. CASE Reduce(h, "terminal", turn[r], None) /\ UNCHANGED timer
    <3>1. turn[r] \in ViewStatuses
      BY <1>1 DEF ViewStatuses
    <3> QED BY <1>1, <2>3, <3>1, ReduceTypes DEF TypeOK, ObjectsTypeOK
  <2> QED BY <2>1, <2>2, <2>3 DEF ConsumeTerminal
<1>3. HandlersTypeOK'
  BY <1>2 DEF ConsumeTerminal, TypeOK, HandlersTypeOK
<1>4. ScopeTypeOK'
  BY DEF ConsumeTerminal, TypeOK, ScopeTypeOK, sessionVars
<1>5. ObjectsTypeOK'
  BY <1>2 DEF ConsumeTerminal, TypeOK, ObjectsTypeOK
<1>6. TurnsTypeOK'
  BY DEF ConsumeTerminal, TypeOK, TurnsTypeOK
<1>7. FilesTypeOK'
  BY DEF ConsumeTerminal, TypeOK, FilesTypeOK, fileVars
<1> QED BY <1>3, <1>4, <1>5, <1>6, <1>7 DEF TypeOK

\* PauseForOwner keeps every variable in its type.
LEMMA PauseForOwnerTypes ==
  ASSUME TypeOK, HandlersHoldRuns, NEW h \in Handlers, PauseForOwner(h)
  PROVE  TypeOK'
<1>1. timer' \in [Handlers -> BOOLEAN]
  BY ScopeTimerTypes DEF PauseForOwner
<1>2. /\ pc' \in [Handlers -> Pcs]
      /\ self' \in [Handlers -> Handlers \union {None}]
      /\ stopReq' \in [Handlers -> BOOLEAN]
      /\ queue' \in [Handlers -> Seq(Handlers)]
      /\ stopAsked' \in [Runs -> BOOLEAN]
      /\ record' \in [Requests -> {"none", "open", "resolved", "cancelled"}]
  <2>1. CASE Goto(h, "failed") /\ UNCHANGED <<self, stopReq, queue, stopAsked, record>>
    <3>1. pc' \in [Handlers -> Pcs]
      BY <2>1, GotoTypes DEF Pcs
    <3> QED
      BY <2>1, <3>1 DEF TypeOK, HandlersTypeOK, ObjectsTypeOK, TurnsTypeOK, FilesTypeOK
  <2>2. CASE record' = [record EXCEPT ![pending[self[h]]] = "open"] /\ AfterPause(h)
    <3>1. record' \in [Requests -> {"none", "open", "resolved", "cancelled"}]
      BY <2>2 DEF TypeOK, FilesTypeOK
    <3> QED BY <2>2, <3>1, AfterPauseTypes
  <2> QED BY <2>1, <2>2 DEF PauseForOwner
<1>3. HandlersTypeOK'
  BY <1>2 DEF PauseForOwner, TypeOK, HandlersTypeOK
<1>4. ScopeTypeOK'
  BY DEF PauseForOwner, TypeOK, ScopeTypeOK, sessionVars
<1>5. ObjectsTypeOK'
  BY <1>1, <1>2 DEF PauseForOwner, TypeOK, ObjectsTypeOK
<1>6. TurnsTypeOK'
  BY <1>2 DEF PauseForOwner, TypeOK, TurnsTypeOK
<1>7. FilesTypeOK'
  BY <1>2 DEF PauseForOwner, TypeOK, FilesTypeOK
<1> QED BY <1>3, <1>4, <1>5, <1>6, <1>7 DEF TypeOK

\* ContinueConsuming keeps every variable in its type.
LEMMA ContinueConsumingTypes ==
  ASSUME TypeOK, HandlersHoldRuns, NEW h \in Handlers, ContinueConsuming(h)
  PROVE  TypeOK'
BY DEF TypeOK, HandlersTypeOK, ScopeTypeOK, ObjectsTypeOK, TurnsTypeOK, FilesTypeOK,
      ContinueConsuming, ScopeTimer, Goto, Pcs, sessionVars, turnVars, fileVars

\* FinishRun keeps every variable in its type.
LEMMA FinishRunTypes ==
  ASSUME TypeOK, HandlersHoldRuns, NEW h \in Handlers, FinishRun(h)
  PROVE  TypeOK'
<1>1. self[h] \in Handlers /\ view[self[h]] \in ViewStatuses
  BY DEF FinishRun, TerminalViewOut, HandlersHoldRuns, HoldsRun, TypeOK, HandlersTypeOK,
     ObjectsTypeOK
<1>2. /\ pc' \in [Handlers -> Pcs]
      /\ sess' \in [Handlers -> Sessions]
      /\ selected' \in Sessions \union {None} /\ fresh' \in BOOLEAN
      /\ workspace' \in Workspaces /\ epoch' \in Nat
      /\ record' \in [Requests -> {"none", "open", "resolved", "cancelled"}]
      /\ status' \in [Runs -> ViewStatuses \union {"none"}]
      /\ timer' \in [Handlers -> BOOLEAN]
      /\ future' \in [Handlers -> BOOLEAN]
      /\ active' \in Handlers \union {None}
  BY <1>1, FinishAndReleaseTypes DEF FinishRun
<1>3. HandlersTypeOK'
  BY <1>2 DEF TypeOK, HandlersTypeOK, FinishRun, handlerVars
<1>4. ScopeTypeOK'
  BY <1>2 DEF TypeOK, ScopeTypeOK, FinishRun, sessionVars
<1>5. ObjectsTypeOK'
  BY <1>2 DEF TypeOK, ObjectsTypeOK, FinishRun, objectVars
<1>6. TurnsTypeOK'
  BY DEF TypeOK, TurnsTypeOK, FinishRun, turnVars
<1>7. FilesTypeOK'
  BY <1>2 DEF TypeOK, FilesTypeOK, FinishRun, fileVars
<1> QED BY <1>3, <1>4, <1>5, <1>6, <1>7 DEF TypeOK

\* StartQueuedTurn keeps every variable in its type.
LEMMA StartQueuedTurnTypes ==
  ASSUME TypeOK, HandlersHoldRuns, NEW h \in Handlers, NEW k \in 1 .. Cardinality(Handlers),
         StartQueuedTurn(h, k)
  PROVE  TypeOK'
<1>1. active \in Handlers /\ queue[active] \in Seq(Handlers) /\ k \in 1 .. Len(queue[active])
  BY DEF StartQueuedTurn, TypeOK, ScopeTypeOK, ObjectsTypeOK
<1>2. SubSeq(queue[active], 1, k) \in Seq(Handlers)
  BY <1>1, SubSeqProperties
<1>3. Remaining(queue[active], k) \in Seq(Handlers)
  BY <1>1, SubSeqProperties DEF Remaining
<1>4. pc' \in [Handlers -> Pcs] /\ sess' \in [Handlers -> Sessions]
  BY RequestSessionTypes DEF StartQueuedTurn
<1>5. timer' \in [Handlers -> BOOLEAN]
  BY ScopeTimerTypes DEF StartQueuedTurn
<1>6. HandlersTypeOK'
  BY <1>1, <1>2, <1>4 DEF StartQueuedTurn, TypeOK, HandlersTypeOK
<1>7. ScopeTypeOK'
  BY DEF StartQueuedTurn, TypeOK, ScopeTypeOK, sessionVars
<1>8. ObjectsTypeOK'
  <2>1. queue' = [queue EXCEPT ![active] = Remaining(queue[active], k)]
    BY DEF StartQueuedTurn
  <2>2. queue' \in [Handlers -> Seq(Handlers)]
    BY <1>3, <2>1 DEF TypeOK, ObjectsTypeOK
  <2> QED BY <1>5, <2>2 DEF StartQueuedTurn, TypeOK, ObjectsTypeOK
<1>9. TurnsTypeOK' /\ FilesTypeOK'
  BY DEF StartQueuedTurn, TypeOK, TurnsTypeOK, FilesTypeOK, turnVars, fileVars
<1> QED BY <1>6, <1>7, <1>8, <1>9 DEF TypeOK

\* StartQueuedTurnElsewhere keeps every variable in its type.
LEMMA StartQueuedTurnElsewhereTypes ==
  ASSUME TypeOK, HandlersHoldRuns, NEW h \in Handlers, StartQueuedTurnElsewhere(h)
  PROVE  TypeOK'
<1>1. /\ pc' \in [Handlers -> Pcs]
      /\ sess' \in [Handlers -> Sessions]
      /\ selected' \in Sessions \union {None} /\ fresh' \in BOOLEAN
      /\ workspace' \in Workspaces /\ epoch' \in Nat
      /\ record' \in [Requests -> {"none", "open", "resolved", "cancelled"}]
      /\ status' \in [Runs -> ViewStatuses \union {"none"}]
      /\ timer' \in [Handlers -> BOOLEAN]
      /\ active' \in Handlers \union {None}
  <2>1. CASE CanFinish
    <3>1. view[active] \in ViewStatuses
      BY <2>1 DEF CanFinish, TypeOK, ScopeTypeOK, ObjectsTypeOK
    <3>2. /\ Finish(view[active])
          /\ \/ Goto(h, "failed") /\ UNCHANGED <<sess, sessionVars>>
             \/ CallerResumes(h)
      BY <2>1 DEF StartQueuedTurnElsewhere
    <3>3. /\ record' \in [Requests -> {"none", "open", "resolved", "cancelled"}]
          /\ status' \in [Runs -> ViewStatuses \union {"none"}]
          /\ timer' \in [Handlers -> BOOLEAN]
          /\ active' \in Handlers \union {None}
      BY <3>1, <3>2, FinishTypes
    <3>4. CASE CallerResumes(h)
      BY <3>3, <3>4, CallerResumesTypes
    <3>5. CASE Goto(h, "failed") /\ UNCHANGED <<sess, sessionVars>>
      <4>1. pc' \in [Handlers -> Pcs]
        BY <3>5, GotoTypes DEF Pcs
      <4> QED BY <3>3, <3>5, <4>1 DEF TypeOK, HandlersTypeOK, ScopeTypeOK, sessionVars
    <3> QED BY <3>2, <3>4, <3>5
  <2>2. CASE ~CanFinish
    <3>1. /\ Goto(h, "failed") /\ ScopeTimer(FALSE)
          /\ UNCHANGED <<sess, sessionVars, record, status, active>>
      BY <2>2 DEF StartQueuedTurnElsewhere
    <3>2. pc' \in [Handlers -> Pcs] /\ timer' \in [Handlers -> BOOLEAN]
      BY <3>1, GotoTypes, ScopeTimerTypes DEF Pcs
    <3> QED BY <3>1, <3>2 DEF TypeOK, HandlersTypeOK, ScopeTypeOK, FilesTypeOK, sessionVars
  <2> QED BY <2>1, <2>2
<1>2. HandlersTypeOK'
  BY <1>1 DEF StartQueuedTurnElsewhere, TypeOK, HandlersTypeOK
<1>3. ScopeTypeOK'
  BY <1>1 DEF StartQueuedTurnElsewhere, TypeOK, ScopeTypeOK
<1>4. ObjectsTypeOK'
  BY <1>1 DEF StartQueuedTurnElsewhere, TypeOK, ObjectsTypeOK
<1>5. TurnsTypeOK'
  BY DEF StartQueuedTurnElsewhere, TypeOK, TurnsTypeOK, turnVars
<1>6. FilesTypeOK'
  BY <1>1 DEF StartQueuedTurnElsewhere, TypeOK, FilesTypeOK
<1> QED BY <1>2, <1>3, <1>4, <1>5, <1>6 DEF TypeOK

\* FinishEndedRun keeps every variable in its type.
LEMMA FinishEndedRunTypes ==
  ASSUME TypeOK, HandlersHoldRuns, NEW h \in Handlers, FinishEndedRun(h)
  PROVE  TypeOK'
<1>1. {"timed_out", "interrupted"} \subseteq ViewStatuses
  BY DEF ViewStatuses, Terminal
<1>2. /\ pc' \in [Handlers -> Pcs]
      /\ sess' \in [Handlers -> Sessions]
      /\ selected' \in Sessions \union {None} /\ fresh' \in BOOLEAN
      /\ workspace' \in Workspaces /\ epoch' \in Nat
      /\ record' \in [Requests -> {"none", "open", "resolved", "cancelled"}]
      /\ status' \in [Runs -> ViewStatuses \union {"none"}]
      /\ timer' \in [Handlers -> BOOLEAN]
      /\ future' \in [Handlers -> BOOLEAN]
      /\ active' \in Handlers \union {None}
  BY <1>1, FinishAndReleaseTypes DEF FinishEndedRun
<1>3. HandlersTypeOK'
  BY <1>2 DEF TypeOK, HandlersTypeOK, FinishEndedRun, handlerVars
<1>4. ScopeTypeOK'
  BY <1>2 DEF TypeOK, ScopeTypeOK, FinishEndedRun, sessionVars
<1>5. ObjectsTypeOK'
  BY <1>2 DEF TypeOK, ObjectsTypeOK, FinishEndedRun, objectVars
<1>6. TurnsTypeOK'
  BY DEF TypeOK, TurnsTypeOK, FinishEndedRun, turnVars
<1>7. FilesTypeOK'
  BY <1>2 DEF TypeOK, FilesTypeOK, FinishEndedRun, fileVars
<1> QED BY <1>3, <1>4, <1>5, <1>6, <1>7 DEF TypeOK

\* AnswerDelivered keeps every variable in its type.
LEMMA AnswerDeliveredTypes ==
  ASSUME TypeOK, HandlersHoldRuns, NEW h \in Handlers, AnswerDelivered(h)
  PROVE  TypeOK'
<1>1. HandlersTypeOK'
  BY DEF TypeOK, HandlersTypeOK, AnswerDelivered, Goto, Pcs, handlerVars
<1>2. ScopeTypeOK'
  BY DEF TypeOK, ScopeTypeOK, AnswerDelivered, sessionVars
<1>3. ObjectsTypeOK'
  BY DEF TypeOK, ObjectsTypeOK, AnswerDelivered, ViewStatuses, objectVars
<1>4. TurnsTypeOK'
  BY DEF TypeOK, TurnsTypeOK, AnswerDelivered, turnVars
<1>5. FilesTypeOK'
  BY DEF TypeOK, FilesTypeOK, AnswerDelivered, fileVars
<1> QED BY <1>1, <1>2, <1>3, <1>4, <1>5 DEF TypeOK

\* ResolvedPublished keeps every variable in its type.
LEMMA ResolvedPublishedTypes ==
  ASSUME TypeOK, HandlersHoldRuns, NEW h \in Handlers, ResolvedPublished(h)
  PROVE  TypeOK'
<1>1. /\ pc' \in [Handlers -> Pcs]
      /\ self' \in [Handlers -> Handlers \union {None}]
      /\ strm' \in [Handlers -> 0 .. MaxRuns]
  BY ConsumeTypes DEF ResolvedPublished
<1>2. timer' \in [Handlers -> BOOLEAN]
  <2>1. timeoutOn \in BOOLEAN
    BY DEF TypeOK, ScopeTypeOK
  <2> QED BY <2>1, ScopeTimerTypes DEF ResolvedPublished
<1>3. HandlersTypeOK'
  BY <1>1 DEF TypeOK, HandlersTypeOK, ResolvedPublished, handlerVars
<1>4. ScopeTypeOK'
  BY DEF TypeOK, ScopeTypeOK, ResolvedPublished, sessionVars
<1>5. ObjectsTypeOK'
  BY <1>2 DEF TypeOK, ObjectsTypeOK, ResolvedPublished, objectVars
<1>6. TurnsTypeOK'
  BY DEF TypeOK, TurnsTypeOK, ResolvedPublished, turnVars
<1>7. FilesTypeOK'
  BY DEF TypeOK, FilesTypeOK, ResolvedPublished, fileVars
<1> QED BY <1>3, <1>4, <1>5, <1>6, <1>7 DEF TypeOK

\* PausedTurnStopped keeps every variable in its type.
LEMMA PausedTurnStoppedTypes ==
  ASSUME TypeOK, HandlersHoldRuns, NEW h \in Handlers, PausedTurnStopped(h)
  PROVE  TypeOK'
BY DEF TypeOK, HandlersTypeOK, ScopeTypeOK, ObjectsTypeOK, TurnsTypeOK, FilesTypeOK,
      PausedTurnStopped, ViewStatuses, Terminal, Goto, Pcs, sessionVars, turnVars, fileVars

\* FinishStoppedRun keeps every variable in its type.
LEMMA FinishStoppedRunTypes ==
  ASSUME TypeOK, HandlersHoldRuns, NEW h \in Handlers, FinishStoppedRun(h)
  PROVE  TypeOK'
<1>1. {"timed_out", "interrupted"} \subseteq ViewStatuses
  BY DEF ViewStatuses, Terminal
<1>2. /\ pc' \in [Handlers -> Pcs]
      /\ sess' \in [Handlers -> Sessions]
      /\ selected' \in Sessions \union {None} /\ fresh' \in BOOLEAN
      /\ workspace' \in Workspaces /\ epoch' \in Nat
      /\ record' \in [Requests -> {"none", "open", "resolved", "cancelled"}]
      /\ status' \in [Runs -> ViewStatuses \union {"none"}]
      /\ timer' \in [Handlers -> BOOLEAN]
      /\ future' \in [Handlers -> BOOLEAN]
      /\ active' \in Handlers \union {None}
  BY <1>1, FinishAndReleaseTypes DEF FinishStoppedRun
<1>3. HandlersTypeOK'
  BY <1>2 DEF TypeOK, HandlersTypeOK, FinishStoppedRun, handlerVars
<1>4. ScopeTypeOK'
  BY <1>2 DEF TypeOK, ScopeTypeOK, FinishStoppedRun, sessionVars
<1>5. ObjectsTypeOK'
  BY <1>2 DEF TypeOK, ObjectsTypeOK, FinishStoppedRun, objectVars
<1>6. TurnsTypeOK'
  BY DEF TypeOK, TurnsTypeOK, FinishStoppedRun, turnVars
<1>7. FilesTypeOK'
  BY <1>2 DEF TypeOK, FilesTypeOK, FinishStoppedRun, fileVars
<1> QED BY <1>3, <1>4, <1>5, <1>6, <1>7 DEF TypeOK

\* StopAcknowledged keeps every variable in its type.
LEMMA StopAcknowledgedTypes ==
  ASSUME TypeOK, HandlersHoldRuns, NEW h \in Handlers, StopAcknowledged(h)
  PROVE  TypeOK'
<1>1. /\ pc' \in [Handlers -> Pcs]
      /\ sess' \in [Handlers -> Sessions]
      /\ selected' \in Sessions \union {None} /\ fresh' \in BOOLEAN
      /\ workspace' \in Workspaces /\ epoch' \in Nat
  <2>1. CASE future[self[h]]
    BY <2>1, CallerResumesTypes DEF StopAcknowledged
  <2>2. CASE ~future[self[h]]
    BY <2>2 DEF StopAcknowledged, TypeOK, HandlersTypeOK, ScopeTypeOK, Goto, Pcs, sessionVars
  <2> QED BY <2>1, <2>2
<1>2. HandlersTypeOK'
  BY <1>1 DEF TypeOK, HandlersTypeOK, StopAcknowledged, handlerVars
<1>3. ScopeTypeOK'
  BY <1>1 DEF TypeOK, ScopeTypeOK, StopAcknowledged, sessionVars
<1>4. ObjectsTypeOK'
  BY DEF TypeOK, ObjectsTypeOK, StopAcknowledged, objectVars
<1>5. TurnsTypeOK'
  BY DEF TypeOK, TurnsTypeOK, StopAcknowledged, turnVars
<1>6. FilesTypeOK'
  BY DEF TypeOK, FilesTypeOK, StopAcknowledged, fileVars
<1> QED BY <1>2, <1>3, <1>4, <1>5, <1>6 DEF TypeOK

\* SelectedSessionCreated keeps every variable in its type.
LEMMA SelectedSessionCreatedTypes ==
  ASSUME TypeOK, HandlersHoldRuns, NEW h \in Handlers, SelectedSessionCreated(h)
  PROVE  TypeOK'
BY DEF TypeOK, HandlersTypeOK, ScopeTypeOK, ObjectsTypeOK, TurnsTypeOK, FilesTypeOK,
      SelectedSessionCreated, Goto, Pcs, objectVars, turnVars, fileVars

\* AgentTurnEnds keeps every variable in its type.
LEMMA AgentTurnEndsTypes ==
  ASSUME TypeOK, HandlersHoldRuns, NEW r \in Runs, NEW outcome \in Terminal, AgentTurnEnds(r,
         outcome)
  PROVE  TypeOK'
BY DEF TypeOK, HandlersTypeOK, ScopeTypeOK, ObjectsTypeOK, TurnsTypeOK, FilesTypeOK,
      AgentTurnEnds, handlerVars, sessionVars, objectVars, fileVars

\* IdleTimerFires keeps every variable in its type.
LEMMA IdleTimerFiresTypes ==
  ASSUME TypeOK, HandlersHoldRuns, NEW h \in Handlers, IdleTimerFires(h)
  PROVE  TypeOK'
BY DEF TypeOK, HandlersTypeOK, ScopeTypeOK, ObjectsTypeOK, TurnsTypeOK, FilesTypeOK,
      IdleTimerFires, handlerVars, sessionVars, turnVars, fileVars

\* HandleIdleTimeout keeps every variable in its type.
LEMMA HandleIdleTimeoutTypes ==
  ASSUME TypeOK, HandlersHoldRuns, HandleIdleTimeout
  PROVE  TypeOK'
<1>1. /\ timedOut' \in [Handlers -> BOOLEAN]
      /\ queue' \in [Handlers -> Seq(Handlers)]
      /\ stopAsked' \in [Runs -> BOOLEAN]
  <2>1. CASE UNCHANGED <<timedOut, queue, stopAsked>>
    BY <2>1 DEF TypeOK, ObjectsTypeOK, TurnsTypeOK
  <2>2. CASE /\ timedOut' = [timedOut EXCEPT ![active] = TRUE]
             /\ queue' = [queue EXCEPT ![active] = <<>>]
             /\ stopAsked' = [stopAsked EXCEPT ![run[active]] = TRUE]
    <3>1. <<>> \in Seq(Handlers)
      OBVIOUS
    <3>2. timedOut' \in [Handlers -> BOOLEAN]
      BY <2>2 DEF TypeOK, ObjectsTypeOK
    <3>3. queue' \in [Handlers -> Seq(Handlers)]
      BY <2>2, <3>1 DEF TypeOK, ObjectsTypeOK
    <3>4. stopAsked' \in [Runs -> BOOLEAN]
      BY <2>2 DEF TypeOK, TurnsTypeOK
    <3> QED BY <3>2, <3>3, <3>4
  <2> QED BY <2>1, <2>2 DEF HandleIdleTimeout
<1>2. HandlersTypeOK'
  BY DEF TypeOK, HandlersTypeOK, HandleIdleTimeout, handlerVars
<1>3. ScopeTypeOK'
  BY DEF TypeOK, ScopeTypeOK, HandleIdleTimeout, sessionVars
<1>4. ObjectsTypeOK'
  BY <1>1 DEF TypeOK, ObjectsTypeOK, HandleIdleTimeout, objectVars
<1>5. TurnsTypeOK'
  BY <1>1 DEF TypeOK, TurnsTypeOK, HandleIdleTimeout, turnVars
<1>6. FilesTypeOK'
  BY DEF TypeOK, FilesTypeOK, HandleIdleTimeout, fileVars
<1> QED BY <1>2, <1>3, <1>4, <1>5, <1>6 DEF TypeOK

\* CallFails keeps every variable in its type.
LEMMA CallFailsTypes ==
  ASSUME TypeOK, HandlersHoldRuns, NEW h \in Handlers, CallFails(h)
  PROVE  TypeOK'
BY DEF TypeOK, HandlersTypeOK, ScopeTypeOK, ObjectsTypeOK, TurnsTypeOK, FilesTypeOK,
      CallFails, Goto, Pcs, sessionVars, objectVars, turnVars, fileVars

\* Restart keeps every variable in its type.
LEMMA RestartTypes ==
  ASSUME TypeOK, HandlersHoldRuns, Restart
  PROVE  TypeOK'
<1>1. HandlersTypeOK'
  BY DEF TypeOK, HandlersTypeOK, Restart, Pcs, handlerVars
<1>2. ScopeTypeOK'
  BY ConstantsAssumption DEF TypeOK, ScopeTypeOK, Restart, sessionVars
<1>3. ObjectsTypeOK'
  BY DEF TypeOK, ObjectsTypeOK, Restart, objectVars
<1>4. TurnsTypeOK'
  BY DEF TypeOK, TurnsTypeOK, Restart, turnVars
<1>5. FilesTypeOK'
  BY ConstantsAssumption DEF TypeOK, FilesTypeOK, Restart, Recovered, ViewStatuses, Terminal,
     fileVars
<1> QED BY <1>1, <1>2, <1>3, <1>4, <1>5 DEF TypeOK

\* Init keeps every variable in its type.
LEMMA InitTypes == Init => TypeOK
<1> SUFFICES ASSUME Init PROVE TypeOK
  OBVIOUS
<1>1. HandlersTypeOK
  <2>1. <<>> \in Seq(Handlers) /\ [ws |-> Home, epoch |-> 0] \in Sessions
    BY ConstantsAssumption DEF Sessions
  <2>2. 0 \in 0 .. MaxRuns
    BY ConstantsAssumption
  <2> QED BY <2>1, <2>2 DEF Init, HandlersTypeOK, Pcs
<1>2. ScopeTypeOK
  BY ConstantsAssumption DEF Init, ScopeTypeOK
<1>3. ObjectsTypeOK
  <2>1. <<>> \in Seq(Handlers) /\ 0 \in 0 .. MaxRuns
    BY ConstantsAssumption
  <2> QED BY <2>1 DEF Init, ObjectsTypeOK, ViewStatuses
<1>4. TurnsTypeOK
  <2>1. <<>> \in Seq(Handlers) /\ [ws |-> Home, epoch |-> 0] \in Sessions
    BY ConstantsAssumption DEF Sessions
  <2>2. 0 \in 0 .. MaxRequests
    BY ConstantsAssumption
  <2> QED BY <2>1, <2>2 DEF Init, TurnsTypeOK
<1>5. FilesTypeOK
  BY ConstantsAssumption DEF Init, FilesTypeOK
<1> QED BY <1>1, <1>2, <1>3, <1>4, <1>5 DEF TypeOK
=============================================================================
