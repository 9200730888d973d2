------------------------ MODULE RunControllerProofs ------------------------
(***************************************************************************)
(* Theorems about RunController, for every set of handlers and workspaces, *)
(* every bound, both agents, every fault and every overlap of inputs: its  *)
(* variables keep their types, the scope's active run is the one the files *)
(* show as running, a terminal status is never overwritten, and the module *)
(* implements MessageDelivery.                                             *)
(*                                                                         *)
(* ActiveRunIsOpen is not inductive.  A run enters the files when its turn *)
(* starts, but becomes the active one only after its initial view is out,  *)
(* and any handler may finish the scope's entry in between.  RunRegistry   *)
(* therefore says that a run whose initial view is on its way is running,  *)
(* and is neither the run of any ActiveRun nor of another such handler; and*)
(* that a run is new to the files when its turn starts.                    *)
(***************************************************************************)
EXTENDS RunControllerTypeProofs

\* _finish and the recovery touch no run the bridge has not created yet.
RunsKnown ==
  /\ \A r \in Runs : r > nextRun => status[r] = "none"
  /\ \A h \in Handlers : run[h] <= nextRun /\ strm[h] <= nextRun

\* A run whose initial view is on its way belongs to one handler only.
InitialRunsApart ==
  \A h \in Handlers : pc[h] = "publishInitial" =>
    /\ status[strm[h]] = "running"
    /\ \A o \in Handlers : run[o] # strm[h]
    /\ \A g \in Handlers \ {h} : pc[g] = "publishInitial" => strm[g] # strm[h]

RunRegistry ==
  /\ RunsKnown
  /\ InitialRunsApart
  /\ active # None => run[active] # 0
  /\ ActiveRunIsOpen

\* The inductive invariant.
Inv == TypeOK /\ HandlersHoldRuns /\ RunRegistry

\* What a step may do to the statuses in the files.
TerminalStatusesKept == \A r \in Runs : status[r] \in Terminal => status'[r] = status[r]

-----------------------------------------------------------------------------
(* Two ways a step leaves the registry in order.                           *)

NoNewInitial ==
  \A g \in Handlers : pc'[g] = "publishInitial" => pc[g] = "publishInitial"
     /\ strm'[g] = strm[g]

\* A step that changes neither the runs nor the scope's entry keeps the registry.
LEMMA RegistryKept ==
  ASSUME RunRegistry, UNCHANGED <<active, run, status, nextRun>>, NoNewInitial,
         \A g \in Handlers : strm'[g] <= nextRun
  PROVE  RunRegistry'
BY DEF RunRegistry, RunsKnown, InitialRunsApart, ActiveRunIsOpen, NoNewInitial

\* _finish keeps the registry and overwrites no terminal status.
LEMMA RegistryAfterFinish ==
  ASSUME TypeOK, HandlersHoldRuns, RunRegistry, active # None, NEW st, Finish(st),
         NoNewInitial, UNCHANGED <<run, strm, nextRun>>
  PROVE  /\ RunRegistry'
         /\ TerminalStatusesKept
<1>1. active \in Handlers /\ run[active] \in Runs /\ status[run[active]] = "running"
  BY ConstantsAssumption DEF TypeOK, ScopeTypeOK, ObjectsTypeOK, RunRegistry, ActiveRunIsOpen,
     Runs
<1>2. status' = [status EXCEPT ![run[active]] = st] /\ active' = None
  BY DEF Finish
<1>3. \A r \in Runs : r # run[active] => status'[r] = status[r]
  BY <1>2 DEF TypeOK, FilesTypeOK
<1>4. RunsKnown'
  BY <1>1, <1>3 DEF RunRegistry, RunsKnown
<1>5. InitialRunsApart'
  <2>1. \A g \in Handlers : pc[g] = "publishInitial" => strm[g] \in Runs
     /\ strm[g] # run[active]
    BY <1>1 DEF RunRegistry, InitialRunsApart, HandlersHoldRuns, TypeOK, HandlersTypeOK, Runs
  <2> QED BY <1>1, <1>3, <2>1 DEF RunRegistry, InitialRunsApart, NoNewInitial
<1>6. TerminalStatusesKept
  BY <1>1, <1>3 DEF Terminal, TerminalStatusesKept
<1> QED BY <1>2, <1>4, <1>5, <1>6 DEF RunRegistry, ActiveRunIsOpen

-----------------------------------------------------------------------------
(* The actions that leave the statuses of the runs alone.                  *)

\* StartTextRun keeps the registry and writes no status.
LEMMA StartTextRunKeeps ==
  ASSUME TypeOK, HandlersHoldRuns, RunRegistry, NEW h \in Handlers, StartTextRun(h)
  PROVE  HandlersHoldRuns' /\ RunRegistry' /\ UNCHANGED status
<1>1. HandlersHoldRuns'
  BY ConstantsAssumption DEF HandlersHoldRuns, HoldsRun, TypeOK, HandlersTypeOK, ScopeTypeOK,
         StartTextRun, Arrives, RequestSession, Goto
<1>2. NoNewInitial
  BY DEF NoNewInitial, TypeOK, HandlersTypeOK, StartTextRun, Arrives, RequestSession, Goto
<1>3. UNCHANGED <<active, run, status, nextRun>>
  BY DEF StartTextRun, Arrives, RequestSession, objectVars, fileVars
<1>4. \A g \in Handlers : strm'[g] <= nextRun
  BY DEF RunRegistry, RunsKnown, TypeOK, HandlersTypeOK, ScopeTypeOK, StartTextRun, Arrives,
         RequestSession
<1> QED BY <1>1, <1>2, <1>3, <1>4, RegistryKept

\* QueueMessage keeps the registry and writes no status.
LEMMA QueueMessageKeeps ==
  ASSUME TypeOK, HandlersHoldRuns, RunRegistry, NEW h \in Handlers, QueueMessage(h)
  PROVE  HandlersHoldRuns' /\ RunRegistry' /\ UNCHANGED status
<1>1. HandlersHoldRuns'
  BY ConstantsAssumption DEF HandlersHoldRuns, HoldsRun, TypeOK, HandlersTypeOK, ScopeTypeOK,
         QueueMessage, Arrives, Goto
<1>2. NoNewInitial
  BY DEF NoNewInitial, TypeOK, HandlersTypeOK, QueueMessage, Arrives, Goto
<1>3. UNCHANGED <<active, run, status, nextRun>>
  BY DEF QueueMessage, Arrives, fileVars
<1>4. \A g \in Handlers : strm'[g] <= nextRun
  BY DEF RunRegistry, RunsKnown, TypeOK, HandlersTypeOK, ScopeTypeOK, QueueMessage, Arrives
<1> QED BY <1>1, <1>2, <1>3, <1>4, RegistryKept

\* AskForDecision keeps the registry and writes no status.
LEMMA AskForDecisionKeeps ==
  ASSUME TypeOK, HandlersHoldRuns, RunRegistry, NEW h \in Handlers, AskForDecision(h)
  PROVE  HandlersHoldRuns' /\ RunRegistry' /\ UNCHANGED status
<1>1. HandlersHoldRuns'
  BY ConstantsAssumption DEF HandlersHoldRuns, HoldsRun, TypeOK, HandlersTypeOK, ScopeTypeOK,
         AskForDecision, Arrives, Goto
<1>2. NoNewInitial
  BY DEF NoNewInitial, TypeOK, HandlersTypeOK, AskForDecision, Arrives, Goto
<1>3. UNCHANGED <<active, run, status, nextRun>>
  BY DEF AskForDecision, Arrives, objectVars, fileVars
<1>4. \A g \in Handlers : strm'[g] <= nextRun
  BY DEF RunRegistry, RunsKnown, TypeOK, HandlersTypeOK, ScopeTypeOK, AskForDecision, Arrives
<1> QED BY <1>1, <1>2, <1>3, <1>4, RegistryKept

\* AnswerRequest keeps the registry and writes no status.
LEMMA AnswerRequestKeeps ==
  ASSUME TypeOK, HandlersHoldRuns, RunRegistry,
         NEW h \in Handlers, NEW c \in {"text", "click"}, NEW d \in Decisions,
            AnswerRequest(h, c, d)
  PROVE  HandlersHoldRuns' /\ RunRegistry' /\ UNCHANGED status
<1>1. HandlersHoldRuns'
  BY ConstantsAssumption, ZenonT(40) DEF HandlersHoldRuns, HoldsRun, TypeOK, HandlersTypeOK, ScopeTypeOK,
         AnswerRequest, Arrives, SendAnswer, Paused, Goto
<1>2. NoNewInitial
  BY DEF NoNewInitial, TypeOK, HandlersTypeOK, AnswerRequest, Arrives, SendAnswer, Paused,
         Goto
<1>3. UNCHANGED <<active, run, status, nextRun>>
  BY DEF AnswerRequest, Arrives, SendAnswer, Paused, objectVars, fileVars
<1>4. \A g \in Handlers : strm'[g] <= nextRun
  BY DEF RunRegistry, RunsKnown, TypeOK, HandlersTypeOK, ScopeTypeOK, AnswerRequest, Arrives,
         SendAnswer, Paused
<1> QED BY <1>1, <1>2, <1>3, <1>4, RegistryKept

\* ClickStaleCard keeps the registry and writes no status.
LEMMA ClickStaleCardKeeps ==
  ASSUME TypeOK, HandlersHoldRuns, RunRegistry,
         NEW h \in Handlers, NEW q \in Requests, ClickStaleCard(h, q)
  PROVE  HandlersHoldRuns' /\ RunRegistry' /\ UNCHANGED status
<1>1. HandlersHoldRuns'
  BY ConstantsAssumption DEF HandlersHoldRuns, HoldsRun, TypeOK, HandlersTypeOK, ScopeTypeOK,
         ClickStaleCard, Arrives, Goto
<1>2. NoNewInitial
  BY DEF NoNewInitial, TypeOK, HandlersTypeOK, ClickStaleCard, Arrives, Goto
<1>3. UNCHANGED <<active, run, status, nextRun>>
  BY DEF ClickStaleCard, Arrives, objectVars, fileVars
<1>4. \A g \in Handlers : strm'[g] <= nextRun
  BY DEF RunRegistry, RunsKnown, TypeOK, HandlersTypeOK, ScopeTypeOK, ClickStaleCard, Arrives
<1> QED BY <1>1, <1>2, <1>3, <1>4, RegistryKept

\* Stop keeps the registry and writes no status.
LEMMA StopKeeps ==
  ASSUME TypeOK, HandlersHoldRuns, RunRegistry, NEW h \in Handlers, Stop(h)
  PROVE  HandlersHoldRuns' /\ RunRegistry' /\ UNCHANGED status
<1>1. HandlersHoldRuns'
  BY ConstantsAssumption DEF HandlersHoldRuns, HoldsRun, TypeOK, HandlersTypeOK, ScopeTypeOK,
         Stop, Arrives, StopRun, Goto
<1>2. NoNewInitial
  BY DEF NoNewInitial, TypeOK, HandlersTypeOK, Stop, Arrives, StopRun, Goto
<1>3. UNCHANGED <<active, run, status, nextRun>>
  BY DEF Stop, Arrives, StopRun, fileVars
<1>4. \A g \in Handlers : strm'[g] <= nextRun
  BY DEF RunRegistry, RunsKnown, TypeOK, HandlersTypeOK, ScopeTypeOK, Stop, Arrives, StopRun
<1> QED BY <1>1, <1>2, <1>3, <1>4, RegistryKept

\* Reset keeps the registry and writes no status.
LEMMA ResetKeeps ==
  ASSUME TypeOK, HandlersHoldRuns, RunRegistry, NEW h \in Handlers, Reset(h)
  PROVE  HandlersHoldRuns' /\ RunRegistry' /\ UNCHANGED status
<1>1. HandlersHoldRuns'
  BY ConstantsAssumption DEF HandlersHoldRuns, HoldsRun, TypeOK, HandlersTypeOK, ScopeTypeOK,
         Reset, Arrives, ClearAndCreate, SendAnswer, StopRun, Paused, Goto
<1>2. NoNewInitial
  BY DEF NoNewInitial, TypeOK, HandlersTypeOK, Reset, Arrives, ClearAndCreate, SendAnswer,
         StopRun, Paused, Goto
<1>3. UNCHANGED <<active, run, status, nextRun>>
  BY DEF Reset, Arrives, ClearAndCreate, SendAnswer, StopRun, Paused, fileVars
<1>4. \A g \in Handlers : strm'[g] <= nextRun
  BY DEF RunRegistry, RunsKnown, TypeOK, HandlersTypeOK, ScopeTypeOK, Reset, Arrives,
         ClearAndCreate, SendAnswer, StopRun, Paused
<1> QED BY <1>1, <1>2, <1>3, <1>4, RegistryKept

\* ChangeWorkspace keeps the registry and writes no status.
LEMMA ChangeWorkspaceKeeps ==
  ASSUME TypeOK, HandlersHoldRuns, RunRegistry,
         NEW h \in Handlers, NEW w \in Workspaces, ChangeWorkspace(h, w)
  PROVE  HandlersHoldRuns' /\ RunRegistry' /\ UNCHANGED status
<1>1. HandlersHoldRuns'
  BY ConstantsAssumption DEF HandlersHoldRuns, HoldsRun, TypeOK, HandlersTypeOK, ScopeTypeOK,
         ChangeWorkspace, Arrives, ClearAndCreate, StopRun, Goto
<1>2. NoNewInitial
  BY DEF NoNewInitial, TypeOK, HandlersTypeOK, ChangeWorkspace, Arrives, ClearAndCreate,
         StopRun, Goto
<1>3. UNCHANGED <<active, run, status, nextRun>>
  BY DEF ChangeWorkspace, Arrives, ClearAndCreate, StopRun, fileVars
<1>4. \A g \in Handlers : strm'[g] <= nextRun
  BY DEF RunRegistry, RunsKnown, TypeOK, HandlersTypeOK, ScopeTypeOK, ChangeWorkspace,
         Arrives, ClearAndCreate, StopRun
<1> QED BY <1>1, <1>2, <1>3, <1>4, RegistryKept

\* ClearSelectedSession keeps the registry and writes no status.
LEMMA ClearSelectedSessionKeeps ==
  ASSUME TypeOK, HandlersHoldRuns, RunRegistry, NEW h \in Handlers, ClearSelectedSession(h)
  PROVE  HandlersHoldRuns' /\ RunRegistry' /\ UNCHANGED status
<1>1. HandlersHoldRuns'
  BY ConstantsAssumption DEF HandlersHoldRuns, HoldsRun, TypeOK, HandlersTypeOK, ScopeTypeOK,
         ClearSelectedSession, Arrives, Goto
<1>2. NoNewInitial
  BY DEF NoNewInitial, TypeOK, HandlersTypeOK, ClearSelectedSession, Arrives, Goto
<1>3. UNCHANGED <<active, run, status, nextRun>>
  BY DEF ClearSelectedSession, Arrives, objectVars, fileVars
<1>4. \A g \in Handlers : strm'[g] <= nextRun
  BY DEF RunRegistry, RunsKnown, TypeOK, HandlersTypeOK, ScopeTypeOK, ClearSelectedSession,
         Arrives
<1> QED BY <1>1, <1>2, <1>3, <1>4, RegistryKept

\* ResumeSession keeps the registry and writes no status.
LEMMA ResumeSessionKeeps ==
  ASSUME TypeOK, HandlersHoldRuns, RunRegistry, NEW h \in Handlers, ResumeSession(h)
  PROVE  HandlersHoldRuns' /\ RunRegistry' /\ UNCHANGED status
<1>1. HandlersHoldRuns'
  BY ConstantsAssumption DEF HandlersHoldRuns, HoldsRun, TypeOK, HandlersTypeOK, ScopeTypeOK,
         ResumeSession, Arrives, Goto
<1>2. NoNewInitial
  BY DEF NoNewInitial, TypeOK, HandlersTypeOK, ResumeSession, Arrives, Goto
<1>3. UNCHANGED <<active, run, status, nextRun>>
  BY DEF ResumeSession, Arrives, objectVars, fileVars
<1>4. \A g \in Handlers : strm'[g] <= nextRun
  BY DEF RunRegistry, RunsKnown, TypeOK, HandlersTypeOK, ScopeTypeOK, ResumeSession, Arrives
<1> QED BY <1>1, <1>2, <1>3, <1>4, RegistryKept

\* SetIdleTimeout keeps the registry and writes no status.
LEMMA SetIdleTimeoutKeeps ==
  ASSUME TypeOK, HandlersHoldRuns, RunRegistry,
         NEW h \in Handlers, NEW on \in BOOLEAN, SetIdleTimeout(h, on)
  PROVE  HandlersHoldRuns' /\ RunRegistry' /\ UNCHANGED status
<1>1. HandlersHoldRuns'
  BY ConstantsAssumption DEF HandlersHoldRuns, HoldsRun, TypeOK, HandlersTypeOK, ScopeTypeOK,
         SetIdleTimeout, Arrives, ScopeTimer, Goto
<1>2. NoNewInitial
  BY DEF NoNewInitial, TypeOK, HandlersTypeOK, SetIdleTimeout, Arrives, ScopeTimer, Goto
<1>3. UNCHANGED <<active, run, status, nextRun>>
  BY DEF SetIdleTimeout, Arrives, ScopeTimer, fileVars
<1>4. \A g \in Handlers : strm'[g] <= nextRun
  BY DEF RunRegistry, RunsKnown, TypeOK, HandlersTypeOK, ScopeTypeOK, SetIdleTimeout, Arrives,
         ScopeTimer
<1> QED BY <1>1, <1>2, <1>3, <1>4, RegistryKept

\* SessionReady keeps the registry and writes no status.
LEMMA SessionReadyKeeps ==
  ASSUME TypeOK, HandlersHoldRuns, RunRegistry, NEW h \in Handlers, SessionReady(h)
  PROVE  HandlersHoldRuns' /\ RunRegistry' /\ UNCHANGED status
<1>1. HandlersHoldRuns'
  BY ConstantsAssumption DEF HandlersHoldRuns, HoldsRun, TypeOK, HandlersTypeOK, ScopeTypeOK,
         SessionReady, Goto
<1>2. NoNewInitial
  BY DEF NoNewInitial, TypeOK, HandlersTypeOK, SessionReady, Goto
<1>3. UNCHANGED <<active, run, status, nextRun>>
  BY DEF SessionReady, objectVars, fileVars
<1>4. \A g \in Handlers : strm'[g] <= nextRun
  BY DEF RunRegistry, RunsKnown, TypeOK, HandlersTypeOK, ScopeTypeOK, SessionReady
<1> QED BY <1>1, <1>2, <1>3, <1>4, RegistryKept

\* ThreadMissing keeps the registry and writes no status.
LEMMA ThreadMissingKeeps ==
  ASSUME TypeOK, HandlersHoldRuns, RunRegistry, NEW h \in Handlers, ThreadMissing(h)
  PROVE  HandlersHoldRuns' /\ RunRegistry' /\ UNCHANGED status
<1>1. HandlersHoldRuns'
  BY ConstantsAssumption DEF HandlersHoldRuns, HoldsRun, TypeOK, HandlersTypeOK, ScopeTypeOK,
         ThreadMissing, Goto
<1>2. NoNewInitial
  BY DEF NoNewInitial, TypeOK, HandlersTypeOK, ThreadMissing, Goto
<1>3. UNCHANGED <<active, run, status, nextRun>>
  BY DEF ThreadMissing, objectVars, fileVars
<1>4. \A g \in Handlers : strm'[g] <= nextRun
  BY DEF RunRegistry, RunsKnown, TypeOK, HandlersTypeOK, ScopeTypeOK, ThreadMissing
<1> QED BY <1>1, <1>2, <1>3, <1>4, RegistryKept

\* NextPublished keeps the registry and writes no status.
LEMMA NextPublishedKeeps ==
  ASSUME TypeOK, HandlersHoldRuns, RunRegistry, NEW h \in Handlers, NextPublished(h)
  PROVE  HandlersHoldRuns' /\ RunRegistry' /\ UNCHANGED status
<1>1. HandlersHoldRuns'
  BY ConstantsAssumption DEF HandlersHoldRuns, HoldsRun, TypeOK, HandlersTypeOK, ScopeTypeOK,
         RunRegistry, NextPublished, Consume, Goto
<1>2. NoNewInitial
  BY DEF NoNewInitial, TypeOK, HandlersTypeOK, NextPublished, Consume, Goto
<1>3. UNCHANGED <<active, run, status, nextRun>>
  BY DEF NextPublished, Consume, objectVars, fileVars
<1>4. \A g \in Handlers : strm'[g] <= nextRun
  BY DEF RunRegistry, RunsKnown, TypeOK, HandlersTypeOK, ScopeTypeOK, NextPublished, Consume
<1> QED BY <1>1, <1>2, <1>3, <1>4, RegistryKept

\* ConsumeProgress keeps the registry and writes no status.
LEMMA ConsumeProgressKeeps ==
  ASSUME TypeOK, HandlersHoldRuns, RunRegistry, NEW h \in Handlers, ConsumeProgress(h)
  PROVE  HandlersHoldRuns' /\ RunRegistry' /\ UNCHANGED status
<1>1. HandlersHoldRuns'
  BY ConstantsAssumption DEF HandlersHoldRuns, HoldsRun, TypeOK, HandlersTypeOK, ScopeTypeOK,
         ConsumeProgress, Reduce, Goto
<1>2. NoNewInitial
  BY DEF NoNewInitial, TypeOK, HandlersTypeOK, ConsumeProgress, Reduce, Goto
<1>3. UNCHANGED <<active, run, status, nextRun>>
  BY DEF ConsumeProgress, Reduce, fileVars
<1>4. \A g \in Handlers : strm'[g] <= nextRun
  BY DEF RunRegistry, RunsKnown, TypeOK, HandlersTypeOK, ScopeTypeOK, ConsumeProgress, Reduce
<1> QED BY <1>1, <1>2, <1>3, <1>4, RegistryKept

\* ConsumeRequest keeps the registry and writes no status.
LEMMA ConsumeRequestKeeps ==
  ASSUME TypeOK, HandlersHoldRuns, RunRegistry,
         NEW h \in Handlers, NEW kind \in RequestKinds, ConsumeRequest(h, kind)
  PROVE  HandlersHoldRuns' /\ RunRegistry' /\ UNCHANGED status
<1>1. HandlersHoldRuns'
  BY ConstantsAssumption DEF HandlersHoldRuns, HoldsRun, TypeOK, HandlersTypeOK, ScopeTypeOK,
         ConsumeRequest, Reduce, Goto
<1>2. NoNewInitial
  BY DEF NoNewInitial, TypeOK, HandlersTypeOK, ConsumeRequest, Reduce, Goto
<1>3. UNCHANGED <<active, run, status, nextRun>>
  BY DEF ConsumeRequest, Reduce, fileVars
<1>4. \A g \in Handlers : strm'[g] <= nextRun
  BY DEF RunRegistry, RunsKnown, TypeOK, HandlersTypeOK, ScopeTypeOK, ConsumeRequest, Reduce
<1> QED BY <1>1, <1>2, <1>3, <1>4, RegistryKept

\* ConsumeTerminal keeps the registry and writes no status.
LEMMA ConsumeTerminalKeeps ==
  ASSUME TypeOK, HandlersHoldRuns, RunRegistry,
         NEW h \in Handlers, NEW silent \in BOOLEAN, ConsumeTerminal(h, silent)
  PROVE  HandlersHoldRuns' /\ RunRegistry' /\ UNCHANGED status
<1>1. HandlersHoldRuns'
  BY ConstantsAssumption DEF HandlersHoldRuns, HoldsRun, TypeOK, HandlersTypeOK, ScopeTypeOK,
         ConsumeTerminal, Reduce, ScopeTimer, Goto
<1>2. NoNewInitial
  BY DEF NoNewInitial, TypeOK, HandlersTypeOK, ConsumeTerminal, Reduce, ScopeTimer, Goto
<1>3. UNCHANGED <<active, run, status, nextRun>>
  BY DEF ConsumeTerminal, Reduce, ScopeTimer, fileVars
<1>4. \A g \in Handlers : strm'[g] <= nextRun
  BY DEF RunRegistry, RunsKnown, TypeOK, HandlersTypeOK, ScopeTypeOK, ConsumeTerminal, Reduce,
         ScopeTimer
<1> QED BY <1>1, <1>2, <1>3, <1>4, RegistryKept

\* PauseForOwner keeps the registry and writes no status.
LEMMA PauseForOwnerKeeps ==
  ASSUME TypeOK, HandlersHoldRuns, RunRegistry, NEW h \in Handlers, PauseForOwner(h)
  PROVE  HandlersHoldRuns' /\ RunRegistry' /\ UNCHANGED status
<1>1. HandlersHoldRuns'
  BY ConstantsAssumption DEF HandlersHoldRuns, HoldsRun, TypeOK, HandlersTypeOK, ScopeTypeOK,
         PauseForOwner, ScopeTimer, AfterPause, StopRun, Goto
<1>2. NoNewInitial
  BY DEF NoNewInitial, TypeOK, HandlersTypeOK, PauseForOwner, ScopeTimer, AfterPause, StopRun,
         Goto
<1>3. UNCHANGED <<active, run, status, nextRun>>
  BY DEF PauseForOwner, ScopeTimer, AfterPause, StopRun
<1>4. \A g \in Handlers : strm'[g] <= nextRun
  BY DEF RunRegistry, RunsKnown, TypeOK, HandlersTypeOK, ScopeTypeOK, PauseForOwner,
         ScopeTimer, AfterPause, StopRun
<1> QED BY <1>1, <1>2, <1>3, <1>4, RegistryKept

\* ContinueConsuming keeps the registry and writes no status.
LEMMA ContinueConsumingKeeps ==
  ASSUME TypeOK, HandlersHoldRuns, RunRegistry, NEW h \in Handlers, ContinueConsuming(h)
  PROVE  HandlersHoldRuns' /\ RunRegistry' /\ UNCHANGED status
<1>1. HandlersHoldRuns'
  BY ConstantsAssumption DEF HandlersHoldRuns, HoldsRun, TypeOK, HandlersTypeOK, ScopeTypeOK,
         ContinueConsuming, ScopeTimer, Goto
<1>2. NoNewInitial
  BY DEF NoNewInitial, TypeOK, HandlersTypeOK, ContinueConsuming, ScopeTimer, Goto
<1>3. UNCHANGED <<active, run, status, nextRun>>
  BY DEF ContinueConsuming, ScopeTimer, fileVars
<1>4. \A g \in Handlers : strm'[g] <= nextRun
  BY DEF RunRegistry, RunsKnown, TypeOK, HandlersTypeOK, ScopeTypeOK, ContinueConsuming,
         ScopeTimer
<1> QED BY <1>1, <1>2, <1>3, <1>4, RegistryKept

\* StartQueuedTurn keeps the registry and writes no status.
LEMMA StartQueuedTurnKeeps ==
  ASSUME TypeOK, HandlersHoldRuns, RunRegistry,
         NEW h \in Handlers, NEW k \in 1 .. Cardinality(Handlers), StartQueuedTurn(h, k)
  PROVE  HandlersHoldRuns' /\ RunRegistry' /\ UNCHANGED status
<1>1. HandlersHoldRuns'
  BY ConstantsAssumption DEF HandlersHoldRuns, HoldsRun, TypeOK, HandlersTypeOK, ScopeTypeOK,
         StartQueuedTurn, TerminalViewOut, Remaining, ScopeTimer, RequestSession, Goto
<1>2. NoNewInitial
  BY DEF NoNewInitial, TypeOK, HandlersTypeOK, StartQueuedTurn, TerminalViewOut, Remaining,
         ScopeTimer, RequestSession, Goto
<1>3. UNCHANGED <<active, run, status, nextRun>>
  BY DEF StartQueuedTurn, TerminalViewOut, Remaining, ScopeTimer, RequestSession, fileVars
<1>4. \A g \in Handlers : strm'[g] <= nextRun
  BY DEF RunRegistry, RunsKnown, TypeOK, HandlersTypeOK, ScopeTypeOK, StartQueuedTurn,
         TerminalViewOut, Remaining, ScopeTimer, RequestSession
<1> QED BY <1>1, <1>2, <1>3, <1>4, RegistryKept

\* AnswerDelivered keeps the registry and writes no status.
LEMMA AnswerDeliveredKeeps ==
  ASSUME TypeOK, HandlersHoldRuns, RunRegistry, NEW h \in Handlers, AnswerDelivered(h)
  PROVE  HandlersHoldRuns' /\ RunRegistry' /\ UNCHANGED status
<1>1. HandlersHoldRuns'
  BY ConstantsAssumption DEF HandlersHoldRuns, HoldsRun, TypeOK, HandlersTypeOK, ScopeTypeOK,
         AnswerDelivered, Goto
<1>2. NoNewInitial
  BY DEF NoNewInitial, TypeOK, HandlersTypeOK, AnswerDelivered, Goto
<1>3. UNCHANGED <<active, run, status, nextRun>>
  BY DEF AnswerDelivered
<1>4. \A g \in Handlers : strm'[g] <= nextRun
  BY DEF RunRegistry, RunsKnown, TypeOK, HandlersTypeOK, ScopeTypeOK, AnswerDelivered
<1> QED BY <1>1, <1>2, <1>3, <1>4, RegistryKept

\* ResolvedPublished keeps the registry and writes no status.
LEMMA ResolvedPublishedKeeps ==
  ASSUME TypeOK, HandlersHoldRuns, RunRegistry, NEW h \in Handlers, ResolvedPublished(h)
  PROVE  HandlersHoldRuns' /\ RunRegistry' /\ UNCHANGED status
<1>1. HandlersHoldRuns'
  BY ConstantsAssumption DEF HandlersHoldRuns, HoldsRun, TypeOK, HandlersTypeOK, ScopeTypeOK,
         RunRegistry, ResolvedPublished, ScopeTimer, Consume, Goto
<1>2. NoNewInitial
  BY DEF NoNewInitial, TypeOK, HandlersTypeOK, ResolvedPublished, ScopeTimer, Consume, Goto
<1>3. UNCHANGED <<active, run, status, nextRun>>
  BY DEF ResolvedPublished, ScopeTimer, Consume, fileVars
<1>4. \A g \in Handlers : strm'[g] <= nextRun
  BY DEF RunRegistry, RunsKnown, TypeOK, HandlersTypeOK, ScopeTypeOK, ResolvedPublished,
         ScopeTimer, Consume
<1> QED BY <1>1, <1>2, <1>3, <1>4, RegistryKept

\* PausedTurnStopped keeps the registry and writes no status.
LEMMA PausedTurnStoppedKeeps ==
  ASSUME TypeOK, HandlersHoldRuns, RunRegistry, NEW h \in Handlers, PausedTurnStopped(h)
  PROVE  HandlersHoldRuns' /\ RunRegistry' /\ UNCHANGED status
<1>1. HandlersHoldRuns'
  BY ConstantsAssumption DEF HandlersHoldRuns, HoldsRun, TypeOK, HandlersTypeOK, ScopeTypeOK,
         PausedTurnStopped, Goto
<1>2. NoNewInitial
  BY DEF NoNewInitial, TypeOK, HandlersTypeOK, PausedTurnStopped, Goto
<1>3. UNCHANGED <<active, run, status, nextRun>>
  BY DEF PausedTurnStopped, fileVars
<1>4. \A g \in Handlers : strm'[g] <= nextRun
  BY DEF RunRegistry, RunsKnown, TypeOK, HandlersTypeOK, ScopeTypeOK, PausedTurnStopped
<1> QED BY <1>1, <1>2, <1>3, <1>4, RegistryKept

\* StopAcknowledged keeps the registry and writes no status.
LEMMA StopAcknowledgedKeeps ==
  ASSUME TypeOK, HandlersHoldRuns, RunRegistry, NEW h \in Handlers, StopAcknowledged(h)
  PROVE  HandlersHoldRuns' /\ RunRegistry' /\ UNCHANGED status
<1>1. HandlersHoldRuns'
  BY ConstantsAssumption, ZenonT(40) DEF HandlersHoldRuns, HoldsRun, TypeOK, HandlersTypeOK, ScopeTypeOK,
         StopAcknowledged, CallerResumes, ClearAndCreate, Goto
<1>2. NoNewInitial
  BY DEF NoNewInitial, TypeOK, HandlersTypeOK, StopAcknowledged, CallerResumes,
         ClearAndCreate, Goto
<1>3. UNCHANGED <<active, run, status, nextRun>>
  BY DEF StopAcknowledged, CallerResumes, ClearAndCreate, objectVars, fileVars
<1>4. \A g \in Handlers : strm'[g] <= nextRun
  BY DEF RunRegistry, RunsKnown, TypeOK, HandlersTypeOK, ScopeTypeOK, StopAcknowledged,
         CallerResumes, ClearAndCreate
<1> QED BY <1>1, <1>2, <1>3, <1>4, RegistryKept

\* SelectedSessionCreated keeps the registry and writes no status.
LEMMA SelectedSessionCreatedKeeps ==
  ASSUME TypeOK, HandlersHoldRuns, RunRegistry, NEW h \in Handlers, SelectedSessionCreated(h)
  PROVE  HandlersHoldRuns' /\ RunRegistry' /\ UNCHANGED status
<1>1. HandlersHoldRuns'
  BY ConstantsAssumption DEF HandlersHoldRuns, HoldsRun, TypeOK, HandlersTypeOK, ScopeTypeOK,
         SelectedSessionCreated, Goto
<1>2. NoNewInitial
  BY DEF NoNewInitial, TypeOK, HandlersTypeOK, SelectedSessionCreated, Goto
<1>3. UNCHANGED <<active, run, status, nextRun>>
  BY DEF SelectedSessionCreated, objectVars, fileVars
<1>4. \A g \in Handlers : strm'[g] <= nextRun
  BY DEF RunRegistry, RunsKnown, TypeOK, HandlersTypeOK, ScopeTypeOK, SelectedSessionCreated
<1> QED BY <1>1, <1>2, <1>3, <1>4, RegistryKept

\* AgentTurnEnds keeps the registry and writes no status.
LEMMA AgentTurnEndsKeeps ==
  ASSUME TypeOK, HandlersHoldRuns, RunRegistry,
         NEW r \in Runs, NEW outcome \in Terminal, AgentTurnEnds(r, outcome)
  PROVE  HandlersHoldRuns' /\ RunRegistry' /\ UNCHANGED status
<1>1. HandlersHoldRuns'
  BY ConstantsAssumption DEF HandlersHoldRuns, HoldsRun, TypeOK, HandlersTypeOK, ScopeTypeOK,
         AgentTurnEnds, Goto, handlerVars
<1>2. NoNewInitial
  BY DEF NoNewInitial, TypeOK, HandlersTypeOK, AgentTurnEnds, Goto, handlerVars
<1>3. UNCHANGED <<active, run, status, nextRun>>
  BY DEF AgentTurnEnds, objectVars, fileVars
<1>4. \A g \in Handlers : strm'[g] <= nextRun
  BY DEF RunRegistry, RunsKnown, TypeOK, HandlersTypeOK, ScopeTypeOK, AgentTurnEnds,
         handlerVars
<1> QED BY <1>1, <1>2, <1>3, <1>4, RegistryKept

\* IdleTimerFires keeps the registry and writes no status.
LEMMA IdleTimerFiresKeeps ==
  ASSUME TypeOK, HandlersHoldRuns, RunRegistry, NEW h \in Handlers, IdleTimerFires(h)
  PROVE  HandlersHoldRuns' /\ RunRegistry' /\ UNCHANGED status
<1>1. HandlersHoldRuns'
  BY ConstantsAssumption DEF HandlersHoldRuns, HoldsRun, TypeOK, HandlersTypeOK, ScopeTypeOK,
         IdleTimerFires, Goto, handlerVars
<1>2. NoNewInitial
  BY DEF NoNewInitial, TypeOK, HandlersTypeOK, IdleTimerFires, Goto, handlerVars
<1>3. UNCHANGED <<active, run, status, nextRun>>
  BY DEF IdleTimerFires, fileVars
<1>4. \A g \in Handlers : strm'[g] <= nextRun
  BY DEF RunRegistry, RunsKnown, TypeOK, HandlersTypeOK, ScopeTypeOK, IdleTimerFires,
         handlerVars
<1> QED BY <1>1, <1>2, <1>3, <1>4, RegistryKept

\* HandleIdleTimeout keeps the registry and writes no status.
LEMMA HandleIdleTimeoutKeeps ==
  ASSUME TypeOK, HandlersHoldRuns, RunRegistry, HandleIdleTimeout
  PROVE  HandlersHoldRuns' /\ RunRegistry' /\ UNCHANGED status
<1>1. HandlersHoldRuns'
  BY ConstantsAssumption DEF HandlersHoldRuns, HoldsRun, TypeOK, HandlersTypeOK, ScopeTypeOK,
         HandleIdleTimeout, Goto, handlerVars
<1>2. NoNewInitial
  BY DEF NoNewInitial, TypeOK, HandlersTypeOK, HandleIdleTimeout, Goto, handlerVars
<1>3. UNCHANGED <<active, run, status, nextRun>>
  BY DEF HandleIdleTimeout, fileVars
<1>4. \A g \in Handlers : strm'[g] <= nextRun
  BY DEF RunRegistry, RunsKnown, TypeOK, HandlersTypeOK, ScopeTypeOK, HandleIdleTimeout,
         handlerVars
<1> QED BY <1>1, <1>2, <1>3, <1>4, RegistryKept

\* CallFails keeps the registry and writes no status.
LEMMA CallFailsKeeps ==
  ASSUME TypeOK, HandlersHoldRuns, RunRegistry, NEW h \in Handlers, CallFails(h)
  PROVE  HandlersHoldRuns' /\ RunRegistry' /\ UNCHANGED status
<1>1. HandlersHoldRuns'
  BY ConstantsAssumption DEF HandlersHoldRuns, HoldsRun, TypeOK, HandlersTypeOK, ScopeTypeOK,
         CallFails, Goto
<1>2. NoNewInitial
  BY DEF NoNewInitial, TypeOK, HandlersTypeOK, CallFails, Goto
<1>3. UNCHANGED <<active, run, status, nextRun>>
  BY DEF CallFails, objectVars, fileVars
<1>4. \A g \in Handlers : strm'[g] <= nextRun
  BY DEF RunRegistry, RunsKnown, TypeOK, HandlersTypeOK, ScopeTypeOK, CallFails
<1> QED BY <1>1, <1>2, <1>3, <1>4, RegistryKept

-----------------------------------------------------------------------------
(* The actions that create, finish and recover runs.                       *)

\* The callers of stop_run do not go back to a start of a run.
LEMMA CallerResumesPcs ==
  ASSUME TypeOK, NEW h \in Handlers, CallerResumes(h)
  PROVE  pc' \in {[pc EXCEPT ![h] = "createSelected"], [pc EXCEPT ![h] = "done"]}
BY DEF CallerResumes, ClearAndCreate, Goto

\* FinishAndRelease keeps the registry and every terminal status.
LEMMA FinishAndReleaseKeeps ==
  ASSUME TypeOK, HandlersHoldRuns, RunRegistry, NEW h \in Handlers, NEW st,
         FinishAndRelease(h, st), UNCHANGED <<self, run, strm, nextRun>>
  PROVE  /\ HandlersHoldRuns' /\ RunRegistry'
         /\ TerminalStatusesKept
<1>1. pc' \in {[pc EXCEPT ![h] = "createSelected"], [pc EXCEPT ![h] = "done"],
               [pc EXCEPT ![h] = "failed"]}
  BY CallerResumesPcs DEF FinishAndRelease, Goto
<1>2. HandlersHoldRuns' /\ NoNewInitial
  BY <1>1 DEF HandlersHoldRuns, HoldsRun, NoNewInitial, TypeOK, HandlersTypeOK
<1>3. CASE CanFinish
  BY <1>2, <1>3, RegistryAfterFinish DEF FinishAndRelease, CanFinish
<1>4. CASE ~CanFinish
  <2>1. UNCHANGED <<active, run, status, nextRun>>
    BY <1>4 DEF FinishAndRelease
  <2>2. \A g \in Handlers : strm'[g] <= nextRun
    BY DEF RunRegistry, RunsKnown
  <2> QED BY <1>2, <2>1, <2>2, RegistryKept DEF TerminalStatusesKept
<1> QED BY <1>3, <1>4

\* StartQueuedTurnElsewhere keeps the registry and every terminal status.
LEMMA StartQueuedTurnElsewhereKeeps ==
  ASSUME TypeOK, HandlersHoldRuns, RunRegistry, NEW h \in Handlers, StartQueuedTurnElsewhere(h)
  PROVE  /\ HandlersHoldRuns' /\ RunRegistry'
         /\ TerminalStatusesKept
<1>1. pc' \in {[pc EXCEPT ![h] = "createSelected"], [pc EXCEPT ![h] = "done"],
               [pc EXCEPT ![h] = "failed"]}
  BY CallerResumesPcs DEF StartQueuedTurnElsewhere, Goto
<1>2. HandlersHoldRuns' /\ NoNewInitial
  BY <1>1 DEF HandlersHoldRuns, HoldsRun, NoNewInitial, TypeOK, HandlersTypeOK,
              StartQueuedTurnElsewhere
<1>3. CASE CanFinish
  BY <1>2, <1>3, RegistryAfterFinish DEF StartQueuedTurnElsewhere, CanFinish
<1>4. CASE ~CanFinish
  <2>1. UNCHANGED <<active, run, strm, status, nextRun>>
    BY <1>4 DEF StartQueuedTurnElsewhere
  <2>2. \A g \in Handlers : strm'[g] <= nextRun
    BY <2>1 DEF RunRegistry, RunsKnown
  <2> QED BY <1>2, <2>1, <2>2, RegistryKept DEF TerminalStatusesKept
<1> QED BY <1>3, <1>4

\* TurnStarts keeps the registry and every terminal status.
LEMMA TurnStartsKeeps ==
  ASSUME TypeOK, HandlersHoldRuns, RunRegistry, NEW h \in Handlers, TurnStarts(h)
  PROVE  /\ HandlersHoldRuns' /\ RunRegistry'
         /\ TerminalStatusesKept
<1> DEFINE new == nextRun + 1
<1>1. /\ nextRun \in Nat /\ new \in Nat /\ new \in Runs /\ new # 0 /\ new > nextRun
      /\ nextRun' = new
      /\ status' = [status EXCEPT ![new] = "running"]
      /\ UNCHANGED <<self, active>>
  BY ConstantsAssumption DEF TurnStarts, TypeOK, FilesTypeOK, Runs
<1>2. \/ /\ self[h] = None /\ pc' = [pc EXCEPT ![h] = "publishInitial"]
         /\ strm' = [strm EXCEPT ![h] = new] /\ run' = run
      \/ /\ self[h] # None /\ pc' = [pc EXCEPT ![h] = "publishNext"]
         /\ strm' = strm /\ run' = [run EXCEPT ![self[h]] = new]
  BY DEF TurnStarts, Goto, objectVars
<1>3. /\ \A r \in Runs : r # new => status'[r] = status[r]
      /\ status'[new] = "running" /\ status[new] = "none"
  BY <1>1 DEF TypeOK, FilesTypeOK, RunRegistry, RunsKnown
<1>4. /\ \A g \in Handlers : strm[g] \in 0 .. nextRun /\ run[g] \in 0 .. nextRun
      /\ \A g \in Handlers : strm'[g] \in {strm[g], new} /\ run'[g] \in {run[g], new}
  BY <1>1, <1>2 DEF TypeOK, HandlersTypeOK, ObjectsTypeOK, RunRegistry, RunsKnown
<1> HIDE DEF new
<1>5. HandlersHoldRuns'
  BY <1>1, <1>2 DEF HandlersHoldRuns, HoldsRun, TypeOK, HandlersTypeOK
<1>6. RunsKnown'
  <2>1. \A r \in Runs : r > nextRun' => status'[r] = "none"
    BY <1>1, <1>3 DEF RunRegistry, RunsKnown, Runs
  <2>2. \A g \in Handlers : run'[g] <= nextRun' /\ strm'[g] <= nextRun'
    BY <1>1, <1>4
  <2> QED BY <2>1, <2>2 DEF RunsKnown
<1>7. InitialRunsApart'
  <2>1. CASE self[h] = None
    <3>1. /\ pc' = [pc EXCEPT ![h] = "publishInitial"]
          /\ strm' = [strm EXCEPT ![h] = new] /\ run' = run
      BY <1>2, <2>1
    <3>2. ASSUME NEW g \in Handlers, pc'[g] = "publishInitial"
          PROVE  /\ status'[strm'[g]] = "running"
                 /\ \A o \in Handlers : run'[o] # strm'[g]
                 /\ \A k \in Handlers \ {g} : pc'[k] = "publishInitial" => strm'[k] # strm'[g]
      <4>1. CASE g = h
        <5>1. strm'[g] = new
          BY <3>1, <4>1 DEF TypeOK, HandlersTypeOK
        <5>2. \A k \in Handlers \ {g} : strm'[k] = strm[k]
          BY <3>1, <4>1 DEF TypeOK, HandlersTypeOK
        <5> QED BY <1>1, <1>3, <1>4, <3>1, <5>1, <5>2
      <4>2. CASE g # h
        <5>1. strm'[g] = strm[g] /\ pc[g] = "publishInitial" /\ strm[g] \in Runs
          BY <1>1, <1>4, <3>1, <3>2, <4>2 DEF TypeOK, HandlersTypeOK, HandlersHoldRuns, Runs
        <5>2. strm[g] # new
          BY <1>1, <1>4
        <5>3. status'[strm'[g]] = "running" /\ \A o \in Handlers : run'[o] # strm'[g]
          BY <1>3, <3>1, <5>1, <5>2 DEF RunRegistry, InitialRunsApart
        <5>4. ASSUME NEW k \in Handlers \ {g}, pc'[k] = "publishInitial"
              PROVE  strm'[k] # strm'[g]
          BY <3>1, <5>1, <5>2, <5>4 DEF RunRegistry, InitialRunsApart, TypeOK, HandlersTypeOK
        <5> QED BY <5>3, <5>4
      <4> QED BY <4>1, <4>2
    <3> QED BY <3>2 DEF InitialRunsApart
  <2>2. CASE self[h] # None
    <3>1. /\ pc' = [pc EXCEPT ![h] = "publishNext"]
          /\ strm' = strm
      BY <1>2, <2>2
    <3>2. ASSUME NEW g \in Handlers, pc'[g] = "publishInitial"
          PROVE  /\ status'[strm'[g]] = "running"
                 /\ \A o \in Handlers : run'[o] # strm'[g]
                 /\ \A k \in Handlers \ {g} : pc'[k] = "publishInitial" => strm'[k] # strm'[g]
      <4>1. pc[g] = "publishInitial" /\ strm[g] \in Runs /\ strm[g] # new
        BY <1>1, <1>4, <3>1, <3>2 DEF TypeOK, HandlersTypeOK, HandlersHoldRuns, Runs
      <4>2. status'[strm'[g]] = "running"
        BY <1>3, <3>1, <4>1 DEF RunRegistry, InitialRunsApart
      <4>3. \A o \in Handlers : run'[o] # strm'[g]
        BY <1>4, <3>1, <4>1 DEF RunRegistry, InitialRunsApart
      <4>4. \A k \in Handlers \ {g} : pc'[k] = "publishInitial" => strm'[k] # strm'[g]
        BY <3>1, <4>1 DEF RunRegistry, InitialRunsApart, TypeOK, HandlersTypeOK
      <4> QED BY <4>2, <4>3, <4>4
    <3> QED BY <3>2 DEF InitialRunsApart
  <2> QED BY <2>1, <2>2
<1>8. active' # None => run'[active'] # 0 /\ status'[run'[active']] = "running"
  <2> SUFFICES ASSUME active # None
               PROVE  run'[active] # 0 /\ status'[run'[active]] = "running"
    BY <1>1
  <2>1. active \in Handlers /\ run[active] # 0 /\ status[run[active]] = "running"
    BY DEF TypeOK, ScopeTypeOK, RunRegistry, ActiveRunIsOpen
  <2>2. run[active] \in Runs
    BY <2>1, ConstantsAssumption DEF TypeOK, ObjectsTypeOK, Runs
  <2>3. CASE run'[active] = new
    BY <1>1, <1>3, <2>3
  <2>4. CASE run'[active] = run[active]
    BY <1>3, <2>1, <2>2, <2>4
  <2> QED BY <1>4, <2>1, <2>3, <2>4
<1>9. TerminalStatusesKept
  BY <1>3 DEF Terminal, TerminalStatusesKept
<1> QED BY <1>5, <1>6, <1>7, <1>8, <1>9 DEF RunRegistry, ActiveRunIsOpen

\* InitialPublished keeps the registry and writes no status.
LEMMA InitialPublishedKeeps ==
  ASSUME TypeOK, HandlersHoldRuns, RunRegistry, NEW h \in Handlers, InitialPublished(h)
  PROVE  HandlersHoldRuns' /\ RunRegistry' /\ UNCHANGED status
<1>1. /\ pc[h] = "publishInitial" /\ pc' = [pc EXCEPT ![h] = "consume"]
      /\ active' = h /\ run' = [run EXCEPT ![h] = strm[h]] /\ self' = [self EXCEPT ![h] = h]
      /\ UNCHANGED <<strm, status, nextRun>>
  BY DEF InitialPublished, Goto, fileVars
<1>2. strm[h] # 0 /\ strm[h] <= nextRun /\ status[strm[h]] = "running"
  BY <1>1 DEF HandlersHoldRuns, RunRegistry, RunsKnown, InitialRunsApart
<1>3. HandlersHoldRuns'
  BY <1>1, <1>2, ConstantsAssumption DEF HandlersHoldRuns, HoldsRun, TypeOK, HandlersTypeOK
<1>4. RunsKnown'
  BY <1>1, <1>2 DEF RunRegistry, RunsKnown, TypeOK, ObjectsTypeOK
<1>5. run'[h] = strm[h] /\ \A o \in Handlers \ {h} : run'[o] = run[o]
  BY <1>1 DEF TypeOK, ObjectsTypeOK
<1>6. InitialRunsApart'
  BY <1>1, <1>5 DEF RunRegistry, InitialRunsApart, TypeOK, HandlersTypeOK
<1> QED BY <1>1, <1>2, <1>3, <1>4, <1>5, <1>6 DEF RunRegistry, ActiveRunIsOpen

\* Restart keeps the registry and every terminal status.
LEMMA RestartKeeps ==
  ASSUME TypeOK, HandlersHoldRuns, RunRegistry, Restart
  PROVE  /\ HandlersHoldRuns' /\ RunRegistry'
         /\ TerminalStatusesKept
<1>1. /\ active' = None /\ UNCHANGED <<self, run, strm, nextRun>>
      /\ \A g \in Handlers : pc'[g] \in {"idle", "failed"}
      /\ \A r \in Runs : status'[r] = Recovered(status[r])
  BY DEF Restart
<1>2. HandlersHoldRuns' /\ InitialRunsApart'
  BY <1>1 DEF HandlersHoldRuns, HoldsRun, InitialRunsApart
<1>3. RunsKnown'
  BY <1>1 DEF RunRegistry, RunsKnown, Recovered
<1>4. TerminalStatusesKept
  BY <1>1 DEF Recovered, Terminal, TerminalStatusesKept
<1> QED BY <1>1, <1>2, <1>3, <1>4 DEF RunRegistry, ActiveRunIsOpen

-----------------------------------------------------------------------------
(* The theorems.                                                           *)

\* The bridge starts with the invariant.
LEMMA InitInv == Init => Inv
<1> SUFFICES ASSUME Init PROVE Inv
  OBVIOUS
<1>1. TypeOK
  BY InitTypes
<1>2. HandlersHoldRuns
  BY DEF Init, HandlersHoldRuns, HoldsRun
<1>3. RunRegistry
  BY ConstantsAssumption DEF Init, RunRegistry, RunsKnown, InitialRunsApart, ActiveRunIsOpen
<1> QED BY <1>1, <1>2, <1>3 DEF Inv

\* Every step keeps the invariant and every terminal status.
LEMMA NextInv ==
  ASSUME Inv, Next
  PROVE  Inv' /\ TerminalStatusesKept
<1> USE DEF Inv
<1>1. ASSUME NEW h \in Handlers, StartTextRun(h)
      PROVE  Inv' /\ TerminalStatusesKept
  BY <1>1, StartTextRunTypes, StartTextRunKeeps DEF TerminalStatusesKept
<1>2. ASSUME NEW h \in Handlers, QueueMessage(h)
      PROVE  Inv' /\ TerminalStatusesKept
  BY <1>2, QueueMessageTypes, QueueMessageKeeps DEF TerminalStatusesKept
<1>3. ASSUME NEW h \in Handlers, AskForDecision(h)
      PROVE  Inv' /\ TerminalStatusesKept
  BY <1>3, AskForDecisionTypes, AskForDecisionKeeps DEF TerminalStatusesKept
<1>4. ASSUME NEW h \in Handlers, NEW c \in {"text", "click"}, NEW d \in Decisions,
         AnswerRequest(h, c, d)
      PROVE  Inv' /\ TerminalStatusesKept
  BY <1>4, AnswerRequestTypes, AnswerRequestKeeps DEF TerminalStatusesKept
<1>5. ASSUME NEW h \in Handlers, NEW q \in Requests, ClickStaleCard(h, q)
      PROVE  Inv' /\ TerminalStatusesKept
  BY <1>5, ClickStaleCardTypes, ClickStaleCardKeeps DEF TerminalStatusesKept
<1>6. ASSUME NEW h \in Handlers, Stop(h)
      PROVE  Inv' /\ TerminalStatusesKept
  BY <1>6, StopTypes, StopKeeps DEF TerminalStatusesKept
<1>7. ASSUME NEW h \in Handlers, Reset(h)
      PROVE  Inv' /\ TerminalStatusesKept
  BY <1>7, ResetTypes, ResetKeeps DEF TerminalStatusesKept
<1>8. ASSUME NEW h \in Handlers, NEW w \in Workspaces, ChangeWorkspace(h, w)
      PROVE  Inv' /\ TerminalStatusesKept
  BY <1>8, ChangeWorkspaceTypes, ChangeWorkspaceKeeps DEF TerminalStatusesKept
<1>9. ASSUME NEW h \in Handlers, ClearSelectedSession(h)
      PROVE  Inv' /\ TerminalStatusesKept
  BY <1>9, ClearSelectedSessionTypes, ClearSelectedSessionKeeps DEF TerminalStatusesKept
<1>10. ASSUME NEW h \in Handlers, ResumeSession(h)
      PROVE  Inv' /\ TerminalStatusesKept
  BY <1>10, ResumeSessionTypes, ResumeSessionKeeps DEF TerminalStatusesKept
<1>11. ASSUME NEW h \in Handlers, NEW on \in BOOLEAN, SetIdleTimeout(h, on)
      PROVE  Inv' /\ TerminalStatusesKept
  BY <1>11, SetIdleTimeoutTypes, SetIdleTimeoutKeeps DEF TerminalStatusesKept
<1>12. ASSUME NEW h \in Handlers, SessionReady(h)
      PROVE  Inv' /\ TerminalStatusesKept
  BY <1>12, SessionReadyTypes, SessionReadyKeeps DEF TerminalStatusesKept
<1>13. ASSUME NEW h \in Handlers, ThreadMissing(h)
      PROVE  Inv' /\ TerminalStatusesKept
  BY <1>13, ThreadMissingTypes, ThreadMissingKeeps DEF TerminalStatusesKept
<1>14. ASSUME NEW h \in Handlers, TurnStarts(h)
      PROVE  Inv' /\ TerminalStatusesKept
  BY <1>14, TurnStartsTypes, TurnStartsKeeps
<1>15. ASSUME NEW h \in Handlers, InitialPublished(h)
      PROVE  Inv' /\ TerminalStatusesKept
  BY <1>15, InitialPublishedTypes, InitialPublishedKeeps DEF TerminalStatusesKept
<1>16. ASSUME NEW h \in Handlers, NextPublished(h)
      PROVE  Inv' /\ TerminalStatusesKept
  BY <1>16, NextPublishedTypes, NextPublishedKeeps DEF TerminalStatusesKept
<1>17. ASSUME NEW h \in Handlers, ConsumeProgress(h)
      PROVE  Inv' /\ TerminalStatusesKept
  BY <1>17, ConsumeProgressTypes, ConsumeProgressKeeps DEF TerminalStatusesKept
<1>18. ASSUME NEW h \in Handlers, NEW kind \in RequestKinds, ConsumeRequest(h, kind)
      PROVE  Inv' /\ TerminalStatusesKept
  BY <1>18, ConsumeRequestTypes, ConsumeRequestKeeps DEF TerminalStatusesKept
<1>19. ASSUME NEW h \in Handlers, NEW silent \in BOOLEAN, ConsumeTerminal(h, silent)
      PROVE  Inv' /\ TerminalStatusesKept
  BY <1>19, ConsumeTerminalTypes, ConsumeTerminalKeeps DEF TerminalStatusesKept
<1>20. ASSUME NEW h \in Handlers, PauseForOwner(h)
      PROVE  Inv' /\ TerminalStatusesKept
  BY <1>20, PauseForOwnerTypes, PauseForOwnerKeeps DEF TerminalStatusesKept
<1>21. ASSUME NEW h \in Handlers, ContinueConsuming(h)
      PROVE  Inv' /\ TerminalStatusesKept
  BY <1>21, ContinueConsumingTypes, ContinueConsumingKeeps DEF TerminalStatusesKept
<1>22. ASSUME NEW h \in Handlers, FinishRun(h)
      PROVE  Inv' /\ TerminalStatusesKept
  BY <1>22, FinishRunTypes, FinishAndReleaseKeeps DEF FinishRun
<1>23. ASSUME NEW h \in Handlers, NEW k \in 1 .. Cardinality(Handlers), StartQueuedTurn(h, k)
      PROVE  Inv' /\ TerminalStatusesKept
  BY <1>23, StartQueuedTurnTypes, StartQueuedTurnKeeps DEF TerminalStatusesKept
<1>24. ASSUME NEW h \in Handlers, StartQueuedTurnElsewhere(h)
      PROVE  Inv' /\ TerminalStatusesKept
  BY <1>24, StartQueuedTurnElsewhereTypes, StartQueuedTurnElsewhereKeeps
<1>25. ASSUME NEW h \in Handlers, FinishEndedRun(h)
      PROVE  Inv' /\ TerminalStatusesKept
  BY <1>25, FinishEndedRunTypes, FinishAndReleaseKeeps DEF FinishEndedRun
<1>26. ASSUME NEW h \in Handlers, AnswerDelivered(h)
      PROVE  Inv' /\ TerminalStatusesKept
  BY <1>26, AnswerDeliveredTypes, AnswerDeliveredKeeps DEF TerminalStatusesKept
<1>27. ASSUME NEW h \in Handlers, ResolvedPublished(h)
      PROVE  Inv' /\ TerminalStatusesKept
  BY <1>27, ResolvedPublishedTypes, ResolvedPublishedKeeps DEF TerminalStatusesKept
<1>28. ASSUME NEW h \in Handlers, PausedTurnStopped(h)
      PROVE  Inv' /\ TerminalStatusesKept
  BY <1>28, PausedTurnStoppedTypes, PausedTurnStoppedKeeps DEF TerminalStatusesKept
<1>29. ASSUME NEW h \in Handlers, FinishStoppedRun(h)
      PROVE  Inv' /\ TerminalStatusesKept
  BY <1>29, FinishStoppedRunTypes, FinishAndReleaseKeeps DEF FinishStoppedRun
<1>30. ASSUME NEW h \in Handlers, StopAcknowledged(h)
      PROVE  Inv' /\ TerminalStatusesKept
  BY <1>30, StopAcknowledgedTypes, StopAcknowledgedKeeps DEF TerminalStatusesKept
<1>31. ASSUME NEW h \in Handlers, SelectedSessionCreated(h)
      PROVE  Inv' /\ TerminalStatusesKept
  BY <1>31, SelectedSessionCreatedTypes, SelectedSessionCreatedKeeps DEF TerminalStatusesKept
<1>32. ASSUME NEW r \in Runs, NEW outcome \in Terminal, AgentTurnEnds(r, outcome)
      PROVE  Inv' /\ TerminalStatusesKept
  BY <1>32, AgentTurnEndsTypes, AgentTurnEndsKeeps DEF TerminalStatusesKept
<1>33. ASSUME NEW h \in Handlers, IdleTimerFires(h)
      PROVE  Inv' /\ TerminalStatusesKept
  BY <1>33, IdleTimerFiresTypes, IdleTimerFiresKeeps DEF TerminalStatusesKept
<1>34. ASSUME HandleIdleTimeout
      PROVE  Inv' /\ TerminalStatusesKept
  BY <1>34, HandleIdleTimeoutTypes, HandleIdleTimeoutKeeps DEF TerminalStatusesKept
<1>35. ASSUME NEW h \in Handlers, CallFails(h)
      PROVE  Inv' /\ TerminalStatusesKept
  BY <1>35, CallFailsTypes, CallFailsKeeps DEF TerminalStatusesKept
<1>36. ASSUME Restart
      PROVE  Inv' /\ TerminalStatusesKept
  BY <1>36, RestartTypes, RestartKeeps
<1>37. ASSUME NEW h \in Handlers, Input(h)
      PROVE  Inv' /\ TerminalStatusesKept
  BY <1>37, <1>1, <1>2, <1>3, <1>4, <1>5, <1>6, <1>7, <1>8, <1>9, <1>10, <1>11
     DEF Input
<1>38. ASSUME NEW h \in Handlers, Resumes(h)
      PROVE  Inv' /\ TerminalStatusesKept
  BY <1>38, <1>12, <1>14, <1>15, <1>16, <1>19, <1>20, <1>21, <1>22, <1>23, <1>24, <1>25,
     <1>26, <1>27, <1>28, <1>29, <1>30, <1>31
     DEF Resumes
<1>39. ASSUME NEW h \in Handlers, Happens(h)
      PROVE  Inv' /\ TerminalStatusesKept
  BY <1>39, <1>13, <1>17, <1>18, <1>35
     DEF Happens
<1> QED
  BY <1>37, <1>38, <1>39, <1>32, <1>33, <1>34, <1>36
     DEF Next

\* So does a step that changes nothing.
LEMMA StutterInv == ASSUME Inv, UNCHANGED vars PROVE Inv' /\ TerminalStatusesKept
<1>1. UNCHANGED <<handlerVars, active, sessionVars, timeoutOn, fired, objectVars, turnVars,
   fileVars>>
  BY DEF vars
<1>2. TypeOK'
  BY <1>1 DEF Inv, TypeOK, HandlersTypeOK, ScopeTypeOK, ObjectsTypeOK, TurnsTypeOK, FilesTypeOK,
              handlerVars, sessionVars, objectVars, turnVars, fileVars
<1>3. HandlersHoldRuns' /\ RunRegistry' /\ TerminalStatusesKept
  BY <1>1 DEF Inv, HandlersHoldRuns, RunRegistry, RunsKnown, InitialRunsApart, ActiveRunIsOpen,
              TerminalStatusesKept, handlerVars, objectVars, fileVars
<1> QED BY <1>2, <1>3 DEF Inv

\* The invariant holds in every reachable state.
LEMMA Invariance == Spec => []Inv
<1>1. Inv /\ [Next]_vars => Inv'
  BY NextInv, StutterInv
<1> QED BY InitInv, <1>1, PTL DEF Spec

\* Every variable keeps its type, whatever is sent, fails or restarts.
THEOREM TypesAreCorrect == Spec => []TypeOK
<1>1. Inv => TypeOK
  BY DEF Inv
<1> QED BY Invariance, <1>1, PTL

\* The run the scope holds as active is the one the files show as running: an entry
\* of _active_runs never outlives the record of its run.
THEOREM ActiveRunsAreOpen == Spec => []ActiveRunIsOpen
<1>1. Inv => ActiveRunIsOpen
  BY DEF Inv, RunRegistry
<1> QED BY Invariance, <1>1, PTL

\* A terminal status in the files is never overwritten: no consumer, stop or recovery
\* writes another over it, although _finish looks its run up again after an await.
THEOREM TerminalStatusesAreFinal == Spec => FinishedRunsStayFinished
<1>1. Inv /\ [Next]_vars => [TerminalStatusesKept]_status
  BY NextInv, StutterInv
<1>2. [][TerminalStatusesKept]_status => FinishedRunsStayFinished
  BY DEF TerminalStatusesKept, FinishedRunsStayFinished
<1> QED BY Invariance, <1>1, <1>2, PTL DEF Spec

-----------------------------------------------------------------------------
(* RunController implements MessageDelivery.                               *)
(*                                                                         *)
(* A message the bridge holds is in the queue of the scope's ActiveRun or  *)
(* in the prompt of a handler that is starting a turn.  HeldApart says     *)
(* that it is in one of these places, once; so the turn that takes a       *)
(* prompt takes its messages away from everywhere.  An ActiveRun that the  *)
(* scope gives up keeps its queue, and nothing of it comes back: only a new*)
(* ActiveRun enters _active_runs, and nobody has queued anything in it yet.*)

\* A queue or a prompt has a message once.
Once(s) == \A i, j \in 1 .. Len(s) : s[i] = s[j] => i = j

HeldApart ==
  /\ \A h \in Handlers : pc[h] = "idle" => h \notin Held
  /\ \A h \in Handlers : InFlight(h) => prompt[h] # <<>>
  /\ \A g, h \in Handlers :
       InFlight(g) /\ InFlight(h) /\ g # h => ToSet(prompt[g]) \intersect ToSet(prompt[h]) = {}
  /\ active # None =>
       /\ Once(queue[active])
       /\ \A h \in Handlers : InFlight(h) => ToSet(prompt[h]) \intersect ToSet(queue[active]) = {}

\* A turn that has not started has no prompt.
NewTurnsEmpty == \A r \in Runs : r > nextRun => sent[r] = <<>>

\* The ActiveRun of a handler that holds none yet is not the scope's, and nothing
\* is queued in it.
NewObjectsEmpty ==
  \A h \in Handlers :
    /\ self[h] = None => queue[h] = <<>> /\ active # h
    /\ pc[h] = "publishInitial" => self[h] = None

DeliveryInv == HeldApart /\ NewTurnsEmpty /\ NewObjectsEmpty

-----------------------------------------------------------------------------
(* Where messages are.                                                     *)

LEMMA EmptyHasNone == ToSet(<<>>) = {}
BY DEF ToSet

LEMMA MessagesOf == ASSUME NEW S, NEW s \in Seq(S) PROVE ToSet(s) = {s[i] : i \in 1 .. Len(s)}
BY DEF ToSet

\* Appending a message to a queue that does not have it.
LEMMA Appended ==
  ASSUME NEW s \in Seq(Handlers), NEW m \in Handlers
  PROVE  /\ ToSet(Append(s, m)) = ToSet(s) \union {m}
         /\ Once(s) /\ m \notin ToSet(s) => Once(Append(s, m))
<1>1. Append(s, m) \in Seq(Handlers) /\ Len(s) \in Nat /\ Len(Append(s, m)) = Len(s) + 1
  OBVIOUS
<1>2. \A i \in 1 .. Len(s) + 1 : Append(s, m)[i] = IF i = Len(s) + 1 THEN m ELSE s[i]
  OBVIOUS
<1>3. ToSet(Append(s, m)) = {Append(s, m)[i] : i \in 1 .. Len(s) + 1} /\ ToSet(s) = {s[i] : i \in 1 .. Len(s)}
  BY <1>1, MessagesOf
<1>4. ToSet(Append(s, m)) = ToSet(s) \union {m}
  <2>1. 1 .. Len(s) + 1 = (1 .. Len(s)) \union {Len(s) + 1} /\ Len(s) + 1 \notin 1 .. Len(s)
    BY <1>1
  <2> QED BY <1>2, <1>3, <2>1
<1>5. ASSUME Once(s), m \notin ToSet(s) PROVE Once(Append(s, m))
  <2>1. \A i \in 1 .. Len(s) : s[i] # m
    BY <1>3, <1>5
  <2> QED BY <1>1, <1>2, <1>5, <2>1 DEF Once
<1> QED BY <1>4, <1>5

\* Cutting a queue in two: each message goes to one of the parts.
LEMMA Cut ==
  ASSUME NEW s \in Seq(Handlers), Once(s), NEW k \in 1 .. Len(s)
  PROVE  LET first == SubSeq(s, 1, k) rest == Remaining(s, k) IN
         /\ first \in Seq(Handlers) /\ rest \in Seq(Handlers)
         /\ first # <<>> /\ Once(rest)
         /\ ToSet(first) \subseteq ToSet(s) /\ ToSet(rest) \subseteq ToSet(s)
         /\ ToSet(first) \intersect ToSet(rest) = {}
<1> DEFINE first == SubSeq(s, 1, k)
           rest == SubSeq(s, k + 1, Len(s))
<1>0. Len(s) \in Nat /\ k \in Nat /\ 1 <= k /\ k <= Len(s)
  OBVIOUS
<1>1. /\ first \in Seq(Handlers) /\ Len(first) = k
      /\ \A i \in 1 .. k : first[i] = s[i]
  BY <1>0
<1>2. /\ rest \in Seq(Handlers) /\ Len(rest) = Len(s) - k
      /\ \A i \in 1 .. Len(s) - k : rest[i] = s[k + i]
  <2>1. CASE k < Len(s)
    <3>1. \A i \in k + 1 .. Len(s) : s[i] \in Handlers
      BY <1>0
    <3> QED BY <1>0, <2>1, <3>1, SubSeqProperties
  <2>2. CASE k = Len(s)
    BY <1>0, <2>2
  <2> QED BY <1>0, <2>1, <2>2
<1>3. /\ ToSet(first) = {first[i] : i \in 1 .. k} /\ ToSet(rest) = {rest[i] : i \in 1 .. Len(s) - k}
      /\ ToSet(s) = {s[i] : i \in 1 .. Len(s)}
  BY <1>1, <1>2, MessagesOf, ZenonT(40)
<1>4. first # <<>>
  BY <1>0, <1>1
<1>5. Once(rest)
  BY <1>0, <1>2 DEF Once
<1> HIDE DEF first, rest
<1>6. ToSet(first) \subseteq ToSet(s) /\ ToSet(rest) \subseteq ToSet(s)
  <2>1. \A i \in 1 .. k : i \in 1 .. Len(s)
    BY <1>0
  <2>2. \A i \in 1 .. Len(s) - k : k + i \in 1 .. Len(s)
    BY <1>0
  <2> QED BY <1>1, <1>2, <1>3, <2>1, <2>2
<1>7. ToSet(first) \intersect ToSet(rest) = {}
  <2> SUFFICES ASSUME NEW i \in 1 .. k, NEW j \in 1 .. Len(s) - k, first[i] = rest[j] PROVE FALSE
    BY <1>3
  <2>1. s[i] = s[k + j] /\ i \in 1 .. Len(s) /\ k + j \in 1 .. Len(s) /\ i # k + j
    BY <1>0, <1>1, <1>2
  <2> QED BY <2>1 DEF Once
<1> QED BY <1>1, <1>2, <1>4, <1>5, <1>6, <1>7 DEF first, rest, Remaining

-----------------------------------------------------------------------------
(* Steps that take nothing up.                                             *)

Keeps ==
  /\ UNCHANGED <<sent, nextRun>> /\ active' \in {active, None}
  /\ \A g \in Handlers :
       /\ pc'[g] = "idle" => pc[g] = "idle"
       /\ InFlight(g)' => InFlight(g) /\ prompt'[g] = prompt[g]
       /\ pc'[g] = "publishInitial" => pc[g] = "publishInitial" /\ self'[g] = self[g]
       /\ self'[g] = None => self[g] = None
       /\ queue'[g] \in {queue[g], <<>>}

LEMMA KeepsHeld ==
  ASSUME TypeOK, DeliveryInv, Keeps
  PROVE  DeliveryInv' /\ Held' \subseteq Held
<1>1. active' # None => active' = active /\ active \in Handlers
  BY DEF Keeps, TypeOK, ScopeTypeOK
<1>2. active' # None => ToSet(queue'[active']) \subseteq ToSet(queue[active])
  BY <1>1, EmptyHasNone DEF Keeps
<1>3. \A g \in Handlers : InFlight(g)' => InFlight(g) /\ ToSet(prompt'[g]) = ToSet(prompt[g])
  BY DEF Keeps
<1>4. Held' \subseteq Held
  BY <1>1, <1>2, <1>3 DEF Held
<1>5. HeldApart'
  <2>1. \A h \in Handlers : pc'[h] = "idle" => h \notin Held'
    BY <1>4 DEF Keeps, DeliveryInv, HeldApart
  <2>2. \A h \in Handlers : InFlight(h)' => prompt'[h] # <<>>
    BY DEF Keeps, DeliveryInv, HeldApart
  <2>3. \A g, h \in Handlers :
          InFlight(g)' /\ InFlight(h)' /\ g # h => ToSet(prompt'[g]) \intersect ToSet(prompt'[h]) = {}
    BY <1>3 DEF DeliveryInv, HeldApart
  <2>4. active' # None =>
          \A h \in Handlers : InFlight(h)' => ToSet(prompt'[h]) \intersect ToSet(queue'[active']) = {}
    BY <1>1, <1>2, <1>3 DEF DeliveryInv, HeldApart
  <2>5. active' # None => Once(queue'[active'])
    BY <1>1 DEF DeliveryInv, HeldApart, Keeps, Once
  <2> QED BY <2>1, <2>2, <2>3, <2>4, <2>5 DEF HeldApart
<1>6. NewTurnsEmpty'
  BY DEF NewTurnsEmpty, Keeps, DeliveryInv
<1>7. NewObjectsEmpty'
  BY <1>1, ConstantsAssumption DEF NewObjectsEmpty, Keeps, DeliveryInv
<1> QED BY <1>4, <1>5, <1>6, <1>7 DEF DeliveryInv

\* An input is heard; no input is.
Hears(h) == pc[h] = "idle" /\ pc'[h] # "idle" /\ \A g \in Handlers \ {h} : pc'[g] = pc[g]
HearsNone == \A g \in Handlers : pc'[g] = "idle" <=> pc[g] = "idle"

\* A handler goes to an await past the start of a turn.
Leaves(h) == pc'[h] \notin {"idle"} \union StartPcs /\ \A g \in Handlers \ {h} : pc'[g] = pc[g]

LEMMA LeavesKeeps ==
  ASSUME TypeOK, NEW h \in Handlers, Leaves(h), UNCHANGED <<sent, nextRun, prompt>>, active' \in {active, None},
         \A g \in Handlers : queue'[g] \in {queue[g], <<>>},
         self'[h] = None => self[h] = None, \A g \in Handlers \ {h} : self'[g] = self[g]
  PROVE  /\ Keeps
         /\ pc[h] = "idle" => Hears(h)
         /\ pc[h] # "idle" => HearsNone
BY DEF Leaves, Keeps, Hears, HearsNone, InFlight, StartPcs

\* /stop tells the agent and empties the queue.
LEMMA StopRunLeaves ==
  ASSUME TypeOK, NEW h \in Handlers, StopRun(h)
  PROVE  /\ Leaves(h)
         /\ \A g \in Handlers : queue'[g] \in {queue[g], <<>>}
         /\ self'[h] = None => self[h] = None
         /\ \A g \in Handlers \ {h} : self'[g] = self[g]
<1>1. \E p \in {"failed", "stopPaused", "stopTurn"} : Goto(h, p)
  BY DEF StopRun
<1>2. Leaves(h)
  BY <1>1 DEF Leaves, Goto, StartPcs, TypeOK, HandlersTypeOK
<1>3. CASE active = None
  BY <1>2, <1>3 DEF StopRun
<1>4. CASE active # None
  <2>1. self' = [self EXCEPT ![h] = active] /\ queue' = [queue EXCEPT ![active] = <<>>]
    BY <1>4 DEF StopRun
  <2> QED BY <1>2, <1>4, <2>1 DEF TypeOK, HandlersTypeOK, ObjectsTypeOK
<1> QED BY <1>3, <1>4

\* An answer that is sent, or refused.
LEMMA SendAnswerLeaves ==
  ASSUME TypeOK, active # None, NEW h \in Handlers, NEW q, NEW d, SendAnswer(h, q, d)
  PROVE  /\ Leaves(h)
         /\ self'[h] = None => self[h] = None
         /\ \A g \in Handlers \ {h} : self'[g] = self[g]
BY DEF SendAnswer, Leaves, Goto, StartPcs, TypeOK, HandlersTypeOK

-----------------------------------------------------------------------------
(* The actions.                                                            *)

\* A command, an answer or a refused text leaves messages where they are, or
\* empties the queue.
LEMMA InputsKeep ==
  ASSUME TypeOK, DeliveryInv, NEW h \in Handlers, Input(h), ~StartTextRun(h), ~QueueMessage(h)
  PROVE  Keeps /\ Hears(h)
<1> DEFINE Left == /\ Leaves(h) /\ pc[h] = "idle" /\ UNCHANGED <<sent, nextRun, prompt, active>>
                   /\ \A g \in Handlers : queue'[g] \in {queue[g], <<>>}
                   /\ self'[h] = None => self[h] = None
                   /\ \A g \in Handlers \ {h} : self'[g] = self[g]
<1>1. ASSUME AskForDecision(h) PROVE Left
  BY <1>1 DEF Leaves, Goto, StartPcs, Arrives, AskForDecision, TypeOK, HandlersTypeOK, ScopeTypeOK,
     ObjectsTypeOK, turnVars, objectVars, fileVars
<1>2. ASSUME NEW c \in {"text", "click"}, NEW d \in Decisions, AnswerRequest(h, c, d) PROVE Left
  BY <1>2, SendAnswerLeaves DEF AnswerRequest, Arrives, objectVars, fileVars
<1>3. ASSUME NEW q \in Requests, ClickStaleCard(h, q) PROVE Left
  BY <1>3 DEF Leaves, Goto, StartPcs, Arrives, ClickStaleCard, TypeOK, HandlersTypeOK, ScopeTypeOK,
     ObjectsTypeOK, turnVars, objectVars, fileVars
<1>4. ASSUME Stop(h) PROVE Left
  BY <1>4, StopRunLeaves DEF Stop, Arrives, turnVars, fileVars
<1>5. ASSUME Reset(h) PROVE Left
  <2>1. pc[h] = "idle" /\ UNCHANGED <<sent, nextRun, prompt, active>>
    BY <1>5 DEF Reset, Arrives, fileVars
  <2>2. CASE active = None /\ ClearAndCreate(h, workspace) /\ UNCHANGED <<self, queue>>
    BY <2>1, <2>2 DEF ClearAndCreate, Leaves, Goto, StartPcs, TypeOK, HandlersTypeOK
  <2>3. CASE active # None /\ SendAnswer(h, pending[active], "cancel") /\ UNCHANGED queue
    BY <2>1, <2>3, SendAnswerLeaves
  <2>4. CASE StopRun(h)
    BY <2>1, <2>4, StopRunLeaves
  <2> QED BY <1>5, <2>2, <2>3, <2>4 DEF Reset
<1>6. ASSUME NEW w \in Workspaces, ChangeWorkspace(h, w) PROVE Left
  <2>1. pc[h] = "idle" /\ UNCHANGED <<sent, nextRun, prompt, active>>
    BY <1>6 DEF ChangeWorkspace, Arrives, fileVars
  <2>2. CASE active = None /\ ClearAndCreate(h, w) /\ UNCHANGED <<self, queue>>
    BY <2>1, <2>2 DEF ClearAndCreate, Leaves, Goto, StartPcs, TypeOK, HandlersTypeOK
  <2>3. CASE StopRun(h)
    BY <2>1, <2>3, StopRunLeaves
  <2> QED BY <1>6, <2>2, <2>3 DEF ChangeWorkspace
<1>7. ASSUME ClearSelectedSession(h) PROVE Left
  BY <1>7 DEF Leaves, Goto, StartPcs, Arrives, ClearSelectedSession, TypeOK, HandlersTypeOK, ScopeTypeOK,
     ObjectsTypeOK, turnVars, objectVars, fileVars
<1>8. ASSUME ResumeSession(h) PROVE Left
  BY <1>8 DEF Leaves, Goto, StartPcs, Arrives, ResumeSession, TypeOK, HandlersTypeOK, ScopeTypeOK,
     ObjectsTypeOK, turnVars, objectVars, fileVars
<1>9. ASSUME NEW on \in BOOLEAN, SetIdleTimeout(h, on) PROVE Left
  BY <1>9 DEF Leaves, Goto, StartPcs, Arrives, SetIdleTimeout, TypeOK, HandlersTypeOK, ScopeTypeOK,
     ObjectsTypeOK, turnVars, objectVars, fileVars
<1>10. Left
  BY <1>1, <1>2, <1>3, <1>4, <1>5, <1>6, <1>7, <1>8, <1>9 DEF Input
<1> QED BY <1>10, LeavesKeeps

\* What is common to the rest of a run's life.
LEMMA CallerResumesLeaves ==
  ASSUME TypeOK, NEW h \in Handlers, CallerResumes(h)
  PROVE  Leaves(h)
BY DEF CallerResumes, ClearAndCreate, Leaves, Goto, StartPcs, TypeOK, HandlersTypeOK

LEMMA FinishAndReleaseLeaves ==
  ASSUME TypeOK, NEW h \in Handlers, NEW st, FinishAndRelease(h, st)
  PROVE  Leaves(h) /\ active' \in {active, None}
<1>1. CASE CanFinish
  BY <1>1, CallerResumesLeaves DEF FinishAndRelease, Finish
<1>2. CASE ~CanFinish
  BY <1>2 DEF FinishAndRelease, Leaves, Goto, StartPcs, TypeOK, HandlersTypeOK
<1> QED BY <1>1, <1>2

\* A turn that is started or under way takes no message but those of its prompt.
LEMMA RunsKeep ==
  ASSUME TypeOK, DeliveryInv, NEW h \in Handlers, Resumes(h) \/ Happens(h),
         ~TurnStarts(h), ~InitialPublished(h), \A k \in 1 .. Cardinality(Handlers) : ~StartQueuedTurn(h, k)
  PROVE  Keeps /\ HearsNone
<1> DEFINE Left == /\ Leaves(h) /\ pc[h] # "idle" /\ UNCHANGED <<sent, nextRun, prompt>>
                   /\ active' \in {active, None} /\ \A g \in Handlers : queue'[g] \in {queue[g], <<>>}
                   /\ self'[h] = None => self[h] = None
                   /\ \A g \in Handlers \ {h} : self'[g] = self[g]
<1>1. ASSUME SessionReady(h) PROVE Keeps /\ HearsNone
  <2>1. /\ pc[h] \in {"createSession", "getSession", "replaceSession"}
        /\ pc'[h] \in {"startTurn", "restartTurn"} /\ \A g \in Handlers \ {h} : pc'[g] = pc[g]
        /\ UNCHANGED <<sent, nextRun, prompt, active, queue, self>>
    BY <1>1 DEF SessionReady, Goto, TypeOK, HandlersTypeOK, objectVars, turnVars, fileVars
  <2> QED BY <2>1 DEF Keeps, HearsNone, InFlight, StartPcs
<1>2. ASSUME ThreadMissing(h) PROVE Keeps /\ HearsNone
  <2>1. /\ pc[h] = "startTurn" /\ pc'[h] = "replaceSession" /\ \A g \in Handlers \ {h} : pc'[g] = pc[g]
        /\ UNCHANGED <<sent, nextRun, prompt, active, queue, self>>
    BY <1>2 DEF ThreadMissing, Goto, TypeOK, HandlersTypeOK, objectVars, turnVars, fileVars
  <2> QED BY <2>1 DEF Keeps, HearsNone, InFlight, StartPcs
<1>3. ASSUME NextPublished(h) PROVE Left
  BY <1>3 DEF NextPublished, Consume, ScopeTypeOK, Leaves, Goto, StartPcs, TypeOK, HandlersTypeOK,
     objectVars, turnVars, fileVars
<1>4. ASSUME ResolvedPublished(h) PROVE Left
  BY <1>4 DEF ResolvedPublished, Consume, ScopeTypeOK, Leaves, Goto, StartPcs, TypeOK, HandlersTypeOK,
     objectVars, turnVars, fileVars
<1>5. ASSUME ConsumeProgress(h) PROVE Left
  BY <1>5 DEF ConsumeProgress, Reduce, Leaves, Goto, StartPcs, TypeOK, HandlersTypeOK, objectVars, turnVars,
     fileVars
<1>6. ASSUME NEW kind \in RequestKinds, ConsumeRequest(h, kind) PROVE Left
  BY <1>6 DEF ConsumeRequest, Reduce, Leaves, Goto, StartPcs, TypeOK, HandlersTypeOK, objectVars, turnVars,
     fileVars
<1>7. ASSUME NEW silent \in BOOLEAN, ConsumeTerminal(h, silent) PROVE Left
  BY <1>7 DEF ConsumeTerminal, Reduce, ScopeTimer, Leaves, Goto, StartPcs, TypeOK, HandlersTypeOK,
     objectVars, turnVars, fileVars
<1>8. ASSUME ContinueConsuming(h) PROVE Left
  BY <1>8 DEF ContinueConsuming, Leaves, Goto, StartPcs, TypeOK, HandlersTypeOK, objectVars, turnVars, fileVars
<1>9. ASSUME AnswerDelivered(h) PROVE Left
  BY <1>9 DEF AnswerDelivered, Leaves, Goto, StartPcs, TypeOK, HandlersTypeOK, objectVars, turnVars, fileVars
<1>10. ASSUME PausedTurnStopped(h) PROVE Left
  BY <1>10 DEF PausedTurnStopped, Leaves, Goto, StartPcs, TypeOK, HandlersTypeOK, objectVars, turnVars, fileVars
<1>11. ASSUME SelectedSessionCreated(h) PROVE Left
  BY <1>11 DEF SelectedSessionCreated, Leaves, Goto, StartPcs, TypeOK, HandlersTypeOK, objectVars, turnVars,
     fileVars
<1>12. ASSUME FinishRun(h) PROVE Left
  BY <1>12, FinishAndReleaseLeaves DEF FinishRun, TerminalViewOut, objectVars, turnVars, fileVars
<1>13. ASSUME FinishEndedRun(h) PROVE Left
  BY <1>13, FinishAndReleaseLeaves DEF FinishEndedRun, TerminalViewOut, objectVars, turnVars, fileVars
<1>14. ASSUME FinishStoppedRun(h) PROVE Left
  BY <1>14, FinishAndReleaseLeaves DEF FinishStoppedRun, TerminalViewOut, objectVars, turnVars, fileVars
<1>15. ASSUME StopAcknowledged(h) PROVE Left
  BY <1>15, CallerResumesLeaves DEF StopAcknowledged, Leaves, Goto, StartPcs, TypeOK, HandlersTypeOK,
     objectVars, turnVars, fileVars
<1>16. ASSUME PauseForOwner(h) PROVE Left
  <2>1. /\ pc[h] # "idle" /\ UNCHANGED <<sent, nextRun, prompt, active>>
    BY <1>16 DEF PauseForOwner
  <2>2. CASE pending[self[h]] = None
    BY <1>16, <2>1, <2>2 DEF PauseForOwner, Leaves, Goto, StartPcs, TypeOK, HandlersTypeOK
  <2>3. CASE pending[self[h]] # None
    <3>1. AfterPause(h)
      BY <1>16, <2>3 DEF PauseForOwner
    <3>2. CASE StopRun(h)
      BY <2>1, <3>2, StopRunLeaves
    <3>3. CASE Goto(h, "done") /\ UNCHANGED <<self, stopReq, queue, stopAsked>>
      BY <2>1, <3>3 DEF Leaves, Goto, StartPcs, TypeOK, HandlersTypeOK
    <3> QED BY <3>1, <3>2, <3>3 DEF AfterPause
  <2> QED BY <2>2, <2>3
<1>17. ASSUME StartQueuedTurnElsewhere(h) PROVE Left
  <2>1. Leaves(h) /\ active' \in {active, None}
    <3>1. CASE Goto(h, "failed")
      BY <1>17, <3>1 DEF StartQueuedTurnElsewhere, Finish, Leaves, Goto, StartPcs, TypeOK, HandlersTypeOK
    <3>2. CASE CanFinish /\ Finish(view[active]) /\ CallerResumes(h)
      BY <3>2, CallerResumesLeaves DEF Finish
    <3> QED BY <1>17, <3>1, <3>2 DEF StartQueuedTurnElsewhere
  <2> QED BY <1>17, <2>1 DEF StartQueuedTurnElsewhere, TerminalViewOut, objectVars, turnVars, fileVars
<1>18. ASSUME CallFails(h) PROVE Left
  <2>1. pc[h] # "idle"
    <3>1. FaultOf("idle") \notin Faults
      BY ConstantsAssumption DEF FaultOf, AllFaults
    <3> QED BY <1>18, <3>1 DEF CallFails
  <2> QED BY <1>18, <2>1 DEF CallFails, Leaves, Goto, StartPcs, TypeOK, HandlersTypeOK, objectVars,
         turnVars, fileVars
<1>19. ASSUME Left PROVE Keeps /\ HearsNone
  BY <1>19, LeavesKeeps
<1> HIDE DEF Left
<1> QED BY <1>1, <1>2, <1>3, <1>4, <1>5, <1>6, <1>7, <1>8, <1>9, <1>10, <1>11, <1>12, <1>13, <1>14, <1>15,
       <1>16, <1>17, <1>18, <1>19 DEF Resumes, Happens

\* Neither do the agent, the timer and a restart.
LEMMA OthersKeep ==
  ASSUME TypeOK, DeliveryInv,
         \/ \E r \in Runs, outcome \in Terminal : AgentTurnEnds(r, outcome)
         \/ \E o \in Handlers : IdleTimerFires(o)
         \/ HandleIdleTimeout \/ Restart
  PROVE  Keeps /\ HearsNone
<1>1. ASSUME NEW r \in Runs, NEW outcome \in Terminal, AgentTurnEnds(r, outcome) PROVE Keeps /\ HearsNone
  <2>1. UNCHANGED <<sent, nextRun, prompt, active, queue, self, pc>>
    BY <1>1 DEF AgentTurnEnds, handlerVars, objectVars, fileVars
  <2> QED BY <2>1 DEF Keeps, HearsNone, InFlight
<1>2. ASSUME NEW o \in Handlers, IdleTimerFires(o) PROVE Keeps /\ HearsNone
  <2>1. UNCHANGED <<sent, nextRun, prompt, active, queue, self, pc>>
    BY <1>2 DEF IdleTimerFires, handlerVars, turnVars, fileVars
  <2> QED BY <2>1 DEF Keeps, HearsNone, InFlight
<1>3. CASE HandleIdleTimeout
  <2>1. UNCHANGED <<sent, nextRun, prompt, active, self, pc>>
    BY <1>3 DEF HandleIdleTimeout, handlerVars, fileVars
  <2>2. \A g \in Handlers : queue'[g] \in {queue[g], <<>>}
    BY <1>3 DEF HandleIdleTimeout, TypeOK, ObjectsTypeOK
  <2> QED BY <2>1, <2>2 DEF Keeps, HearsNone, InFlight
<1>4. CASE Restart
  <2>1. /\ UNCHANGED <<sent, nextRun, prompt, self>> /\ active' = None
        /\ \A g \in Handlers : queue'[g] = <<>> /\ pc'[g] = IF pc[g] = "idle" THEN "idle" ELSE "failed"
    BY <1>4 DEF Restart
  <2> QED BY <2>1 DEF Keeps, HearsNone, InFlight, StartPcs
<1> QED BY <1>1, <1>2, <1>3, <1>4

\* A text of an idle scope goes into the prompt of the turn it starts.
LEMMA StartTextRunHolds ==
  ASSUME TypeOK, DeliveryInv, NEW h \in Handlers, StartTextRun(h)
  PROVE  DeliveryInv' /\ Hears(h) /\ Held' = Held \union {h} /\ UNCHANGED sent
<1>1. /\ pc[h] = "idle" /\ active = None /\ pc'[h] \in {"createSession", "startTurn", "getSession"}
      /\ \A g \in Handlers \ {h} : pc'[g] = pc[g] /\ prompt'[g] = prompt[g]
      /\ prompt'[h] = <<h>>
      /\ UNCHANGED <<self, active, queue, sent, nextRun>>
  BY DEF StartTextRun, Arrives, ScopeIsFree, RequestSession, Goto, TypeOK, HandlersTypeOK,
         objectVars, turnVars, fileVars
<1>2. ToSet(<<h>>) = {h}
  BY DEF ToSet
<1>3. /\ ~InFlight(h) /\ InFlight(h)' /\ Hears(h)
      /\ \A g \in Handlers \ {h} : (InFlight(g)' <=> InFlight(g)) /\ prompt'[g] = prompt[g]
  BY <1>1 DEF InFlight, StartPcs, Hears
<1>4. Held' = Held \union {h}
  BY <1>1, <1>2, <1>3 DEF Held
<1>5. h \notin Held
  BY <1>1 DEF DeliveryInv, HeldApart
<1>6. \A g \in Handlers : InFlight(g) => h \notin ToSet(prompt[g])
  BY <1>5 DEF Held
<1>7. HeldApart'
  <2>1. \A g \in Handlers : pc'[g] = "idle" => g \notin Held'
    BY <1>1, <1>4 DEF DeliveryInv, HeldApart
  <2>2. \A g \in Handlers : InFlight(g)' => prompt'[g] # <<>>
    BY <1>1, <1>3 DEF DeliveryInv, HeldApart
  <2>3. \A f, g \in Handlers :
          InFlight(f)' /\ InFlight(g)' /\ f # g => ToSet(prompt'[f]) \intersect ToSet(prompt'[g]) = {}
    BY <1>1, <1>2, <1>3, <1>6 DEF DeliveryInv, HeldApart
  <2> QED BY <1>1, <2>1, <2>2, <2>3 DEF HeldApart
<1>8. NewTurnsEmpty' /\ NewObjectsEmpty'
  BY <1>1 DEF DeliveryInv, NewTurnsEmpty, NewObjectsEmpty
<1> QED BY <1>1, <1>3, <1>4, <1>7, <1>8 DEF DeliveryInv

\* A text of a scope with a run goes into the queue of its ActiveRun.
LEMMA QueueMessageHolds ==
  ASSUME TypeOK, DeliveryInv, NEW h \in Handlers, QueueMessage(h)
  PROVE  DeliveryInv' /\ Hears(h) /\ Held' = Held \union {h} /\ UNCHANGED sent
<1>1. /\ pc[h] = "idle" /\ active # None /\ active \in Handlers /\ pc'[h] = "done"
      /\ \A g \in Handlers \ {h} : pc'[g] = pc[g]
      /\ queue[active] \in Seq(Handlers) /\ queue'[active] = Append(queue[active], h)
      /\ \A g \in Handlers \ {active} : queue'[g] = queue[g]
      /\ UNCHANGED <<self, active, prompt, sent, nextRun>>
  BY DEF QueueMessage, Arrives, Goto, TypeOK, HandlersTypeOK, ScopeTypeOK, ObjectsTypeOK, turnVars, fileVars
<1>2. /\ ToSet(queue'[active]) = ToSet(queue[active]) \union {h}
      /\ Once(queue[active]) /\ h \notin ToSet(queue[active]) => Once(queue'[active])
  BY <1>1, Appended
<1>3. /\ ~InFlight(h) /\ ~InFlight(h)' /\ Hears(h)
      /\ \A g \in Handlers : InFlight(g)' <=> InFlight(g)
  BY <1>1 DEF InFlight, StartPcs, Hears
<1>4. Held' = Held \union {h}
  BY <1>1, <1>2, <1>3 DEF Held
<1>5. h \notin Held
  BY <1>1 DEF DeliveryInv, HeldApart
<1>6. h \notin ToSet(queue[active]) /\ \A g \in Handlers : InFlight(g) => h \notin ToSet(prompt[g])
  BY <1>1, <1>5 DEF Held
<1>7. HeldApart'
  <2>1. \A g \in Handlers : pc'[g] = "idle" => g \notin Held'
    BY <1>1, <1>4 DEF DeliveryInv, HeldApart
  <2>2. \A g \in Handlers : InFlight(g)' => prompt'[g] # <<>>
    BY <1>1, <1>3 DEF DeliveryInv, HeldApart
  <2>3. \A f, g \in Handlers :
          InFlight(f)' /\ InFlight(g)' /\ f # g => ToSet(prompt'[f]) \intersect ToSet(prompt'[g]) = {}
    BY <1>1, <1>3 DEF DeliveryInv, HeldApart
  <2>4. Once(queue'[active]) /\
        \A g \in Handlers : InFlight(g)' => ToSet(prompt'[g]) \intersect ToSet(queue'[active]) = {}
    BY <1>1, <1>2, <1>3, <1>6 DEF DeliveryInv, HeldApart
  <2> QED BY <1>1, <2>1, <2>2, <2>3, <2>4 DEF HeldApart
<1>8. NewTurnsEmpty' /\ NewObjectsEmpty'
  BY <1>1 DEF DeliveryInv, NewTurnsEmpty, NewObjectsEmpty
<1> QED BY <1>1, <1>3, <1>4, <1>7, <1>8 DEF DeliveryInv

\* A turn takes its prompt: nothing of it is held any more.
LEMMA TurnStartsTakes ==
  ASSUME TypeOK, DeliveryInv, NEW h \in Handlers, TurnStarts(h)
  PROVE  /\ DeliveryInv' /\ HearsNone
         /\ nextRun + 1 \in Runs /\ sent[nextRun + 1] = <<>>
         /\ sent' = [sent EXCEPT ![nextRun + 1] = prompt[h]]
         /\ ToSet(prompt[h]) # {} /\ ToSet(prompt[h]) \subseteq Held /\ Held' = Held \ ToSet(prompt[h])
<1> DEFINE r == nextRun + 1
<1>1. /\ pc[h] \in {"startTurn", "restartTurn"} /\ r \in Runs /\ nextRun \in Nat
      /\ nextRun' = r /\ sent' = [sent EXCEPT ![r] = prompt[h]]
      /\ pc'[h] = IF self[h] = None THEN "publishInitial" ELSE "publishNext"
      /\ \A g \in Handlers \ {h} : pc'[g] = pc[g]
      /\ UNCHANGED <<self, active, prompt, queue>>
  <2>1. nextRun \in Nat /\ nextRun < MaxRuns /\ MaxRuns \in Nat
    BY ConstantsAssumption DEF TurnStarts, TypeOK, FilesTypeOK
  <2>2. pc' = [pc EXCEPT ![h] = IF self[h] = None THEN "publishInitial" ELSE "publishNext"]
    BY DEF TurnStarts, Goto
  <2>3. UNCHANGED <<self, active, prompt, queue>>
    BY DEF TurnStarts, objectVars
  <2> QED BY <2>1, <2>2, <2>3 DEF TurnStarts, TypeOK, HandlersTypeOK, Runs
<1>2. /\ InFlight(h) /\ ~InFlight(h)' /\ HearsNone
      /\ \A g \in Handlers \ {h} : InFlight(g)' <=> InFlight(g)
  BY <1>1 DEF InFlight, StartPcs, HearsNone
<1>3. ToSet(prompt[h]) # {}
  <2>1. prompt[h] \in Seq(Handlers) /\ prompt[h] # <<>>
    BY <1>2 DEF TypeOK, HandlersTypeOK, DeliveryInv, HeldApart
  <2>2. 1 \in 1 .. Len(prompt[h])
    BY <2>1, EmptySeq
  <2>3. ToSet(prompt[h]) = {prompt[h][i] : i \in 1 .. Len(prompt[h])}
    BY <2>1, MessagesOf
  <2> QED BY <2>2, <2>3
<1>4. ToSet(prompt[h]) \subseteq Held
  <2>1. prompt[h] \in Seq(Handlers)
    BY DEF TypeOK, HandlersTypeOK
  <2>2. ToSet(prompt[h]) \subseteq Handlers
    BY <2>1, MessagesOf
  <2> QED BY <1>2, <2>2 DEF Held
<1>5. Held' = Held \ ToSet(prompt[h])
  <2>1. \A m \in Handlers : m \in ToSet(prompt[h]) =>
          /\ active # None => m \notin ToSet(queue[active])
          /\ \A g \in Handlers \ {h} : InFlight(g) => m \notin ToSet(prompt[g])
    BY <1>2 DEF DeliveryInv, HeldApart
  <2> QED BY <1>1, <1>2, <2>1 DEF Held
<1>6. HeldApart'
  BY <1>1, <1>2, <1>5 DEF DeliveryInv, HeldApart
<1>7. sent[r] = <<>> /\ NewTurnsEmpty'
  <2>1. \A q \in Runs : q > r => q > nextRun /\ q # r
    BY <1>1 DEF Runs
  <2>2. r > nextRun
    BY <1>1
  <2> QED BY <1>1, <2>1, <2>2 DEF DeliveryInv, NewTurnsEmpty, TypeOK, TurnsTypeOK
<1>8. NewObjectsEmpty'
  BY <1>1 DEF DeliveryInv, NewObjectsEmpty
<1> QED BY <1>1, <1>2, <1>3, <1>4, <1>5, <1>6, <1>7, <1>8 DEF DeliveryInv

\* A new ActiveRun has an empty queue; that of one it replaces is given up.
LEMMA InitialPublishedDrops ==
  ASSUME TypeOK, DeliveryInv, NEW h \in Handlers, InitialPublished(h)
  PROVE  DeliveryInv' /\ HearsNone /\ Held' \subseteq Held /\ UNCHANGED sent
<1>1. /\ pc[h] = "publishInitial" /\ pc'[h] = "consume" /\ \A g \in Handlers \ {h} : pc'[g] = pc[g]
      /\ active' = h /\ h # None /\ self'[h] = h /\ \A g \in Handlers \ {h} : self'[g] = self[g]
      /\ UNCHANGED <<prompt, queue, sent, nextRun>>
  BY ConstantsAssumption DEF InitialPublished, Goto, TypeOK, HandlersTypeOK, turnVars, fileVars
<1>2. self[h] = None /\ queue[h] = <<>>
  BY <1>1 DEF DeliveryInv, NewObjectsEmpty
<1>3. HearsNone /\ \A g \in Handlers : InFlight(g)' <=> InFlight(g)
  BY <1>1 DEF InFlight, StartPcs, HearsNone
<1>4. ToSet(queue'[active']) = {} /\ Once(queue'[active'])
  BY <1>1, <1>2, EmptyHasNone DEF Once
<1>5. Held' \subseteq Held
  BY <1>1, <1>3, <1>4 DEF Held
<1>6. HeldApart'
  BY <1>1, <1>3, <1>4, <1>5 DEF DeliveryInv, HeldApart
<1>7. NewTurnsEmpty' /\ NewObjectsEmpty'
  BY <1>1, <1>2 DEF DeliveryInv, NewTurnsEmpty, NewObjectsEmpty
<1> QED BY <1>1, <1>3, <1>5, <1>6, <1>7 DEF DeliveryInv

\* Queued messages become a prompt: none is lost, none doubled.
LEMMA StartQueuedTurnMoves ==
  ASSUME TypeOK, DeliveryInv, NEW h \in Handlers, NEW k \in 1 .. Cardinality(Handlers), StartQueuedTurn(h, k)
  PROVE  DeliveryInv' /\ HearsNone /\ Held' \subseteq Held /\ UNCHANGED sent
<1> DEFINE q == queue[active]
<1>1. /\ active # None /\ active \in Handlers /\ k \in 1 .. Len(q) /\ q \in Seq(Handlers)
      /\ pc[h] = "publishEvent" /\ pc'[h] \in {"createSession", "startTurn", "getSession"}
      /\ \A g \in Handlers \ {h} : pc'[g] = pc[g] /\ prompt'[g] = prompt[g] /\ self'[g] = self[g]
      /\ prompt'[h] = SubSeq(q, 1, k) /\ queue'[active] = Remaining(q, k)
      /\ \A g \in Handlers \ {active} : queue'[g] = queue[g]
      /\ self'[h] = active
      /\ UNCHANGED <<active, sent, nextRun>>
  BY DEF StartQueuedTurn, TerminalViewOut, RequestSession, Goto, TypeOK, HandlersTypeOK, ScopeTypeOK,
         ObjectsTypeOK, turnVars, fileVars
<1>2. Once(q)
  BY <1>1 DEF DeliveryInv, HeldApart
<1>3. /\ prompt'[h] # <<>> /\ Once(queue'[active])
      /\ ToSet(prompt'[h]) \subseteq ToSet(q) /\ ToSet(queue'[active]) \subseteq ToSet(q)
      /\ ToSet(prompt'[h]) \intersect ToSet(queue'[active]) = {}
  <2>1. PICK s \in Seq(Handlers) : s = q
    BY <1>1
  <2>2. Once(s) /\ k \in 1 .. Len(s)
    BY <1>1, <1>2, <2>1
  <2>3. /\ SubSeq(s, 1, k) # <<>> /\ Once(Remaining(s, k))
        /\ ToSet(SubSeq(s, 1, k)) \subseteq ToSet(s) /\ ToSet(Remaining(s, k)) \subseteq ToSet(s)
        /\ ToSet(SubSeq(s, 1, k)) \intersect ToSet(Remaining(s, k)) = {}
    BY <2>2, Cut
  <2> QED BY <1>1, <2>1, <2>3
<1>4. /\ ~InFlight(h) /\ InFlight(h)' /\ HearsNone
      /\ \A g \in Handlers \ {h} : (InFlight(g)' <=> InFlight(g)) /\ prompt'[g] = prompt[g]
  BY <1>1 DEF InFlight, StartPcs, HearsNone
<1>5. Held' \subseteq Held
  BY <1>1, <1>3, <1>4 DEF Held
<1>6. \A g \in Handlers : InFlight(g) => ToSet(prompt[g]) \intersect ToSet(q) = {}
  BY <1>1 DEF DeliveryInv, HeldApart
<1>7. HeldApart'
  <2>1. \A g \in Handlers : pc'[g] = "idle" => g \notin Held'
    BY <1>4, <1>5 DEF DeliveryInv, HeldApart, HearsNone
  <2>2. \A g \in Handlers : InFlight(g)' => prompt'[g] # <<>>
    BY <1>3, <1>4 DEF DeliveryInv, HeldApart
  <2>3. \A f, g \in Handlers :
          InFlight(f)' /\ InFlight(g)' /\ f # g => ToSet(prompt'[f]) \intersect ToSet(prompt'[g]) = {}
    <3> SUFFICES ASSUME NEW f \in Handlers, NEW g \in Handlers, InFlight(f)', InFlight(g)', f # g
                 PROVE  ToSet(prompt'[f]) \intersect ToSet(prompt'[g]) = {}
      OBVIOUS
    <3>1. CASE f # h /\ g # h
      BY <1>4, <3>1 DEF DeliveryInv, HeldApart
    <3>2. CASE f = h
      BY <1>3, <1>4, <1>6, <3>2
    <3>3. CASE g = h
      BY <1>3, <1>4, <1>6, <3>3
    <3> QED BY <3>1, <3>2, <3>3
  <2>4. \A g \in Handlers : InFlight(g)' => ToSet(prompt'[g]) \intersect ToSet(queue'[active]) = {}
    BY <1>3, <1>4, <1>6
  <2> QED BY <1>1, <1>3, <2>1, <2>2, <2>3, <2>4 DEF HeldApart
<1>8. NewTurnsEmpty' /\ NewObjectsEmpty'
  <2>1. NewTurnsEmpty'
    BY <1>1 DEF DeliveryInv, NewTurnsEmpty
  <2>2. NewObjectsEmpty'
    BY <1>1 DEF DeliveryInv, NewObjectsEmpty, StartPcs
  <2> QED BY <2>1, <2>2
<1> QED BY <1>1, <1>4, <1>5, <1>7, <1>8 DEF DeliveryInv

-----------------------------------------------------------------------------
(* The refinement.                                                         *)

Seen == {h \in Handlers : pc[h] # "idle"}
Given == [r \in Runs |-> ToSet(sent[r])]

LEMMA SeenGrows ==
  /\ HearsNone => UNCHANGED Seen
  /\ \A h \in Handlers : Hears(h) => h \notin Seen /\ Seen' = Seen \union {h}
BY DEF HearsNone, Hears, Seen

LEMMA InitDelivers ==
  ASSUME Init
  PROVE  DeliveryInv /\ Delivery!Init
<1>1. Held = {} /\ \A h \in Handlers : ~InFlight(h)
  BY DEF Init, Held, InFlight, StartPcs
<1>2. DeliveryInv
  BY <1>1, ConstantsAssumption DEF Init, DeliveryInv, HeldApart, NewTurnsEmpty, NewObjectsEmpty
<1>3. Seen = {} /\ Given = [r \in Runs |-> {}]
  BY EmptyHasNone DEF Init, Seen, Given
<1> QED BY <1>1, <1>2, <1>3 DEF Delivery!Init, Seen, Given

\* A step that keeps messages receives a command or drops some of them.
LEMMA KeepsDelivers ==
  ASSUME TypeOK, DeliveryInv, Keeps, HearsNone \/ \E h \in Handlers : Hears(h)
  PROVE  DeliveryInv' /\ Delivery!Next
<1>1. DeliveryInv' /\ Held' \in SUBSET Held
  BY KeepsHeld
<1>2. UNCHANGED Given
  BY DEF Keeps, Given
<1>3. CASE HearsNone
  <2>1. Delivery!Drop
    BY <1>1, <1>2, <1>3, SeenGrows DEF Delivery!Drop, Seen, Given
  <2> QED BY <1>1, <2>1 DEF Delivery!Next
<1>4. ASSUME NEW h \in Handlers, Hears(h) PROVE Delivery!Next
  <2>1. Delivery!Command(h)
    BY <1>1, <1>2, <1>4, SeenGrows DEF Delivery!Command, Seen, Given
  <2> QED BY <2>1 DEF Delivery!Next
<1> QED BY <1>1, <1>3, <1>4

LEMMA DeliveryStep ==
  ASSUME TypeOK, DeliveryInv, Next
  PROVE  DeliveryInv' /\ Delivery!Next
<1>1. ASSUME NEW h \in Handlers, StartTextRun(h) \/ QueueMessage(h) PROVE DeliveryInv' /\ Delivery!Next
  <2>1. DeliveryInv' /\ Hears(h) /\ Held' = Held \union {h} /\ UNCHANGED Given
    BY <1>1, StartTextRunHolds, QueueMessageHolds DEF Given
  <2>2. Delivery!Receive(h)
    BY <2>1, SeenGrows DEF Delivery!Receive, Seen, Given
  <2> QED BY <2>1, <2>2 DEF Delivery!Next
<1>2. ASSUME NEW h \in Handlers, TurnStarts(h) PROVE DeliveryInv' /\ Delivery!Next
  <2>1. PICK r \in Runs : r = nextRun + 1
    BY <1>2, TurnStartsTakes
  <2>2. /\ DeliveryInv' /\ HearsNone /\ sent[r] = <<>> /\ sent' = [sent EXCEPT ![r] = prompt[h]]
        /\ ToSet(prompt[h]) # {} /\ ToSet(prompt[h]) \subseteq Held /\ Held' = Held \ ToSet(prompt[h])
    BY <1>2, <2>1, TurnStartsTakes
  <2>3. Given[r] = {} /\ Given' = [Given EXCEPT ![r] = ToSet(prompt[h])]
    BY <2>2, EmptyHasNone DEF Given, TypeOK, TurnsTypeOK
  <2>4. Delivery!Deliver(r, ToSet(prompt[h]))
    BY <2>2, <2>3, SeenGrows DEF Delivery!Deliver, Seen, Given
  <2> QED BY <2>2, <2>4 DEF Delivery!Next
<1>3. ASSUME NEW h \in Handlers, InitialPublished(h) \/ \E k \in 1 .. Cardinality(Handlers) : StartQueuedTurn(h, k)
      PROVE  DeliveryInv' /\ Delivery!Next
  <2>1. DeliveryInv' /\ HearsNone /\ Held' \in SUBSET Held /\ UNCHANGED Given
    BY <1>3, InitialPublishedDrops, StartQueuedTurnMoves DEF Given
  <2>2. Delivery!Drop
    BY <2>1, SeenGrows DEF Delivery!Drop, Seen, Given
  <2> QED BY <2>1, <2>2 DEF Delivery!Next
<1>4. ASSUME NEW h \in Handlers, Input(h) PROVE DeliveryInv' /\ Delivery!Next
  BY <1>1, <1>4, InputsKeep, KeepsDelivers
<1>5. ASSUME NEW h \in Handlers, Resumes(h) \/ Happens(h) PROVE DeliveryInv' /\ Delivery!Next
  BY <1>2, <1>3, <1>5, RunsKeep, KeepsDelivers
<1>6. CASE \/ \E r \in Runs, outcome \in Terminal : AgentTurnEnds(r, outcome)
           \/ \E o \in Handlers : IdleTimerFires(o)
           \/ HandleIdleTimeout \/ Restart
  BY <1>6, OthersKeep, KeepsDelivers
<1> QED BY <1>4, <1>5, <1>6 DEF Next

LEMMA StutterDelivers ==
  ASSUME DeliveryInv, UNCHANGED vars
  PROVE  DeliveryInv' /\ UNCHANGED <<Seen, Held, Given>>
<1>1. UNCHANGED <<pc, prompt, active, queue, sent, self, nextRun>>
  BY DEF vars, handlerVars, objectVars, turnVars, fileVars
<1>2. \A g \in Handlers : InFlight(g)' = InFlight(g)
  BY <1>1 DEF InFlight
<1>3. Held' = Held
  BY <1>1, <1>2 DEF Held
<1>4. DeliveryInv'
  BY <1>1, <1>2, <1>3 DEF DeliveryInv, HeldApart, NewTurnsEmpty, NewObjectsEmpty
<1> QED BY <1>1, <1>3, <1>4 DEF Seen, Given

\* RunController implements MessageDelivery: whatever inputs overlap, whatever
\* calls fail and however often the bridge restarts, a message goes to at most
\* one Agent Turn, a turn gets its prompt once, and a message that was sent or
\* dropped is never held again.
THEOREM MessagesAreDeliveredOnce == Spec => MessagesDeliveredOnce
<1>1. Init => DeliveryInv /\ Delivery!Init
  BY InitDelivers
<1>2. TypeOK /\ DeliveryInv /\ [Next]_vars =>
        DeliveryInv' /\ [Delivery!Next]_<<{h \in Handlers : pc[h] # "idle"}, Held, [r \in Runs |-> ToSet(sent[r])]>>
  BY DeliveryStep, StutterDelivers DEF Seen, Given
<1> QED BY <1>1, <1>2, TypesAreCorrect, PTL DEF Spec, MessagesDeliveredOnce, Delivery!Spec
=============================================================================
