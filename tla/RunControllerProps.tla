------------------------ MODULE RunControllerProps ------------------------
(***************************************************************************)
(* What the runs of the bridge must satisfy, stated over RunController.    *)
(* README.md says which run checks which property, and under which owner's *)
(* discipline and faults it holds.                                         *)
(***************************************************************************)
EXTENDS RunController, SequencesExt

\* Nothing is in progress.
Quiescent == fired = 0 /\ \A h \in Handlers : pc[h] \in Ended \union {"idle"}

\* The run the scope holds as active is the one the files show as running: an
\* entry of _active_runs never outlives the record of its run, through hand-offs
\* to queued turns, failing calls, timeouts and restarts (lines 133, 424, 479).
ActiveRunIsOpen == active # None => status[run[active]] = "running"

\* The terminal status of a run is written once: no consumer, stop or recovery
\* writes another over it (record_run_terminal_status and recover_incomplete).
FinishedRunsStayFinished ==
  [][\A r \in Runs : status[r] \in Terminal => status'[r] = status[r]]_status

-----------------------------------------------------------------------------
(* Messages and the turns that run them.                                   *)

\* A handler between popping its messages and the start of their turn.
InFlight(h) == pc[h] \in StartPcs \ {"publishInitial"}
Held == {m \in Handlers : \/ active # None /\ m \in ToSet(queue[active])
                          \/ \E h \in Handlers : InFlight(h) /\ m \in ToSet(prompt[h])}

Delivery == INSTANCE MessageDelivery
              WITH Messages <- Handlers, Turns <- Runs,
                   seen <- {h \in Handlers : pc[h] # "idle"},
                   held <- Held,
                   given <- [r \in Runs |-> ToSet(sent[r])]

\* A message goes to at most one Agent Turn and never comes back once it was
\* sent or dropped: not when it is merged, when its turn hands over to the next,
\* when the session vanishes and the turn is started again, nor when a call fails.
MessagesDeliveredOnce == Delivery!Spec

\* A queued message goes away only into a turn or with a command that empties the
\* queue: finishing a run loses none (lines 362-363 and 424).
QueuedMessageKept ==
  [][\A m \in Handlers :
       m \in Held /\ m \notin Held' =>
         \/ \E r \in Runs : m \in ToSet(sent'[r])
         \/ \E o \in Handlers : m \in ToSet(queue[o]) /\ queue'[o] = <<>>]_vars

\* A turn works in the directory the owner chose last when it starts: no turn
\* starts in a session of the workspace the owner has just left (lines 169-183).
TurnRunsInCurrentWorkspace ==
  [][nextRun' = nextRun + 1 => usedSess'[nextRun'].ws = workspace]_nextRun

\* When nothing is in progress, the session selected for the next turn works in the
\* current workspace: a /cd clears the selection of the one before.  A session that
\* was asked for before the /cd and answers after it breaks it (lines 498-499).
SelectionIsCurrent == Quiescent /\ selected # None => selected.ws = workspace

-----------------------------------------------------------------------------
(* One run at a time, and one consumer for it.                             *)

\* The scope's run gives way to another only by ending (line 67: "scope already
\* has an active run"); a hand-off keeps the ActiveRun.  Two texts that both pass
\* line 66 before either registers at line 133 break it.
ActiveRunNeverReplaced == [][active # None => active' \in {active, None}]_active

\* No two handlers take events from the stream of one turn, so none of its events
\* is reduced out of order or missed by the one that has the view (line 337).
OneConsumerPerStream ==
  \A g, h \in Handlers : g # h /\ pc[g] = "consume" /\ pc[h] = "consume" => strm[g] # strm[h]

\* _finish ends the run of the handler that called it, although it looks the
\* scope's entry up again after the publish it has just awaited (line 392).  An
\* answer, or a second /stop, that is overtaken ends the run that came after.
FinishesOwnRun ==
  [][\A h \in Handlers :
       /\ pc[h] \in {"publishEvent", "publishEnd", "publishStop"} /\ pc'[h] # pc[h]
       /\ status' # status
       => active = self[h]]_vars

-----------------------------------------------------------------------------
(* Pending Requests.                                                       *)

\* The request an ActiveRun waits on is on the card, in the files and open at the agent.
AwaitsOwner(o) == Paused(o) /\ record[pending[o]] = "open" /\ pending[o] \in unanswered

\* When nothing is in progress any more, the scope is free or its run waits for
\* the owner.  Otherwise the run is stuck and no text of the owner starts another.
\* An answer that arrives before its request is recorded (line 349) breaks it.
QuiescentRunAwaitsOwner == Quiescent /\ active # None => AwaitsOwner(active)

\* However inputs overlap and whatever calls fail, the scope is stuck with a run
\* nobody works on only if a handler of that very run has raised: the run that is
\* left is never the victim of another run's handler, nor of one that returned
\* normally (lines 150, 309-320, 337-392).
StuckScopeRaised ==
  Quiescent /\ active # None =>
    AwaitsOwner(active) \/ \E h \in Handlers : pc[h] = "failed" /\ self[h] = active

\* The files show no open request of a finished run: whoever ends a run closes
\* the request it waited on (lines 141-148 and 402-406).
FinishedRunHasNoOpenRequest ==
  \A q \in Requests : record[q] = "open" => status[q.run] \notin Terminal

\* When nothing is in progress any more, a run the files show as running is the
\* scope's active one: every other run has its terminal status (lines 362-363).
NoRunLeftRunning ==
  Quiescent => \A r \in Runs : status[r] = "running" => active # None /\ run[active] = r

-----------------------------------------------------------------------------
(* Interruption.                                                           *)

\* A run is recorded as timed out only if its own turn was stopped for it: the
\* watchdog of one run does not end the next one (lines 370 and 484).
TimedOutRunWasStopped == \A r \in Runs : status[r] = "timed_out" => stopAsked[r]

\* The scope leaves a turn the agent was asked to stop.
StopEndsItsTurn == \A r \in Runs : stopAsked[r] ~> ~(active # None /\ run[active] = r)

\* The scope leaves a turn that has ended, or shows the request it ended with.
EndedTurnIsLeft ==
  \A r \in Runs :
    (turn[r] \in Terminal /\ active # None /\ run[active] = r)
      ~> ~(active # None /\ run[active] = r /\ ~Paused(active))

\* /stop, and a /reset or /cd that stops the run first, goes on only when the scope
\* has left the ActiveRun it stopped, whichever handler finished it: no new session
\* is chosen under a run that still works (lines 150, 169-183, 630).
StoppedRunIsLeft ==
  [][\A h \in Handlers :
       /\ pc[h] \in {"stopTurn", "awaitCompletion"} /\ pc'[h] \in {"done", "createSelected"}
       => active # self[h]]_vars

\* /stop comes back to the owner (line 150 awaits the completion_future).
StopReturns == \A h \in Handlers : (cmd[h] = "stop") ~> (pc[h] \in Ended)
=============================================================================
