------------------------------ MODULE RunFiles ------------------------------
(***************************************************************************)
(* What the bridge leaves on disk: the files of FileStore in               *)
(* c_auto_bridge/store/file_store.py and the second copies that            *)
(* FileRunPersistence of store/file_run_persistence.py keeps of runs,      *)
(* pending requests and agent sessions, with the operations of the run     *)
(* controller and of the agent adapter that write them.                    *)
(*                                                                         *)
(* A file is replaced in one step (utils/atomic_file.py), an operation     *)
(* writes several files one after the other, and nothing else runs between *)
(* two writes of one operation: none of its calls awaits anything.  The    *)
(* process may die between any two writes, also while it recovers, and a   *)
(* write may raise after its last attempt, which ends the operation.       *)
(*                                                                         *)
(* Here is one private chat.  A run asks its owner at most once and its    *)
(* request has the name of the run.  Messages, /new, /cd and /resume are   *)
(* taken one at a time (their overlaps are the subject of RunController);  *)
(* /model use and /agent come at any time.  Logs, cards, named workspaces  *)
(* and time stamps are left out.                                           *)
(***************************************************************************)
EXTENDS Naturals, Sequences

CONSTANTS
  Runs, Sessions,
  None,       \* no run or session
  MaxCrashes, \* bound: how often the process dies
  MaxFailures \* bound: how often a write raises

ASSUME RunFilesAssumption ==
  /\ None \notin Runs \cup Sessions
  /\ MaxCrashes \in Nat /\ MaxFailures \in Nat

Ends == {"completed", "interrupted"} \* "completed" also stands for failed and timed_out
RunStatus == {"none", "running"} \cup Ends
RequestStatus == {"none", "open", "resolved", "cancelled"}

(* The phases of the bridge: down; recover_incomplete of its start; no     *)
(* active run; a session is created, or renewed because a fresh one was    *)
(* asked for, then recorded, and a turn started in it; a consumer reads a  *)
(* run; the run waits for its owner; its request can be answered no more;  *)
(* and an active run that nothing consumes or can end.                     *)
Phases == {"off", "recovering", "idle", "creating", "renewing", "recording", "starting",
           "running", "paused", "stuck", "stranded"}
Purposes == {"text", "queued", "reset"}

VARIABLES
  \* the files, "none" where there is none
  disk,
  \* the writes still to be done of the operation that is being done, and what
  \* becomes of the memory and of the dropped sessions when they are, or one raises
  todo, then,
  \* the memory: what the bridge is at and for what, its active run, the session of
  \* that run or of the turn that is started, the selected session, whether the next
  \* run needs a fresh one, and the runs of this process
  mem,
  \* history: the sessions that the owner has left with /new, /reset, /cd, /model
  \* use or /agent and not resumed, and how often something went wrong
  dropped, crashes, failures

vars == <<disk, todo, then, mem, dropped, crashes, failures>>

Off == [phase |-> "off", purpose |-> "text", run |-> None, session |-> None,
        selected |-> None, fresh |-> FALSE, mine |-> {}]
NoThen == [done |-> Off, failed |-> Off, dropped |-> {}]

Init ==
  /\ disk = [runs |-> [r \in Runs |-> "none"], runIndex |-> [r \in Runs |-> "none"],
             pending |-> [r \in Runs |-> "none"], binding |-> None,
             sessions |-> {}, index |-> {},
             coreRuns |-> [r \in Runs |-> "none"],
             corePending |-> [r \in Runs |-> "none"], coreSessions |-> {}]
  /\ todo = <<>> /\ then = NoThen /\ mem = Off
  /\ dropped = {} /\ crashes = 0 /\ failures = 0

-----------------------------------------------------------------------------
(* Files.  A write replaces one file, of which a run's index entry and a   *)
(* session's index entry count as one each: an index is read, changed and  *)
(* written without a pause.                                                *)

Put(d, w) ==
  CASE w.file = "binding" -> [d EXCEPT !.binding = w.key]
    [] w.file \in {"sessions", "index", "coreSessions"} -> [d EXCEPT ![w.file] = @ \cup {w.key}]
    [] OTHER -> [d EXCEPT ![w.file][w.key] = w.value]

W(file, key, value) == [file |-> file, key |-> key, value |-> value]

Ready(phases) == todo = <<>> /\ mem.phase \in phases
At(phase) == [mem EXCEPT !.phase = phase]

(* Starts an operation: its writes, the memory after them, the memory      *)
(* after one of them has raised, and the sessions dropped after them.      *)
Does(writes, done, failed, drops) ==
  /\ todo' = writes
  /\ IF writes = <<>>
       THEN mem' = done /\ dropped' = drops /\ UNCHANGED then
       ELSE /\ then' = [done |-> done, failed |-> failed, dropped |-> drops]
            /\ UNCHANGED <<mem, dropped>>
  /\ UNCHANGED <<disk, crashes, failures>>

(* write_json_atomic: the file is there as a whole or not at all. *)
write_json_atomic ==
  /\ todo # <<>>
  /\ disk' = Put(disk, Head(todo))
  /\ todo' = Tail(todo)
  /\ IF Tail(todo) = <<>>
       THEN mem' = then.done /\ dropped' = then.dropped /\ then' = NoThen
       ELSE UNCHANGED <<mem, dropped, then>>
  /\ UNCHANGED <<crashes, failures>>

(* _replace_with_retry gives up: the file is as it was and the error       *)
(* leaves the operation.                                                   *)
WriteRaises ==
  /\ todo # <<>> /\ failures < MaxFailures
  /\ failures' = failures + 1
  /\ todo' = <<>> /\ mem' = then.failed /\ then' = NoThen
  /\ UNCHANGED <<disk, dropped, crashes>>

Crash ==
  /\ mem.phase # "off" /\ crashes < MaxCrashes
  /\ crashes' = crashes + 1
  /\ todo' = <<>> /\ mem' = Off /\ then' = NoThen
  /\ UNCHANGED <<disk, dropped, failures>>

-----------------------------------------------------------------------------
(* The start: recover_incomplete of the store, which goes by its run       *)
(* index, and then of the second copies.                                   *)

save_run(r, status) == <<W("runs", r, status), W("runIndex", r, status)>>

Start ==
  /\ Ready({"off"})
  /\ mem' = [Off EXCEPT !.phase = "recovering"]
  /\ UNCHANGED <<disk, todo, then, dropped, crashes, failures>>

Incomplete(copy) == {r \in Runs : disk[copy][r] = "running"}
OpenRequests(copy) == {r \in Runs : disk[copy][r] = "open"}

Recovers(writes) == Ready({"recovering"}) /\ Does(writes, mem, Off, dropped)

RecoverRun ==
  \E r \in Incomplete("runIndex") : Recovers(save_run(r, "interrupted"))

RecoverPending ==
  /\ Incomplete("runIndex") = {}
  /\ \E r \in OpenRequests("pending") : Recovers(<<W("pending", r, "cancelled")>>)

StoreRecovered == Incomplete("runIndex") = {} /\ OpenRequests("pending") = {}

(* Mutant: every run that is not interrupted yet is taken for incomplete. *)
RecoverCoreRun_All ==
  /\ StoreRecovered
  /\ \E r \in Runs : /\ disk.coreRuns[r] \in {"running", "completed"}
                     /\ Recovers(<<W("coreRuns", r, "interrupted")>>)

RecoverCoreRun ==
  /\ StoreRecovered
  /\ \E r \in Incomplete("coreRuns") : Recovers(<<W("coreRuns", r, "interrupted")>>)

RecoverCorePending ==
  /\ StoreRecovered /\ Incomplete("coreRuns") = {}
  /\ \E r \in OpenRequests("corePending") : Recovers(<<W("corePending", r, "cancelled")>>)

(* Mutant: only the store's own files are recovered. *)
Recovered_StoreOnly == StoreRecovered

Recovered ==
  StoreRecovered /\ Incomplete("coreRuns") = {} /\ OpenRequests("corePending") = {}

RecoveryEnds ==
  /\ Recovered
  /\ Ready({"recovering"})
  /\ mem' = At("idle")
  /\ UNCHANGED <<disk, todo, then, dropped, crashes, failures>>

-----------------------------------------------------------------------------
(* Sessions: the adapter's create_session and get_or_create_session, the   *)
(* controller's selection, and the record of a session for /resume.        *)

save_session(s) == <<W("sessions", s, "saved"), W("index", s, "saved")>>
set_current_session(s) == <<W("binding", s, "bound")>>
save_agent_session(s) == save_session(s) \o <<W("coreSessions", s, "saved")>>

(* Mutant: the session is left in memory only. *)
clear_current_session_MemoryOnly == <<>>

(* clear_current_session unlinks the binding of a session of the chat; one *)
(* that names a session without a file it passes over.                     *)
clear_current_session ==
  IF disk.binding \in disk.sessions THEN <<W("binding", None, "none")>> ELSE <<>>

Left == dropped \cup ({mem.selected, disk.binding} \ {None})

(* Where the controller is when it gives up on what it was doing. *)
GivesUp(m) ==
  IF m.purpose = "queued" THEN [m EXCEPT !.phase = "stranded"]
  ELSE [m EXCEPT !.phase = "idle", !.run = None, !.session = None]

(* /model use and /agent: clear_selected_session, at any time, also while  *)
(* a session is created or a turn is started in the one that is left.      *)
(* Between a session's creation and its record nothing is awaited.         *)
ClearSelectedSession ==
  /\ Ready(Phases \ {"off", "recovering", "recording"})
  /\ Does(clear_current_session, [mem EXCEPT !.fresh = TRUE, !.selected = None], mem, Left)

(* /new, /reset and /cd, once no run is active: _clear_session_selection,  *)
(* and then _create_selected_session.                                      *)
ResetSession ==
  /\ Ready({"idle"})
  /\ Does(clear_current_session,
          [mem EXCEPT !.phase = "creating", !.purpose = "reset", !.fresh = FALSE, !.selected = None],
          mem, Left)

(* resume_session: any session of the chat that has a second copy.  It is  *)
(* selected before it is recorded again, and stays so if that raises.      *)
ResumeSession ==
  \E s \in disk.coreSessions :
    /\ Ready({"idle"})
    /\ LET resumed == [mem EXCEPT !.fresh = FALSE, !.selected = s]
       IN  /\ todo' = save_agent_session(s)
           /\ mem' = resumed
           /\ then' = [done |-> resumed, failed |-> resumed, dropped |-> dropped \ {s}]
    /\ dropped' = dropped \ {s}
    /\ UNCHANGED <<disk, crashes, failures>>

(* Mutant: the file of the bound session is taken to be there. *)
SessionForNewTurn_Unchecked(m) ==
  CASE m.fresh -> [m EXCEPT !.phase = "renewing"]
    [] ~ m.fresh /\ m.selected # None -> [m EXCEPT !.phase = "starting", !.session = m.selected]
    [] OTHER -> [m EXCEPT !.phase = "recording", !.session = disk.binding, !.selected = disk.binding]

(* The session for a new turn, for a text or for the messages that were    *)
(* queued in a run: a fresh one if one was asked for, the selected one,    *)
(* the bound one if its file is there, or a new one.                       *)
SessionForNewTurn(m) ==
  CASE m.fresh -> [m EXCEPT !.phase = "renewing"]
    [] ~ m.fresh /\ m.selected # None -> [m EXCEPT !.phase = "starting", !.session = m.selected]
    [] ~ m.fresh /\ m.selected = None /\ disk.binding \in disk.sessions ->
         [m EXCEPT !.phase = "recording", !.session = disk.binding, !.selected = disk.binding]
    [] OTHER -> [m EXCEPT !.phase = "creating"]

Text ==
  /\ Ready({"idle"})
  /\ mem' = SessionForNewTurn([mem EXCEPT !.purpose = "text"])
  /\ UNCHANGED <<disk, todo, then, dropped, crashes, failures>>

(* The controller has the session s.  Only one that renews takes the wish  *)
(* for a fresh session as met, also one that came up in the meantime.      *)
Takes(s) ==
  [mem EXCEPT !.phase = "recording", !.session = s, !.selected = s,
              !.fresh = @ /\ mem.phase # "renewing"]

(* Mutant: the session is bound before it is saved. *)
CreateSession_BindsFirst ==
  \E s \in Sessions \ (disk.sessions \cup disk.index) :
    /\ Ready({"creating", "renewing"})
    /\ Does(set_current_session(s) \o save_session(s), Takes(s), GivesUp(mem), dropped)

(* create_session of an adapter: the server makes a new session. *)
CreateSession ==
  \E s \in Sessions \ (disk.sessions \cup disk.index) :
    /\ Ready({"creating", "renewing"})
    /\ Does(save_session(s) \o set_current_session(s), Takes(s), GivesUp(mem), dropped)

(* _record_agent_session; a text goes on to its turn. *)
RecordSession ==
  /\ Ready({"recording"})
  /\ Does(save_agent_session(mem.session),
          IF mem.purpose = "reset" THEN [mem EXCEPT !.phase = "idle", !.session = None]
          ELSE At("starting"),
          GivesUp(mem), dropped)

(* The server refuses to create a session or to start a turn. *)
AgentRefuses ==
  /\ Ready({"creating", "renewing", "starting"})
  /\ mem' = GivesUp(mem)
  /\ UNCHANGED <<disk, todo, then, dropped, crashes, failures>>

(* AgentThreadNotFound: the run gets a new session. *)
ThreadNotFound ==
  /\ Ready({"starting"})
  /\ mem' = At("creating")
  /\ UNCHANGED <<disk, todo, then, dropped, crashes, failures>>

-----------------------------------------------------------------------------
(* Runs. *)

UnusedRuns == {r \in Runs : disk.runs[r] = "none"}

record_run_created(r) == save_run(r, "running") \o <<W("coreRuns", r, "running")>>

(* start_turn saves a session that the store has, and the controller       *)
(* records the run.  A queued run is the active one from before its record.*)
StartTurn ==
  \E r \in UnusedRuns :
    /\ Ready({"starting"})
    /\ LET begun == [mem EXCEPT !.run = r, !.mine = @ \cup {r}]
           refreshed == IF mem.session \in disk.sessions THEN save_session(mem.session) ELSE <<>>
       IN  /\ todo' = refreshed \o record_run_created(r)
           /\ mem' = begun
           /\ then' = [done |-> [begun EXCEPT !.phase = "running"],
                       failed |-> GivesUp(begun), dropped |-> dropped]
    /\ UNCHANGED <<disk, dropped, crashes, failures>>

(* Mutant: the second copy is written first. *)
record_run_terminal_status_CoreFirst(r, status) ==
  IF disk.runs[r] = "none" THEN <<>>
  ELSE (IF disk.coreRuns[r] = "none" THEN <<>> ELSE <<W("coreRuns", r, status)>>)
       \o save_run(r, status)

(* record_run_terminal_status, which raises where a record is missing. *)
record_run_terminal_status(r, status) ==
  IF disk.runs[r] = "none" THEN <<>>
  ELSE save_run(r, status)
       \o (IF disk.coreRuns[r] = "none" THEN <<>> ELSE <<W("coreRuns", r, status)>>)
HasRecords(r) == disk.runs[r] # "none" /\ disk.coreRuns[r] # "none"

(* _finish: the active run is gone once its end is on disk. *)
Finishes(status) ==
  Does(record_run_terminal_status(mem.run, status),
       IF HasRecords(mem.run) THEN [mem EXCEPT !.phase = "idle", !.run = None, !.session = None] ELSE At("stranded"),
       At("stranded"), dropped)

(* The turn ends and no message is queued. *)
TurnEnds == \E status \in Ends : Ready({"running"}) /\ Finishes(status)

(* The turn ends and queued messages start the next one: the end is not    *)
(* recorded.                                                               *)
HandsOver ==
  /\ Ready({"running"})
  /\ mem' = SessionForNewTurn([mem EXCEPT !.purpose = "queued"])
  /\ UNCHANGED <<disk, todo, then, dropped, crashes, failures>>

(* _open_pending_request, which raises where the run or its session is     *)
(* missing.  The view of the run has the request by then.                  *)
Pauses ==
  /\ Ready({"running"}) /\ disk.pending[mem.run] = "none"
  /\ Does(IF disk.runs[mem.run] = "none" \/ mem.session \notin disk.sessions THEN <<>>
          ELSE <<W("pending", mem.run, "open"), W("corePending", mem.run, "open")>>,
          At("paused"), At("paused"), dropped)

(* close_pending_request, after the agent has the answer: raises where one *)
(* of the two copies is missing, the store's first.  When it raises nobody *)
(* reads the run any more and the agent takes no second answer.            *)
close_pending_request(r) ==
  IF disk.pending[r] = "none" THEN <<>>
  ELSE <<W("pending", r, "resolved")>>
       \o (IF disk.corePending[r] = "none" THEN <<>> ELSE <<W("corePending", r, "resolved")>>)

Answer ==
  /\ Ready({"paused"})
  /\ Does(close_pending_request(mem.run),
          IF disk.pending[mem.run] # "none" /\ disk.corePending[mem.run] # "none"
            THEN At("running") ELSE At("stuck"),
          At("stuck"), dropped)

(* stop_run of a run that has a request in its view: the request leaves    *)
(* the view before _finish looks for it, and its files stay as they are.   *)
Stop == Ready({"paused", "stuck"}) /\ Finishes("interrupted")

Next ==
  \/ write_json_atomic \/ WriteRaises \/ Crash
  \/ Start \/ RecoverRun \/ RecoverPending \/ RecoverCoreRun \/ RecoverCorePending \/ RecoveryEnds
  \/ ClearSelectedSession \/ ResetSession \/ ResumeSession
  \/ Text \/ CreateSession \/ RecordSession \/ AgentRefuses \/ ThreadNotFound
  \/ StartTurn \/ TurnEnds \/ HandsOver \/ Pauses \/ Answer \/ Stop

Spec == Init /\ [][Next]_vars
-----------------------------------------------------------------------------
TypeOK ==
  /\ disk.runs \in [Runs -> RunStatus] /\ disk.runIndex \in [Runs -> RunStatus]
  /\ disk.coreRuns \in [Runs -> RunStatus]
  /\ disk.pending \in [Runs -> RequestStatus] /\ disk.corePending \in [Runs -> RequestStatus]
  /\ disk.binding \in Sessions \cup {None}
  /\ disk.sessions \subseteq Sessions /\ disk.index \subseteq Sessions
  /\ disk.coreSessions \subseteq Sessions
  /\ mem.phase \in Phases /\ mem.purpose \in Purposes
  /\ mem.run \in Runs \cup {None} /\ mem.session \in Sessions \cup {None}
  /\ mem.selected \in Sessions \cup {None} /\ mem.fresh \in BOOLEAN
  /\ mem.mine \subseteq Runs
  /\ (mem.phase \in {"running", "paused", "stuck"} => mem.run # None)
  /\ (mem.phase \in {"recording", "starting", "running", "paused", "stuck"} => mem.session # None)
  /\ dropped \subseteq Sessions
  /\ crashes \in 0 .. MaxCrashes /\ failures \in 0 .. MaxFailures

(* Once a restart has recovered, whatever the crashes before and during    *)
(* the recovery, what the files show as running or waiting is a run of     *)
(* this process: recover_incomplete leaves nothing behind in the second    *)
(* copies, in the store's index or among its requests.                     *)
NothingIsLeftBehind ==
  mem.phase \notin {"off", "recovering"} =>
    Incomplete("runIndex") \cup Incomplete("coreRuns")
      \cup OpenRequests("pending") \cup OpenRequests("corePending") \subseteq mem.mine

(* The two copies of a run may part, but not on its end: what the second   *)
(* copy shows as completed the store shows so too, and a request that the  *)
(* second copy shows as resolved is resolved in the store.  The store is   *)
(* written first and the recovery goes through it first.                   *)
CopiesAgreeOnEnds ==
  \A r \in Runs :
    /\ (disk.coreRuns[r] # "none" => disk.runIndex[r] # "none")
    /\ (disk.coreRuns[r] = "completed" => disk.runs[r] = "completed" /\ disk.runIndex[r] = "completed")
    /\ (disk.corePending[r] = "resolved" => disk.pending[r] = "resolved")
    /\ (disk.corePending[r] # "none" => disk.pending[r] # "none")

(* A session that the bridge may run a turn in, because it is selected,    *)
(* bound to the owner or offered by /resume, is in the store and in its    *)
(* index: without its file a run in it cannot record a request, and        *)
(* without the index the backfill of a start passes over the chat.         *)
UsableSessionsAreStored ==
  disk.coreSessions \cup ({mem.selected, mem.session, disk.binding} \ {None})
    \subseteq disk.sessions \cap disk.index

(* No start, recovery or late write reopens a run or a request that the    *)
(* files have shown as closed, or calls it something else.                 *)
ClosedStaysClosed ==
  [][\A r \in Runs :
       /\ disk.runIndex[r] \in Ends => disk'.runIndex[r] = disk.runIndex[r]
       /\ disk.coreRuns[r] \in Ends => disk'.coreRuns[r] = disk.coreRuns[r]
       /\ disk.pending[r] \in {"resolved", "cancelled"} => disk'.pending[r] = disk.pending[r]
       /\ disk.corePending[r] \in {"resolved", "cancelled"} =>
            disk'.corePending[r] = disk.corePending[r]]_vars

(* No turn is given a session that its owner has left and not resumed, not *)
(* even when the bridge was restarted in between.  (A turn that was given  *)
(* its session before the owner left that goes on in it.)                  *)
Given == {"recording", "starting"}
LeftSessionIsNotReused ==
  [][mem.phase \notin Given /\ mem'.phase \in Given => mem'.session \notin dropped']_vars
=============================================================================
