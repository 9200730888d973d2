--------------------------- MODULE RunFilesProofs ---------------------------
(***************************************************************************)
(* RunFiles, proved for any runs, sessions, crashes and failures.          *)
(*                                                                         *)
(* The writes that an operation has still to do are a sequence.  In each   *)
(* operation they go through the files in one order, FileRank, so that     *)
(* what is left of them is a set from which the write of the least rank is *)
(* taken next.  The invariant says what the disk is like whenever the      *)
(* process may die (Stored), what the memory may rely on (Settled), and    *)
(* what the writes left will make true (Pending).                          *)
(***************************************************************************)
EXTENDS RunFiles, SequenceTheorems, TLAPS

RunFile == {"runs", "runIndex", "coreRuns"}
RequestFile == {"pending", "corePending"}
SessionFile == {"sessions", "index", "coreSessions"}

RunWrites == [file : RunFile, key : Runs, value : {"running", "completed", "interrupted"}]
RequestWrites == [file : RequestFile, key : Runs, value : {"open", "resolved", "cancelled"}]
SessionWrites == [file : SessionFile, key : Sessions, value : {"saved"}]
BindingWrites == [file : {"binding"}, key : Sessions \cup {None}, value : {"bound", "none"}]
Writes == RunWrites \cup RequestWrites \cup SessionWrites \cup BindingWrites

Disks ==
  [runs : [Runs -> RunStatus], runIndex : [Runs -> RunStatus], coreRuns : [Runs -> RunStatus],
   pending : [Runs -> RequestStatus], corePending : [Runs -> RequestStatus],
   binding : Sessions \cup {None}, sessions : SUBSET Sessions, index : SUBSET Sessions,
   coreSessions : SUBSET Sessions]

Memories ==
  [phase : Phases, purpose : Purposes, run : Runs \cup {None}, session : Sessions \cup {None},
   selected : Sessions \cup {None}, fresh : BOOLEAN, mine : SUBSET Runs]

Thens == [done : Memories, failed : Memories, dropped : SUBSET Sessions]

FileRank(f) ==
  CASE f = "sessions" -> 1
    [] f = "index" -> 2
    [] f = "coreSessions" -> 3
    [] f = "binding" -> 4
    [] f = "runs" -> 5
    [] f = "runIndex" -> 6
    [] f = "coreRuns" -> 7
    [] f = "pending" -> 8
    [] OTHER -> 9

Sorted(s) == \A i, j \in 1 .. Len(s) : i < j => FileRank(s[i].file) < FileRank(s[j].file)
WritesOf(s) == {s[i] : i \in 1 .. Len(s)}

-----------------------------------------------------------------------------
(* The invariant.  d is a disk, m a memory, L a set of writes, th what     *)
(* becomes of the memory after them and dr the dropped sessions.           *)

Closed == {"resolved", "cancelled"}
Consuming == {"running", "paused", "stuck"}

MemoryFits(m) ==
  /\ m \in Memories
  /\ (m.phase \in Consuming => m.run # None /\ m.session # None /\ m.run \in m.mine)
  /\ (m.phase \in {"recording", "starting"} => m.session # None)
  /\ (m.phase = "recording" => m.session = m.selected)

Saved(d) == d.sessions \cap d.index
OpenRuns(d) ==
  {r \in Runs : \/ d.runIndex[r] = "running" \/ d.coreRuns[r] = "running"
                \/ d.pending[r] = "open" \/ d.corePending[r] = "open"}

StoredRuns(d) ==
  \A r \in Runs :
    /\ (d.runIndex[r] # "none" => d.runs[r] # "none")
    /\ (d.coreRuns[r] # "none" => d.runIndex[r] # "none")
    /\ (d.coreRuns[r] = "completed" => d.runs[r] = "completed" /\ d.runIndex[r] = "completed")
StoredRequests(d) ==
  \A r \in Runs :
    /\ (d.corePending[r] # "none" => d.pending[r] # "none")
    /\ (d.corePending[r] = "resolved" => d.pending[r] = "resolved")
StoredSessions(d) ==
  d.coreSessions \cup ({d.binding} \ {None}) \subseteq Saved(d)
Stored(d) == StoredRuns(d) /\ StoredRequests(d) /\ StoredSessions(d)

(* What the memory relies on, also between two writes. *)
Settled(d, m, dr) ==
  /\ MemoryFits(m)
  /\ (m.phase \notin {"off", "recovering"} => OpenRuns(d) \subseteq m.mine)
  /\ {m.selected, m.session} \ {None} \subseteq Saved(d)
  /\ dr \subseteq Saved(d)
  /\ m.selected \notin dr /\ d.binding \notin dr

(* A run that is consumed has not ended, and one that waits for its owner  *)
(* has no closed request, now and after the writes.                        *)
Consumes(d, m, L) ==
  /\ (m.phase \in Consuming =>
         /\ d.runIndex[m.run] \notin Ends /\ d.coreRuns[m.run] \notin Ends
         /\ \A w \in L : w.file \in RunFile /\ w.key = m.run => w.value = "running")
  /\ (m.phase = "paused" =>
         /\ d.pending[m.run] \notin Closed /\ d.corePending[m.run] \notin Closed
         /\ \A w \in L : w.file \in RequestFile /\ w.key = m.run => w.value = "open")

(* The writes of an operation are about one run, and each may be done once *)
(* those before it are.                                                    *)
OneSubject(L) ==
  /\ \A v, w \in L : v.file \in RunFile /\ w.file \in RunFile =>
       v.key = w.key /\ v.value = w.value
  /\ \A v, w \in L : v.file \in RequestFile /\ w.file \in RequestFile =>
       v.key = w.key /\ v.value = w.value
Shows(d, L, file, w) ==
  \/ W(file, w.key, w.value) \in L
  \/ d[file][w.key] # "none" /\ (w.value \in {"completed", "resolved"} => d[file][w.key] = w.value)
RunWritesMayBeDone(d, L) ==
  \A w \in L :
    /\ (w.file \in {"runs", "runIndex"} => d.coreRuns[w.key] # "completed")
    /\ (w.file = "runIndex" => d.runIndex[w.key] \notin Ends /\ Shows(d, L, "runs", w))
    /\ (w.file = "coreRuns" => /\ d.coreRuns[w.key] \notin Ends
                               /\ Shows(d, L, "runs", w) /\ Shows(d, L, "runIndex", w))
RequestWritesMayBeDone(d, L) ==
  \A w \in L :
    /\ (w.file = "pending" => d.pending[w.key] \notin Closed /\ d.corePending[w.key] # "resolved")
    /\ (w.file = "corePending" => d.corePending[w.key] \notin Closed /\ Shows(d, L, "pending", w))

WillBeSaved(d, L, s) ==
  /\ (s \in d.sessions \/ W("sessions", s, "saved") \in L)
  /\ (s \in d.index \/ W("index", s, "saved") \in L)
SessionWritesMayBeDone(d, L, th, dr) ==
  \A w \in L :
    /\ (w.file = "coreSessions" => WillBeSaved(d, L, w.key))
    /\ (w.file = "binding" /\ w.key # None =>
          WillBeSaved(d, L, w.key) /\ w.key \notin dr \cup th.dropped)

(* What the memory will rely on. *)
LeadsOn(m, th) ==
  /\ MemoryFits(th.done) /\ MemoryFits(th.failed) /\ th.dropped \subseteq Sessions
  /\ m.phase # "off"
  /\ (m.phase = "recovering" => th.done.phase = "recovering" /\ th.failed.phase = "off")
  /\ ("starting" \in {th.done.phase, th.failed.phase} => m.phase \in {"recording", "starting"})
  /\ th.done.run \in {None, m.run} /\ th.failed.run \in {None, m.run}
MineLeadsOn(L, m, th) ==
  m.phase # "recovering" =>
    /\ th.done.mine = m.mine /\ th.failed.mine = m.mine
    /\ \A w \in L : w.value \in {"running", "open"} => w.key \in m.mine
SessionsLeadOn(d, L, th, dr) ==
  /\ \A s \in {th.done.selected, th.done.session} \ {None} : WillBeSaved(d, L, s)
  /\ {th.failed.selected, th.failed.session} \ {None} \subseteq Saved(d)
  /\ th.done.selected \notin th.dropped /\ th.failed.selected \notin dr
  /\ th.dropped \subseteq Saved(d)
  /\ (d.binding \notin th.dropped \/ W("binding", None, "none") \in L)

Pending(d, L, m, th, dr) ==
  /\ OneSubject(L) /\ RunWritesMayBeDone(d, L) /\ RequestWritesMayBeDone(d, L)
  /\ SessionWritesMayBeDone(d, L, th, dr)
  /\ LeadsOn(m, th) /\ MineLeadsOn(L, m, th) /\ SessionsLeadOn(d, L, th, dr)
  /\ Consumes(d, th.done, L) /\ Consumes(d, th.failed, L)

(* Nothing closed on the disk d is reopened on the disk e. *)
KeepsClosed(d, e) ==
  \A r \in Runs :
    /\ (d.runIndex[r] \in Ends => e.runIndex[r] = d.runIndex[r])
    /\ (d.coreRuns[r] \in Ends => e.coreRuns[r] = d.coreRuns[r])
    /\ (d.pending[r] \in Closed => e.pending[r] = d.pending[r])
    /\ (d.corePending[r] \in Closed => e.corePending[r] = d.corePending[r])

TypeInv ==
  /\ disk \in Disks /\ mem \in Memories /\ todo \in Seq(Writes) /\ then \in Thens
  /\ dropped \subseteq Sessions
  /\ crashes \in 0 .. MaxCrashes /\ failures \in 0 .. MaxFailures

IInv ==
  /\ TypeInv /\ Sorted(todo)
  /\ Stored(disk) /\ Settled(disk, mem, dropped)
  /\ (todo = <<>> => Consumes(disk, mem, {}))
  /\ (todo # <<>> => Pending(disk, WritesOf(todo), mem, then, dropped))

-----------------------------------------------------------------------------
(* Sequences of writes. *)

(* Taking the next write leaves a sorted sequence of the others, all of    *)
(* which are of a greater rank.                                            *)
LEMMA NextWrite ==
  ASSUME NEW s \in Seq(Writes), s # <<>>, Sorted(s)
  PROVE  /\ Head(s) \in WritesOf(s) /\ WritesOf(s) \subseteq Writes
         /\ Tail(s) \in Seq(Writes) /\ Sorted(Tail(s))
         /\ WritesOf(Tail(s)) = WritesOf(s) \ {Head(s)}
         /\ \A w \in WritesOf(s) : w = Head(s) \/ FileRank(Head(s).file) < FileRank(w.file)
<1>1. /\ Len(s) \in Nat \ {0} /\ Head(s) = s[1] /\ Tail(s) \in Seq(Writes)
      /\ Len(Tail(s)) = Len(s) - 1
      /\ \A i \in 1 .. Len(s) : s[i] \in Writes
      /\ \A i \in 1 .. Len(s) - 1 : Tail(s)[i] = s[i + 1]
  BY HeadTailProperties, ElementOfSeq, EmptySeq
<1>2. \A i \in 2 .. Len(s) : FileRank(s[1].file) < FileRank(s[i].file)
  BY <1>1 DEF Sorted
<1>3. Head(s) \in WritesOf(s) /\ WritesOf(s) \subseteq Writes
  BY <1>1 DEF WritesOf
<1>4. Sorted(Tail(s))
  BY <1>1 DEF Sorted
<1>5. \A w \in WritesOf(s) : w = Head(s) \/ FileRank(Head(s).file) < FileRank(w.file)
  BY <1>1, <1>2 DEF WritesOf
<1>6. WritesOf(Tail(s)) = WritesOf(s) \ {Head(s)}
  <2>1. \A w \in WritesOf(Tail(s)) : w \in WritesOf(s) /\ w # Head(s)
    <3> SUFFICES ASSUME NEW i \in 1 .. Len(s) - 1
                 PROVE  s[i + 1] \in WritesOf(s) /\ s[i + 1] # s[1]
      BY <1>1 DEF WritesOf
    <3>1. i + 1 \in 2 .. Len(s)
      BY <1>1
    <3>2. FileRank(s[1].file) < FileRank(s[i + 1].file)
      BY <3>1, <1>2
    <3>3. FileRank(s[1].file) \in Int
      BY DEF FileRank
    <3> QED BY <3>1, <3>2, <3>3, <1>1 DEF WritesOf
  <2>2. \A w \in WritesOf(s) : w # Head(s) => w \in WritesOf(Tail(s))
    <3> SUFFICES ASSUME NEW i \in 1 .. Len(s), s[i] # s[1]
                 PROVE  s[i] \in WritesOf(Tail(s))
      BY <1>1 DEF WritesOf
    <3>1. i - 1 \in 1 .. Len(Tail(s)) /\ Tail(s)[i - 1] = s[i]
      BY <1>1
    <3> QED BY <3>1 DEF WritesOf
  <2> QED BY <2>1, <2>2
<1> QED BY <1>1, <1>3, <1>4, <1>5, <1>6

(* One write, and two sequences one after the other. *)
LEMMA OneWrite ==
  ASSUME NEW w \in Writes
  PROVE  <<w>> \in Seq(Writes) /\ <<w>> # <<>> /\ Sorted(<<w>>) /\ WritesOf(<<w>>) = {w}
BY DEF Sorted, WritesOf

LEMMA NoWrites == <<>> \in Seq(Writes) /\ Sorted(<<>>) /\ WritesOf(<<>>) = {}
BY DEF Sorted, WritesOf

LEMMA TwoParts ==
  ASSUME NEW s \in Seq(Writes), NEW t \in Seq(Writes), Sorted(s), Sorted(t),
         \A v \in WritesOf(s), w \in WritesOf(t) : FileRank(v.file) < FileRank(w.file)
  PROVE  /\ s \o t \in Seq(Writes) /\ Sorted(s \o t)
         /\ WritesOf(s \o t) = WritesOf(s) \cup WritesOf(t)
         /\ (s \o t = <<>> <=> s = <<>> /\ t = <<>>)
<1>1. /\ s \o t \in Seq(Writes) /\ Len(s \o t) = Len(s) + Len(t)
      /\ Len(s) \in Nat /\ Len(t) \in Nat
      /\ \A i \in 1 .. Len(s) : (s \o t)[i] = s[i]
      /\ \A i \in 1 .. Len(t) : (s \o t)[Len(s) + i] = t[i]
  BY ConcatProperties, LenProperties
<1>2. \A i \in 1 .. Len(s) + Len(t) : i \in 1 .. Len(s) \/ (i - Len(s) \in 1 .. Len(t) /\ (s \o t)[i] = t[i - Len(s)])
  BY <1>1
<1>3. WritesOf(s \o t) = WritesOf(s) \cup WritesOf(t)
  <2>1. \A w \in WritesOf(s \o t) : w \in WritesOf(s) \cup WritesOf(t)
    BY <1>1, <1>2 DEF WritesOf
  <2>2. \A w \in WritesOf(s) : w \in WritesOf(s \o t)
    BY <1>1 DEF WritesOf
  <2>3. \A w \in WritesOf(t) : w \in WritesOf(s \o t)
    <3> SUFFICES ASSUME NEW i \in 1 .. Len(t) PROVE t[i] \in WritesOf(s \o t)
      BY DEF WritesOf
    <3>1. Len(s) + i \in 1 .. Len(s \o t)
      BY <1>1
    <3> QED BY <1>1, <3>1 DEF WritesOf
  <2> QED BY <2>1, <2>2, <2>3
<1>4. Sorted(s \o t)
  <2> SUFFICES ASSUME NEW i \in 1 .. Len(s) + Len(t), NEW j \in 1 .. Len(s) + Len(t), i < j
               PROVE  FileRank((s \o t)[i].file) < FileRank((s \o t)[j].file)
    BY <1>1 DEF Sorted
  <2>1. CASE j \in 1 .. Len(s)
    BY <2>1, <1>1 DEF Sorted
  <2>2. CASE i \notin 1 .. Len(s)
    <3>1. j \notin 1 .. Len(s)
      BY <2>2, <1>1
    <3>2. /\ i - Len(s) \in 1 .. Len(t) /\ (s \o t)[i] = t[i - Len(s)]
          /\ j - Len(s) \in 1 .. Len(t) /\ (s \o t)[j] = t[j - Len(s)]
      BY <2>2, <3>1, <1>2
    <3>3. i - Len(s) < j - Len(s)
      BY <1>1
    <3> QED BY <3>2, <3>3 DEF Sorted
  <2>3. CASE i \in 1 .. Len(s) /\ j \notin 1 .. Len(s)
    BY <2>3, <1>1, <1>2 DEF WritesOf
  <2> QED BY <2>1, <2>2, <2>3
<1>5. s \o t = <<>> <=> s = <<>> /\ t = <<>>
  BY <1>1, EmptySeq
<1> QED BY <1>1, <1>3, <1>4, <1>5

-----------------------------------------------------------------------------
(* One write. *)

LEMMA PutChangesOneFile ==
  ASSUME NEW d \in Disks, NEW w \in Writes
  PROVE  /\ Put(d, w) \in Disks
         /\ \A r \in Runs :
              /\ Put(d, w).runs[r] = IF w.file = "runs" /\ w.key = r THEN w.value ELSE d.runs[r]
              /\ Put(d, w).runIndex[r] = IF w.file = "runIndex" /\ w.key = r THEN w.value ELSE d.runIndex[r]
              /\ Put(d, w).coreRuns[r] = IF w.file = "coreRuns" /\ w.key = r THEN w.value ELSE d.coreRuns[r]
              /\ Put(d, w).pending[r] = IF w.file = "pending" /\ w.key = r THEN w.value ELSE d.pending[r]
              /\ Put(d, w).corePending[r] =
                   IF w.file = "corePending" /\ w.key = r THEN w.value ELSE d.corePending[r]
         /\ Put(d, w).sessions = IF w.file = "sessions" THEN d.sessions \cup {w.key} ELSE d.sessions
         /\ Put(d, w).index = IF w.file = "index" THEN d.index \cup {w.key} ELSE d.index
         /\ Put(d, w).coreSessions =
              IF w.file = "coreSessions" THEN d.coreSessions \cup {w.key} ELSE d.coreSessions
         /\ Put(d, w).binding = IF w.file = "binding" THEN w.key ELSE d.binding
<1>1. CASE w \in RunWrites
  <2>1. CASE w.file = "runs"
    BY <1>1, <2>1 DEF Put, Disks, RunWrites, RunStatus, Ends
  <2>2. CASE w.file = "runIndex"
    BY <1>1, <2>2 DEF Put, Disks, RunWrites, RunStatus, Ends
  <2>3. CASE w.file = "coreRuns"
    BY <1>1, <2>3 DEF Put, Disks, RunWrites, RunStatus, Ends
  <2> QED BY <1>1, <2>1, <2>2, <2>3 DEF RunWrites, RunFile
<1>2. CASE w \in RequestWrites
  <2>1. CASE w.file = "pending"
    BY <1>2, <2>1 DEF Put, Disks, RequestWrites, RequestStatus
  <2>2. CASE w.file = "corePending"
    BY <1>2, <2>2 DEF Put, Disks, RequestWrites, RequestStatus
  <2> QED BY <1>2, <2>1, <2>2 DEF RequestWrites, RequestFile
<1>3. CASE w \in SessionWrites
  <2>1. CASE w.file = "sessions"
    BY <1>3, <2>1 DEF Put, Disks, SessionWrites
  <2>2. CASE w.file = "index"
    BY <1>3, <2>2 DEF Put, Disks, SessionWrites
  <2>3. CASE w.file = "coreSessions"
    BY <1>3, <2>3 DEF Put, Disks, SessionWrites
  <2> QED BY <1>3, <2>1, <2>2, <2>3 DEF SessionWrites, SessionFile
<1>4. CASE w \in BindingWrites
  BY <1>4 DEF Put, Disks, BindingWrites
<1> QED BY <1>1, <1>2, <1>3, <1>4 DEF Writes

(* What the next write of an operation does to the parts of the invariant. *)
DoneNext(d, L, w) ==
  /\ w \in L /\ L \subseteq Writes
  /\ \A v \in L : v = w \/ FileRank(w.file) < FileRank(v.file)

LEMMA LowerFilesAreDone ==
  ASSUME NEW d \in Disks, NEW L, NEW w, DoneNext(d, L, w)
  PROVE  /\ w \in Writes
         /\ \A v \in L : v.file = w.file => v = w
         /\ w.file = "coreRuns" => \A v \in L : v.file \notin {"runs", "runIndex"}
         /\ w.file = "runIndex" => \A v \in L : v.file # "runs"
         /\ w.file = "corePending" => \A v \in L : v.file # "pending"
         /\ w.file \in {"coreSessions", "binding"} => \A v \in L : v.file \notin {"sessions", "index"}
         /\ w.file = "index" => \A v \in L : v.file # "sessions"
BY DEF DoneNext, FileRank

LEMMA WritesAreRecords ==
  /\ \A w \in Writes : W(w.file, w.key, w.value) = w
  /\ \A f, k, v : W(f, k, v).file = f /\ W(f, k, v).key = k /\ W(f, k, v).value = v
  /\ \A w \in Writes :
       /\ w.file \in {"runs", "runIndex", "coreRuns"} =>
            w.key \in Runs /\ w.value \in {"running", "completed", "interrupted"}
       /\ w.file \in {"pending", "corePending"} =>
            w.key \in Runs /\ w.value \in {"open", "resolved", "cancelled"}
       /\ w.file \in {"sessions", "index", "coreSessions"} => w.key \in Sessions /\ w.value = "saved"
       /\ w.file = "binding" => w.key \in Sessions \cup {None} /\ w.value \in {"bound", "none"}
BY DEF W, Writes, RunWrites, RequestWrites, SessionWrites, BindingWrites, RunFile, RequestFile, SessionFile

LEMMA WriteKeepsRuns ==
  ASSUME NEW d \in Disks, NEW L, NEW w, DoneNext(d, L, w),
         StoredRuns(d), OneSubject(L), RunWritesMayBeDone(d, L)
  PROVE  /\ StoredRuns(Put(d, w)) /\ RunWritesMayBeDone(Put(d, w), L \ {w})
         /\ \A r \in Runs : /\ d.runIndex[r] \in Ends => Put(d, w).runIndex[r] = d.runIndex[r]
                            /\ d.coreRuns[r] \in Ends => Put(d, w).coreRuns[r] = d.coreRuns[r]
<1> DEFINE e == Put(d, w)
<1>1. /\ w \in L /\ L \subseteq Writes /\ w \in Writes
      /\ \A v \in L : v.file = w.file => v = w
      /\ w.file = "coreRuns" => \A v \in L : v.file \notin {"runs", "runIndex"}
      /\ w.file = "runIndex" => \A v \in L : v.file # "runs"
  BY LowerFilesAreDone DEF DoneNext
<1>2. \A r \in Runs :
        /\ e.runs[r] = IF w.file = "runs" /\ w.key = r THEN w.value ELSE d.runs[r]
        /\ e.runIndex[r] = IF w.file = "runIndex" /\ w.key = r THEN w.value ELSE d.runIndex[r]
        /\ e.coreRuns[r] = IF w.file = "coreRuns" /\ w.key = r THEN w.value ELSE d.coreRuns[r]
  BY <1>1, PutChangesOneFile, ZenonT(40)
<1> HIDE DEF e
<1>3. CASE w.file = "runs"
  <2>1. w.key \in Runs /\ w.value \in {"running", "completed", "interrupted"}
        /\ d.coreRuns[w.key] # "completed" /\ W("runs", w.key, w.value) = w
    BY <1>1, <1>3, WritesAreRecords DEF RunWritesMayBeDone
  <2>2. StoredRuns(e)
    BY <1>2, <1>3, <2>1, ZenonT(40) DEF StoredRuns
  <2>3. \A v \in L \ {w} : v.file \in {"runIndex", "coreRuns"} => v.key = w.key /\ v.value = w.value
    BY <1>1, <1>3 DEF OneSubject, RunFile
  <2>4. RunWritesMayBeDone(e, L \ {w})
    <3> SUFFICES ASSUME NEW v \in L \ {w}, v.file \in {"runs", "runIndex", "coreRuns"}
                 PROVE  /\ (v.file \in {"runs", "runIndex"} => e.coreRuns[v.key] # "completed")
                        /\ (v.file = "runIndex" => e.runIndex[v.key] \notin Ends /\ Shows(e, L \ {w}, "runs", v))
                        /\ (v.file = "coreRuns" => /\ e.coreRuns[v.key] \notin Ends
                               /\ Shows(e, L \ {w}, "runs", v) /\ Shows(e, L \ {w}, "runIndex", v))
      BY DEF RunWritesMayBeDone
    <3>1. v.key = w.key /\ v.value = w.value /\ v \in Writes /\ v.file # "runs"
      BY <1>1, <1>3, <2>3
    <3>2. e.runs[v.key] = v.value /\ e.runIndex[v.key] = d.runIndex[v.key]
          /\ e.coreRuns[v.key] = d.coreRuns[v.key]
      BY <1>2, <1>3, <2>1, <3>1
    <3>3. Shows(e, L \ {w}, "runs", v)
      BY <3>1, <3>2, <2>1 DEF Shows
    <3>4. Shows(d, L, "runIndex", v) => Shows(e, L \ {w}, "runIndex", v)
      BY <3>2, <1>3, WritesAreRecords DEF Shows
    <3> QED BY <3>1, <3>2, <3>3, <3>4 DEF RunWritesMayBeDone
  <2> QED BY <1>2, <1>3, <2>2, <2>4 DEF e
<1>4. CASE w.file = "runIndex"
  <2>1. /\ w.key \in Runs /\ w.value \in {"running", "completed", "interrupted"}
        /\ d.coreRuns[w.key] # "completed" /\ d.runIndex[w.key] \notin Ends /\ d.runs[w.key] # "none"
    BY <1>1, <1>4, WritesAreRecords DEF RunWritesMayBeDone, Shows
  <2>2. StoredRuns(e)
    BY <1>2, <1>4, <2>1, ZenonT(40) DEF StoredRuns
  <2>3. \A v \in L \ {w} : v.file = "coreRuns" => v.key = w.key /\ v.value = w.value
    BY <1>1, <1>4 DEF OneSubject, RunFile
  <2>4. RunWritesMayBeDone(e, L \ {w})
    <3> SUFFICES ASSUME NEW v \in L \ {w}, v.file = "coreRuns"
                 PROVE  /\ e.coreRuns[v.key] \notin Ends
                        /\ Shows(e, L \ {w}, "runs", v) /\ Shows(e, L \ {w}, "runIndex", v)
      BY <1>1, <1>4 DEF RunWritesMayBeDone
    <3>1. v.key = w.key /\ v.value = w.value
      BY <2>3
    <3>2. e.runs[v.key] = d.runs[v.key] /\ e.runIndex[v.key] = v.value
          /\ e.coreRuns[v.key] = d.coreRuns[v.key]
      BY <1>2, <1>4, <2>1, <3>1
    <3>3. Shows(e, L \ {w}, "runIndex", v)
      BY <3>1, <3>2, <2>1 DEF Shows
    <3>4. Shows(d, L, "runs", v) => Shows(e, L \ {w}, "runs", v)
      BY <3>2, <1>4, WritesAreRecords DEF Shows
    <3> QED BY <3>2, <3>3, <3>4 DEF RunWritesMayBeDone
  <2> QED BY <1>2, <1>4, <2>1, <2>2, <2>4 DEF e
<1>5. CASE w.file = "coreRuns"
  <2>1. /\ w.key \in Runs /\ w.value \in {"running", "completed", "interrupted"}
        /\ d.coreRuns[w.key] \notin Ends /\ d.runs[w.key] # "none" /\ d.runIndex[w.key] # "none"
        /\ (w.value = "completed" => d.runs[w.key] = "completed" /\ d.runIndex[w.key] = "completed")
    BY <1>1, <1>5, WritesAreRecords DEF RunWritesMayBeDone, Shows
  <2>2. StoredRuns(e)
    BY <1>2, <1>5, <2>1, ZenonT(40) DEF StoredRuns
  <2>3. RunWritesMayBeDone(e, L \ {w})
    BY <1>1, <1>5 DEF RunWritesMayBeDone
  <2> QED BY <1>2, <1>5, <2>1, <2>2, <2>3 DEF e
<1>6. CASE w.file \notin {"runs", "runIndex", "coreRuns"}
  <2>1. \A r \in Runs : e.runs[r] = d.runs[r] /\ e.runIndex[r] = d.runIndex[r] /\ e.coreRuns[r] = d.coreRuns[r]
    BY <1>2, <1>6
  <2>2. \A v \in L : v.file \in {"runs", "runIndex", "coreRuns"} => v.key \in Runs
    BY <1>1, WritesAreRecords
  <2>3. \A v \in L : \A f \in {"runs", "runIndex"} :
          v.key \in Runs /\ Shows(d, L, f, v) => Shows(e, L \ {w}, f, v)
    BY <2>1, <1>6, WritesAreRecords DEF Shows
  <2>4. RunWritesMayBeDone(e, L \ {w})
    BY <2>1, <2>2, <2>3 DEF RunWritesMayBeDone
  <2>5. StoredRuns(e)
    BY <2>1 DEF StoredRuns
  <2> QED BY <2>1, <2>4, <2>5 DEF e
<1> QED BY <1>3, <1>4, <1>5, <1>6

LEMMA WriteKeepsRequests ==
  ASSUME NEW d \in Disks, NEW L, NEW w, DoneNext(d, L, w),
         StoredRequests(d), OneSubject(L), RequestWritesMayBeDone(d, L)
  PROVE  /\ StoredRequests(Put(d, w)) /\ RequestWritesMayBeDone(Put(d, w), L \ {w})
         /\ \A r \in Runs : /\ d.pending[r] \in Closed => Put(d, w).pending[r] = d.pending[r]
                            /\ d.corePending[r] \in Closed => Put(d, w).corePending[r] = d.corePending[r]
<1> DEFINE e == Put(d, w)
<1>1. /\ w \in L /\ L \subseteq Writes /\ w \in Writes
      /\ \A v \in L : v.file = w.file => v = w
      /\ w.file = "corePending" => \A v \in L : v.file # "pending"
  BY LowerFilesAreDone DEF DoneNext
<1>2. \A r \in Runs :
        /\ e.pending[r] = IF w.file = "pending" /\ w.key = r THEN w.value ELSE d.pending[r]
        /\ e.corePending[r] = IF w.file = "corePending" /\ w.key = r THEN w.value ELSE d.corePending[r]
  BY <1>1, PutChangesOneFile
<1> HIDE DEF e
<1>3. CASE w.file = "pending"
  <2>1. /\ w.key \in Runs /\ w.value \in {"open", "resolved", "cancelled"}
        /\ d.pending[w.key] \notin Closed /\ d.corePending[w.key] # "resolved"
    BY <1>1, <1>3, WritesAreRecords DEF RequestWritesMayBeDone
  <2>2. StoredRequests(e)
    BY <1>2, <1>3, <2>1 DEF StoredRequests
  <2>3. \A v \in L \ {w} : v.file = "corePending" => v.key = w.key /\ v.value = w.value
    BY <1>1, <1>3 DEF OneSubject, RequestFile
  <2>4. RequestWritesMayBeDone(e, L \ {w})
    <3> SUFFICES ASSUME NEW v \in L \ {w}, v.file = "corePending"
                 PROVE  e.corePending[v.key] \notin Closed /\ Shows(e, L \ {w}, "pending", v)
      BY <1>1, <1>3 DEF RequestWritesMayBeDone
    <3>1. v.key = w.key /\ v.value = w.value
      BY <2>3
    <3>2. e.pending[v.key] = v.value /\ e.corePending[v.key] = d.corePending[v.key]
      BY <1>2, <1>3, <2>1, <3>1
    <3> QED BY <3>1, <3>2, <2>1 DEF Shows, RequestWritesMayBeDone
  <2> QED BY <1>2, <1>3, <2>1, <2>2, <2>4 DEF e
<1>4. CASE w.file = "corePending"
  <2>1. /\ w.key \in Runs /\ w.value \in {"open", "resolved", "cancelled"}
        /\ d.corePending[w.key] \notin Closed /\ d.pending[w.key] # "none"
        /\ (w.value = "resolved" => d.pending[w.key] = "resolved")
    BY <1>1, <1>4, WritesAreRecords DEF RequestWritesMayBeDone, Shows
  <2>2. StoredRequests(e)
    BY <1>2, <1>4, <2>1 DEF StoredRequests
  <2>3. RequestWritesMayBeDone(e, L \ {w})
    BY <1>1, <1>4 DEF RequestWritesMayBeDone
  <2> QED BY <1>2, <1>4, <2>1, <2>2, <2>3 DEF e
<1>5. CASE w.file \notin {"pending", "corePending"}
  <2>1. \A r \in Runs : e.pending[r] = d.pending[r] /\ e.corePending[r] = d.corePending[r]
    BY <1>2, <1>5
  <2>2. \A v \in L : v.file \in {"pending", "corePending"} => v.key \in Runs
    BY <1>1, WritesAreRecords
  <2>3. \A v \in L : v.key \in Runs /\ Shows(d, L, "pending", v) => Shows(e, L \ {w}, "pending", v)
    BY <2>1, <1>5, WritesAreRecords DEF Shows
  <2>4. RequestWritesMayBeDone(e, L \ {w})
    BY <2>1, <2>2, <2>3 DEF RequestWritesMayBeDone
  <2>5. StoredRequests(e)
    BY <2>1 DEF StoredRequests
  <2> QED BY <2>1, <2>4, <2>5 DEF e
<1> QED BY <1>3, <1>4, <1>5

LEMMA WriteKeepsSessions ==
  ASSUME NEW d \in Disks, NEW L, NEW w, NEW th, NEW dr, DoneNext(d, L, w),
         StoredSessions(d), SessionWritesMayBeDone(d, L, th, dr), SessionsLeadOn(d, L, th, dr),
         None \notin Sessions, th.dropped \subseteq Sessions,
         dr \subseteq Saved(d), d.binding \notin dr
  PROVE  /\ StoredSessions(Put(d, w)) /\ SessionWritesMayBeDone(Put(d, w), L \ {w}, th, dr)
         /\ SessionsLeadOn(Put(d, w), L \ {w}, th, dr)
         /\ Saved(d) \subseteq Saved(Put(d, w)) /\ Put(d, w).binding \notin dr
<1> DEFINE e == Put(d, w)
<1>1. /\ w \in L /\ L \subseteq Writes /\ w \in Writes
      /\ \A v \in L : v.file = w.file => v = w
      /\ w.file \in {"coreSessions", "binding"} => \A v \in L : v.file \notin {"sessions", "index"}
  BY LowerFilesAreDone DEF DoneNext
<1>2. /\ e.sessions = IF w.file = "sessions" THEN d.sessions \cup {w.key} ELSE d.sessions
      /\ e.index = IF w.file = "index" THEN d.index \cup {w.key} ELSE d.index
      /\ e.coreSessions = IF w.file = "coreSessions" THEN d.coreSessions \cup {w.key} ELSE d.coreSessions
      /\ e.binding = IF w.file = "binding" THEN w.key ELSE d.binding
  BY <1>1, PutChangesOneFile
<1> HIDE DEF e
<1>3. Saved(d) \subseteq Saved(e)
  BY <1>2 DEF Saved
<1>4. \A s : WillBeSaved(d, L, s) => WillBeSaved(e, L \ {w}, s)
  BY <1>2, <1>1, WritesAreRecords DEF WillBeSaved
<1>5. w.file \in {"coreSessions", "binding"} => \A s : WillBeSaved(d, L, s) => s \in Saved(d)
  BY <1>1, WritesAreRecords DEF WillBeSaved, Saved
<1>6. StoredSessions(e)
  BY <1>1, <1>2, <1>3, <1>5 DEF StoredSessions, SessionWritesMayBeDone
<1>7. SessionWritesMayBeDone(e, L \ {w}, th, dr)
  BY <1>4 DEF SessionWritesMayBeDone
<1>8. e.binding \notin dr
  BY <1>1, <1>2, <1>5 DEF SessionWritesMayBeDone, Saved, Disks
<1>9. e.binding \notin th.dropped \/ W("binding", None, "none") \in L \ {w}
  BY <1>1, <1>2, WritesAreRecords DEF SessionWritesMayBeDone, SessionsLeadOn
<1>10. SessionsLeadOn(e, L \ {w}, th, dr)
  BY <1>3, <1>4, <1>9 DEF SessionsLeadOn
<1> QED BY <1>3, <1>6, <1>7, <1>8, <1>10 DEF e

LEMMA WriteKeepsConsumes ==
  ASSUME NEW d \in Disks, NEW L, NEW w, NEW m, DoneNext(d, L, w), MemoryFits(m), Consumes(d, m, L)
  PROVE  Consumes(Put(d, w), m, L \ {w})
<1> DEFINE e == Put(d, w)
<1>1. w \in L /\ w \in Writes
  BY LowerFilesAreDone DEF DoneNext
<1>2. \A r \in Runs :
        /\ e.runIndex[r] = IF w.file = "runIndex" /\ w.key = r THEN w.value ELSE d.runIndex[r]
        /\ e.coreRuns[r] = IF w.file = "coreRuns" /\ w.key = r THEN w.value ELSE d.coreRuns[r]
  BY <1>1, PutChangesOneFile, ZenonT(40)
<1>3. \A r \in Runs :
        /\ e.pending[r] = IF w.file = "pending" /\ w.key = r THEN w.value ELSE d.pending[r]
        /\ e.corePending[r] = IF w.file = "corePending" /\ w.key = r THEN w.value ELSE d.corePending[r]
  BY <1>1, PutChangesOneFile, ZenonT(40)
<1> HIDE DEF e
<1>4. m.phase \in Consuming => m.run \in Runs
  BY DEF MemoryFits, Memories
<1>5. CASE m.phase \in Consuming
  <2>1. e.runIndex[m.run] \notin Ends /\ e.coreRuns[m.run] \notin Ends
    BY <1>1, <1>2, <1>4, <1>5 DEF Consumes, RunFile, Ends
  <2>2. m.phase = "paused" => e.pending[m.run] \notin Closed /\ e.corePending[m.run] \notin Closed
    BY <1>1, <1>3, <1>4, <1>5 DEF Consumes, RequestFile, Closed
  <2> QED BY <2>1, <2>2 DEF Consumes, e
<1>6. CASE m.phase \notin Consuming
  BY <1>6 DEF Consumes, Consuming
<1> QED BY <1>5, <1>6

LEMMA WriteOpensOnlyMine ==
  ASSUME NEW d \in Disks, NEW L, NEW w, NEW mine, DoneNext(d, L, w), OpenRuns(d) \subseteq mine,
         w.value \in {"running", "open"} => w.key \in mine
  PROVE  OpenRuns(Put(d, w)) \subseteq mine
<1>1. w \in L /\ w \in Writes
  BY LowerFilesAreDone DEF DoneNext
<1>2. SUFFICES ASSUME NEW r \in OpenRuns(Put(d, w)) PROVE r \in mine
  OBVIOUS
<1>3. r \in Runs
  BY DEF OpenRuns
<1>4. CASE w.value \in {"running", "open"} /\ w.key = r
  BY <1>4
<1>5. CASE ~ (w.value \in {"running", "open"} /\ w.key = r)
  <2>1. Put(d, w).runIndex[r] = "running" => d.runIndex[r] = "running"
    <3>1. Put(d, w).runIndex[r] = IF w.file = "runIndex" /\ w.key = r THEN w.value ELSE d.runIndex[r]
      BY <1>1, <1>3, PutChangesOneFile
    <3> QED BY <3>1, <1>5
  <2>2. Put(d, w).coreRuns[r] = "running" => d.coreRuns[r] = "running"
    <3>1. Put(d, w).coreRuns[r] = IF w.file = "coreRuns" /\ w.key = r THEN w.value ELSE d.coreRuns[r]
      BY <1>1, <1>3, PutChangesOneFile
    <3> QED BY <3>1, <1>5
  <2>3. Put(d, w).pending[r] = "open" => d.pending[r] = "open"
    <3>1. Put(d, w).pending[r] = IF w.file = "pending" /\ w.key = r THEN w.value ELSE d.pending[r]
      BY <1>1, <1>3, PutChangesOneFile
    <3> QED BY <3>1, <1>5
  <2>4. Put(d, w).corePending[r] = "open" => d.corePending[r] = "open"
    <3>1. Put(d, w).corePending[r] = IF w.file = "corePending" /\ w.key = r THEN w.value ELSE d.corePending[r]
      BY <1>1, <1>3, PutChangesOneFile
    <3> QED BY <3>1, <1>5
  <2>5. r \in OpenRuns(d)
    BY <1>3, <2>1, <2>2, <2>3, <2>4 DEF OpenRuns
  <2> QED BY <2>5
<1> QED BY <1>4, <1>5

(* A write keeps the disk sound, what the memory relies on, and what the   *)
(* writes left must find.                                                  *)
LEMMA WriteKeepsPending ==
  ASSUME NEW d \in Disks, NEW L, NEW w, NEW m, NEW th \in Thens, NEW dr, DoneNext(d, L, w),
         None \notin Sessions,
         Stored(d), Settled(d, m, dr), Pending(d, L, m, th, dr)
  PROVE  /\ Stored(Put(d, w)) /\ Settled(Put(d, w), m, dr)
         /\ Pending(Put(d, w), L \ {w}, m, th, dr)
         /\ KeepsClosed(d, Put(d, w))
<1>1. w \in L
  BY DEF DoneNext
<1>2. /\ StoredRuns(Put(d, w)) /\ RunWritesMayBeDone(Put(d, w), L \ {w})
      /\ \A r \in Runs : /\ d.runIndex[r] \in Ends => Put(d, w).runIndex[r] = d.runIndex[r]
                         /\ d.coreRuns[r] \in Ends => Put(d, w).coreRuns[r] = d.coreRuns[r]
  BY WriteKeepsRuns, ZenonT(40) DEF Stored, Pending
<1>3. /\ StoredRequests(Put(d, w)) /\ RequestWritesMayBeDone(Put(d, w), L \ {w})
      /\ \A r \in Runs : /\ d.pending[r] \in Closed => Put(d, w).pending[r] = d.pending[r]
                         /\ d.corePending[r] \in Closed => Put(d, w).corePending[r] = d.corePending[r]
  BY WriteKeepsRequests, ZenonT(40) DEF Stored, Pending
<1>4. /\ StoredSessions(Put(d, w)) /\ SessionWritesMayBeDone(Put(d, w), L \ {w}, th, dr)
      /\ SessionsLeadOn(Put(d, w), L \ {w}, th, dr)
      /\ Saved(d) \subseteq Saved(Put(d, w)) /\ Put(d, w).binding \notin dr
  <2>1. th.dropped \subseteq Sessions /\ dr \subseteq Saved(d) /\ d.binding \notin dr
    BY DEF Settled, Pending, LeadsOn
  <2> QED BY <2>1, WriteKeepsSessions DEF Stored, Pending
<1>5. MemoryFits(th.done) /\ MemoryFits(th.failed)
  BY DEF Pending, LeadsOn
<1>6. Consumes(Put(d, w), th.done, L \ {w}) /\ Consumes(Put(d, w), th.failed, L \ {w})
  BY <1>5, WriteKeepsConsumes DEF Pending
<1>7. OneSubject(L \ {w}) /\ MineLeadsOn(L \ {w}, m, th)
  BY DEF Pending, OneSubject, MineLeadsOn
<1>8. Pending(Put(d, w), L \ {w}, m, th, dr)
  BY <1>2, <1>3, <1>4, <1>6, <1>7 DEF Pending
<1>9. m.phase \notin {"off", "recovering"} => OpenRuns(Put(d, w)) \subseteq m.mine
  BY <1>1, WriteOpensOnlyMine DEF Pending, MineLeadsOn, Settled
<1>10. Settled(Put(d, w), m, dr)
  BY <1>4, <1>9 DEF Settled
<1>11. KeepsClosed(d, Put(d, w))
  BY <1>2, <1>3 DEF KeepsClosed
<1> QED BY <1>2, <1>3, <1>4, <1>8, <1>10, <1>11 DEF Stored

(* When no write is left the memory may rely on what it was to rely on,    *)
(* and so it may when a write raises.                                      *)
LEMMA NothingPendingSettles ==
  ASSUME NEW d, NEW m, NEW th, NEW dr, Settled(d, m, dr), Pending(d, {}, m, th, dr)
  PROVE  Settled(d, th.done, th.dropped) /\ Consumes(d, th.done, {})
<1>1. MemoryFits(th.done) /\ m.phase # "off" /\ (m.phase = "recovering" => th.done.phase = "recovering")
  BY DEF Pending, LeadsOn
<1>2. th.done.phase \notin {"off", "recovering"} => OpenRuns(d) \subseteq th.done.mine
  BY <1>1 DEF Pending, MineLeadsOn, Settled
<1>3. /\ {th.done.selected, th.done.session} \ {None} \subseteq Saved(d)
      /\ th.dropped \subseteq Saved(d)
      /\ th.done.selected \notin th.dropped /\ d.binding \notin th.dropped
  BY DEF Pending, SessionsLeadOn, WillBeSaved, Saved
<1> QED BY <1>1, <1>2, <1>3 DEF Settled, Pending

LEMMA RaiseSettles ==
  ASSUME NEW d, NEW L, NEW m, NEW th, NEW dr, Settled(d, m, dr), Pending(d, L, m, th, dr)
  PROVE  Settled(d, th.failed, dr) /\ Consumes(d, th.failed, {})
<1>1. MemoryFits(th.failed) /\ m.phase # "off" /\ (m.phase = "recovering" => th.failed.phase = "off")
  BY DEF Pending, LeadsOn
<1>2. th.failed.phase \notin {"off", "recovering"} => OpenRuns(d) \subseteq th.failed.mine
  BY <1>1 DEF Pending, MineLeadsOn, Settled
<1>3. Consumes(d, th.failed, {})
  BY DEF Pending, Consumes
<1> QED BY <1>1, <1>2, <1>3 DEF Settled, Pending, SessionsLeadOn

-----------------------------------------------------------------------------
(* Operations. *)

LEMMA OperationStarts ==
  ASSUME IInv, todo = <<>>, NEW ws \in Seq(Writes), Sorted(ws),
         NEW done \in Memories, NEW failed \in Memories, NEW drops \in SUBSET Sessions,
         Does(ws, done, failed, drops),
         Pending(disk, WritesOf(ws), mem, [done |-> done, failed |-> failed, dropped |-> drops], dropped)
  PROVE  IInv'
<1> DEFINE th == [done |-> done, failed |-> failed, dropped |-> drops]
<1>1. th \in Thens /\ th.done = done /\ th.failed = failed /\ th.dropped = drops
  BY DEF Thens
<1>2. disk' = disk /\ crashes' = crashes /\ failures' = failures /\ todo' = ws
  BY DEF Does
<1>3. CASE ws = <<>>
  <2>1. mem' = done /\ dropped' = drops /\ then' = then
    BY <1>3 DEF Does
  <2>2. Settled(disk, done, drops) /\ Consumes(disk, done, {})
    BY <1>3, <1>1, NoWrites, NothingPendingSettles DEF IInv
  <2> QED BY <1>2, <1>3, <2>1, <2>2 DEF IInv, TypeInv
<1>4. CASE ws # <<>>
  <2>1. mem' = mem /\ dropped' = dropped /\ then' = th
    BY <1>4 DEF Does
  <2> QED BY <1>1, <1>2, <1>4, <2>1 DEF IInv, TypeInv
<1> QED BY <1>3, <1>4

LEMMA MemoryChanges ==
  ASSUME IInv, todo = <<>>, NEW m, mem' = m, UNCHANGED <<disk, todo, then, dropped>>,
         crashes' \in 0 .. MaxCrashes, failures' \in 0 .. MaxFailures,
         Settled(disk, m, dropped), Consumes(disk, m, {})
  PROVE  IInv'
BY DEF IInv, TypeInv, Settled, MemoryFits

LEMMA WriteKeepsIInv ==
  ASSUME IInv, write_json_atomic
  PROVE  IInv'
<1> DEFINE w == Head(todo)
           L == WritesOf(todo)
<1>1. /\ todo # <<>> /\ disk' = Put(disk, w) /\ todo' = Tail(todo)
      /\ crashes' = crashes /\ failures' = failures
  BY DEF write_json_atomic
<1>2. /\ DoneNext(disk, L, w) /\ Tail(todo) \in Seq(Writes) /\ Sorted(Tail(todo))
      /\ WritesOf(Tail(todo)) = L \ {w}
  BY <1>1, NextWrite DEF IInv, TypeInv, DoneNext
<1>3. /\ disk \in Disks /\ then \in Thens /\ None \notin Sessions
      /\ Stored(disk) /\ Settled(disk, mem, dropped) /\ Pending(disk, L, mem, then, dropped)
  BY <1>1, RunFilesAssumption DEF IInv, TypeInv
<1> HIDE DEF w, L
<1>4. /\ Put(disk, w) \in Disks /\ Stored(Put(disk, w)) /\ Settled(Put(disk, w), mem, dropped)
      /\ Pending(Put(disk, w), L \ {w}, mem, then, dropped)
  <2>1. w \in Writes
    BY <1>2, LowerFilesAreDone, <1>3
  <2> QED BY <1>2, <1>3, <2>1, WriteKeepsPending, PutChangesOneFile
<1>5. CASE Tail(todo) = <<>>
  <2>1. mem' = then.done /\ dropped' = then.dropped /\ then' = NoThen
    BY <1>5 DEF write_json_atomic
  <2>2. L \ {w} = {}
    BY <1>2, <1>5, NoWrites
  <2>3. Settled(Put(disk, w), then.done, then.dropped) /\ Consumes(Put(disk, w), then.done, {})
    BY <1>4, <2>2, NothingPendingSettles
  <2>4. NoThen \in Thens
    BY DEF NoThen, Thens, Off, Memories, Phases, Purposes
  <2>5. then.done \in Memories /\ then.dropped \subseteq Sessions
    BY <1>3 DEF Thens
  <2> QED BY <1>1, <1>2, <1>4, <1>5, <2>1, <2>3, <2>4, <2>5 DEF IInv, TypeInv
<1>6. CASE Tail(todo) # <<>>
  <2>1. mem' = mem /\ dropped' = dropped /\ then' = then
    BY <1>6 DEF write_json_atomic
  <2>2. Pending(Put(disk, w), WritesOf(Tail(todo)), mem, then, dropped)
    BY <1>2, <1>4
  <2> QED BY <1>1, <1>2, <1>4, <1>6, <2>1, <2>2 DEF IInv, TypeInv
<1> QED BY <1>5, <1>6

LEMMA WriteRaisesKeepsIInv ==
  ASSUME IInv, WriteRaises
  PROVE  IInv'
<1>1. /\ todo # <<>> /\ failures < MaxFailures /\ failures' = failures + 1 /\ todo' = <<>>
      /\ mem' = then.failed /\ then' = NoThen /\ disk' = disk /\ dropped' = dropped /\ crashes' = crashes
  BY DEF WriteRaises
<1>2. Settled(disk, then.failed, dropped) /\ Consumes(disk, then.failed, {})
  BY <1>1, RaiseSettles DEF IInv
<1>3. NoThen \in Thens /\ failures + 1 \in 0 .. MaxFailures
  BY <1>1, RunFilesAssumption DEF NoThen, Thens, Off, Memories, Phases, Purposes, IInv, TypeInv
<1>4. then.failed \in Memories
  BY DEF IInv, TypeInv, Thens
<1> QED BY <1>1, <1>2, <1>3, <1>4, NoWrites DEF IInv, TypeInv

LEMMA OffIsSettled ==
  ASSUME NEW d, NEW dr, dr \subseteq Sessions, Stored(d), dr \subseteq Saved(d), d.binding \notin dr
  PROVE  /\ Off \in Memories /\ NoThen \in Thens
         /\ Settled(d, Off, dr) /\ Consumes(d, Off, {})
<1>1. Off \in Memories /\ NoThen \in Thens
  BY DEF NoThen, Thens, Off, Memories, Phases, Purposes
<1>2. MemoryFits(Off) /\ Consumes(d, Off, {})
  BY <1>1 DEF MemoryFits, Consumes, Off, Consuming
<1>3. Settled(d, Off, dr)
  BY <1>2, RunFilesAssumption DEF Settled, Off
<1> QED BY <1>1, <1>2, <1>3

LEMMA CrashKeepsIInv ==
  ASSUME IInv, Crash
  PROVE  IInv'
<1>1. /\ crashes < MaxCrashes /\ crashes' = crashes + 1 /\ todo' = <<>>
      /\ mem' = Off /\ then' = NoThen /\ disk' = disk /\ dropped' = dropped /\ failures' = failures
  BY DEF Crash
<1>2. crashes + 1 \in 0 .. MaxCrashes
  BY <1>1, RunFilesAssumption DEF IInv, TypeInv
<1>3. /\ Off \in Memories /\ NoThen \in Thens
      /\ Settled(disk, Off, dropped) /\ Consumes(disk, Off, {})
  BY OffIsSettled DEF IInv, TypeInv, Settled
<1> QED BY <1>1, <1>2, <1>3, NoWrites DEF IInv, TypeInv

LEMMA RunWritesAreWrites ==
  ASSUME NEW r \in Runs, NEW status \in Ends \cup {"running"}
  PROVE  /\ W("runs", r, status) \in Writes /\ W("runIndex", r, status) \in Writes
         /\ W("coreRuns", r, status) \in Writes
BY DEF W, Writes, RunWrites, RunFile, Ends

LEMMA RequestWritesAreWrites ==
  ASSUME NEW r \in Runs, NEW status \in {"open", "resolved", "cancelled"}
  PROVE  W("pending", r, status) \in Writes /\ W("corePending", r, status) \in Writes
BY DEF W, Writes, RequestWrites, RequestFile

LEMMA SessionWritesAreWrites ==
  ASSUME NEW s \in Sessions
  PROVE  /\ W("sessions", s, "saved") \in Writes /\ W("index", s, "saved") \in Writes
         /\ W("coreSessions", s, "saved") \in Writes /\ W("binding", s, "bound") \in Writes
         /\ W("binding", None, "none") \in Writes
BY DEF W, Writes, SessionWrites, SessionFile, BindingWrites

LEMMA TwoWrites ==
  ASSUME NEW v \in Writes, NEW w \in Writes, FileRank(v.file) < FileRank(w.file)
  PROVE  <<v, w>> \in Seq(Writes) /\ <<v, w>> # <<>> /\ Sorted(<<v, w>>) /\ WritesOf(<<v, w>>) = {v, w}
<1>1. <<v, w>> \in Seq(Writes) /\ Len(<<v, w>>) = 2 /\ <<v, w>>[1] = v /\ <<v, w>>[2] = w
  OBVIOUS
<1>2. Sorted(<<v, w>>)
  <2> SUFFICES ASSUME NEW i \in 1 .. 2, NEW j \in 1 .. 2, i < j
               PROVE  FileRank(<<v, w>>[i].file) < FileRank(<<v, w>>[j].file)
    BY <1>1 DEF Sorted
  <2>1. i = 1 /\ j = 2
    OBVIOUS
  <2> QED BY <2>1, <1>1
<1>3. WritesOf(<<v, w>>) = {v, w}
  BY <1>1 DEF WritesOf
<1> QED BY <1>1, <1>2, <1>3

(* What the operations write. *)
LEMMA SaveRun ==
  ASSUME NEW r \in Runs, NEW status \in Ends \cup {"running"}
  PROVE  /\ save_run(r, status) \in Seq(Writes) /\ Sorted(save_run(r, status))
         /\ save_run(r, status) # <<>>
         /\ WritesOf(save_run(r, status)) = {W("runs", r, status), W("runIndex", r, status)}
<1>1. FileRank("runs") < FileRank("runIndex")
  BY DEF FileRank
<1> QED BY <1>1, RunWritesAreWrites, TwoWrites, WritesAreRecords DEF save_run

LEMMA SaveSession ==
  ASSUME NEW s \in Sessions
  PROVE  /\ save_session(s) \in Seq(Writes) /\ Sorted(save_session(s)) /\ save_session(s) # <<>>
         /\ WritesOf(save_session(s)) = {W("sessions", s, "saved"), W("index", s, "saved")}
<1>1. FileRank("sessions") < FileRank("index")
  BY DEF FileRank
<1> QED BY <1>1, SessionWritesAreWrites, TwoWrites, WritesAreRecords DEF save_session

LEMMA ThreeWrites ==
  ASSUME NEW ws \in Seq(Writes), Sorted(ws), NEW w \in Writes,
         \A v \in WritesOf(ws) : FileRank(v.file) < FileRank(w.file)
  PROVE  /\ ws \o <<w>> \in Seq(Writes) /\ Sorted(ws \o <<w>>) /\ ws \o <<w>> # <<>>
         /\ WritesOf(ws \o <<w>>) = WritesOf(ws) \cup {w}
<1> DEFINE t == <<w>>
<1>1. t \in Seq(Writes) /\ t # <<>> /\ Sorted(t) /\ WritesOf(t) = {w}
  BY OneWrite
<1> HIDE DEF t
<1>2. \A v \in WritesOf(ws), u \in WritesOf(t) : FileRank(v.file) < FileRank(u.file)
  BY <1>1
<1>3. /\ ws \o t \in Seq(Writes) /\ Sorted(ws \o t) /\ ws \o t # <<>>
      /\ WritesOf(ws \o t) = WritesOf(ws) \cup {w}
  BY <1>1, <1>2, TwoParts
<1> QED BY <1>3 DEF t

LEMMA FileRanks ==
  /\ FileRank("sessions") = 1 /\ FileRank("index") = 2 /\ FileRank("coreSessions") = 3
  /\ FileRank("binding") = 4 /\ FileRank("runs") = 5 /\ FileRank("runIndex") = 6
  /\ FileRank("coreRuns") = 7 /\ FileRank("pending") = 8 /\ FileRank("corePending") = 9
BY DEF FileRank

LEMMA RunAndCopy ==
  ASSUME NEW r \in Runs, NEW status \in Ends \cup {"running"}
  PROVE  LET ws == save_run(r, status) \o <<W("coreRuns", r, status)>>
         IN  /\ ws \in Seq(Writes) /\ Sorted(ws) /\ ws # <<>>
             /\ WritesOf(ws) = {W("runs", r, status), W("runIndex", r, status), W("coreRuns", r, status)}
<1>1. \A v \in WritesOf(save_run(r, status)) : FileRank(v.file) < FileRank(W("coreRuns", r, status).file)
  BY SaveRun, WritesAreRecords, FileRanks
<1> QED BY <1>1, SaveRun, RunWritesAreWrites, ThreeWrites

LEMMA SessionAndCopy ==
  ASSUME NEW s \in Sessions
  PROVE  /\ save_agent_session(s) \in Seq(Writes) /\ Sorted(save_agent_session(s))
         /\ save_agent_session(s) # <<>>
         /\ WritesOf(save_agent_session(s)) =
              {W("sessions", s, "saved"), W("index", s, "saved"), W("coreSessions", s, "saved")}
<1>1. \A v \in WritesOf(save_session(s)) : FileRank(v.file) < FileRank(W("coreSessions", s, "saved").file)
  BY SaveSession, WritesAreRecords, FileRanks
<1> QED BY <1>1, SaveSession, SessionWritesAreWrites, ThreeWrites DEF save_agent_session

LEMMA SessionAndBinding ==
  ASSUME NEW s \in Sessions
  PROVE  LET ws == save_session(s) \o set_current_session(s)
         IN  /\ ws \in Seq(Writes) /\ Sorted(ws) /\ ws # <<>>
             /\ WritesOf(ws) = {W("sessions", s, "saved"), W("index", s, "saved"), W("binding", s, "bound")}
<1>1. \A v \in WritesOf(save_session(s)) : FileRank(v.file) < FileRank(W("binding", s, "bound").file)
  BY SaveSession, WritesAreRecords, FileRanks
<1> QED BY <1>1, SaveSession, SessionWritesAreWrites, ThreeWrites DEF set_current_session

(* An operation that writes no run, and one that writes no session.        *)
LEMMA NoRunIsWritten ==
  ASSUME NEW d, NEW L, \A w \in L : w.file \notin RunFile \cup RequestFile
  PROVE  /\ OneSubject(L) /\ RunWritesMayBeDone(d, L) /\ RequestWritesMayBeDone(d, L)
         /\ \A m : Consumes(d, m, {}) => Consumes(d, m, L)
<1>1. OneSubject(L)
  BY DEF OneSubject
<1>2. RunWritesMayBeDone(d, L) /\ RequestWritesMayBeDone(d, L)
  BY DEF RunWritesMayBeDone, RequestWritesMayBeDone, RunFile, RequestFile
<1>3. \A m : Consumes(d, m, {}) => Consumes(d, m, L)
  BY DEF Consumes
<1> QED BY <1>1, <1>2, <1>3

LEMMA NoSessionIsWritten ==
  ASSUME NEW d, NEW L, NEW th, NEW dr, \A w \in L : w.file \in RunFile \cup RequestFile
  PROVE  SessionWritesMayBeDone(d, L, th, dr)
BY DEF SessionWritesMayBeDone, RunFile, RequestFile

LEMMA SessionsStay ==
  ASSUME NEW d, NEW L, NEW m, NEW th, NEW dr, Settled(d, m, dr), th.dropped = dr,
         th.done.selected \in {None, m.selected}, th.failed.selected \in {None, m.selected},
         th.done.session \in {None, m.session}, th.failed.session \in {None, m.session},
         None \notin dr
  PROVE  SessionsLeadOn(d, L, th, dr)
BY DEF Settled, SessionsLeadOn, WillBeSaved, Saved

-----------------------------------------------------------------------------
(* The start. *)

LEMMA RecoveryOperation ==
  ASSUME IInv, NEW ws \in Seq(Writes), Sorted(ws), ws # <<>>, Recovers(ws),
         \A w \in WritesOf(ws) : w.file \in RunFile \cup RequestFile,
         OneSubject(WritesOf(ws)), RunWritesMayBeDone(disk, WritesOf(ws)),
         RequestWritesMayBeDone(disk, WritesOf(ws))
  PROVE  IInv'
<1> DEFINE th == [done |-> mem, failed |-> Off, dropped |-> dropped]
           L == WritesOf(ws)
<1>1. todo = <<>> /\ mem.phase = "recovering" /\ Does(ws, mem, Off, dropped)
  BY DEF Recovers, Ready
<1>2. /\ mem \in Memories /\ dropped \in SUBSET Sessions /\ Settled(disk, mem, dropped)
      /\ None \notin dropped
  BY RunFilesAssumption DEF IInv, TypeInv
<1>3. Off \in Memories /\ MemoryFits(Off) /\ MemoryFits(mem)
  BY <1>2, OffIsSettled DEF IInv, TypeInv, Settled
<1>4. th.done = mem /\ th.failed = Off /\ th.dropped = dropped
  OBVIOUS
<1> HIDE DEF th, L
<1>5. LeadsOn(mem, th)
  BY <1>1, <1>2, <1>3, <1>4 DEF LeadsOn, Off
<1>6. MineLeadsOn(L, mem, th)
  BY <1>1 DEF MineLeadsOn
<1>7. SessionsLeadOn(disk, L, th, dropped)
  <2>1. th.failed.selected = None /\ th.failed.session = None
    BY <1>4 DEF Off
  <2> QED BY <1>2, <1>4, <2>1, SessionsStay
<1>8. SessionWritesMayBeDone(disk, L, th, dropped)
  BY NoSessionIsWritten DEF L
<1>9. Consumes(disk, mem, L) /\ Consumes(disk, Off, L)
  BY <1>1 DEF Consumes, Consuming, Off
<1>10. Pending(disk, L, mem, th, dropped)
  BY <1>4, <1>5, <1>6, <1>7, <1>8, <1>9 DEF Pending, L
<1> QED BY <1>1, <1>2, <1>3, <1>10, OperationStarts DEF th, L

LEMMA RecoverRunKeepsIInv ==
  ASSUME IInv, RecoverRun
  PROVE  IInv'
<1>1. PICK r \in Runs : disk.runIndex[r] = "running" /\ Recovers(save_run(r, "interrupted"))
  BY DEF RecoverRun, Incomplete
<1> DEFINE ws == save_run(r, "interrupted")
           v == W("runs", r, "interrupted")
           w == W("runIndex", r, "interrupted")
<1>2. /\ ws \in Seq(Writes) /\ Sorted(ws) /\ ws # <<>> /\ WritesOf(ws) = {v, w}
  BY SaveRun DEF Ends
<1>3. /\ v.file = "runs" /\ v.key = r /\ v.value = "interrupted"
      /\ w.file = "runIndex" /\ w.key = r /\ w.value = "interrupted"
  BY WritesAreRecords
<1>4. disk.coreRuns[r] # "completed"
  BY <1>1 DEF IInv, Stored, StoredRuns
<1>5. Shows(disk, {v, w}, "runs", w)
  BY <1>3 DEF Shows
<1> HIDE DEF ws, v, w
<1>6. OneSubject({v, w}) /\ RequestWritesMayBeDone(disk, {v, w})
  BY <1>3 DEF OneSubject, RequestFile, RequestWritesMayBeDone
<1>7. RunWritesMayBeDone(disk, {v, w})
  BY <1>1, <1>3, <1>4, <1>5 DEF RunWritesMayBeDone, Ends
<1>8. \A u \in {v, w} : u.file \in RunFile \cup RequestFile
  BY <1>3 DEF RunFile
<1>9. Recovers(ws)
  BY <1>1 DEF ws
<1> QED BY <1>2, <1>6, <1>7, <1>8, <1>9, RecoveryOperation

LEMMA RecoverOneFile ==
  ASSUME IInv, NEW w \in Writes, Recovers(<<w>>),
         RunWritesMayBeDone(disk, {w}), RequestWritesMayBeDone(disk, {w}),
         w.file \in RunFile \cup RequestFile
  PROVE  IInv'
<1> DEFINE ws == <<w>>
<1>1. ws \in Seq(Writes) /\ ws # <<>> /\ Sorted(ws) /\ WritesOf(ws) = {w} /\ Recovers(ws)
  BY OneWrite
<1> HIDE DEF ws
<1>2. OneSubject({w})
  BY DEF OneSubject
<1>3. \A u \in {w} : u.file \in RunFile \cup RequestFile
  OBVIOUS
<1> QED BY <1>1, <1>2, <1>3, RecoveryOperation

LEMMA RecoverPendingKeepsIInv ==
  ASSUME IInv, RecoverPending
  PROVE  IInv'
<1>1. PICK r \in Runs : disk.pending[r] = "open" /\ Recovers(<<W("pending", r, "cancelled")>>)
  BY DEF RecoverPending, OpenRequests
<1> DEFINE w == W("pending", r, "cancelled")
<1>2. w \in Writes /\ w.file = "pending" /\ w.key = r /\ w.value = "cancelled" /\ Recovers(<<w>>)
  BY <1>1, RequestWritesAreWrites, WritesAreRecords
<1>3. disk.corePending[r] # "resolved"
  BY <1>1 DEF IInv, Stored, StoredRequests
<1> HIDE DEF w
<1>4. RunWritesMayBeDone(disk, {w}) /\ RequestWritesMayBeDone(disk, {w})
  BY <1>1, <1>2, <1>3 DEF RunWritesMayBeDone, RequestWritesMayBeDone, Closed
<1> QED BY <1>2, <1>4, RecoverOneFile DEF RequestFile

LEMMA RecoverCoreRunKeepsIInv ==
  ASSUME IInv, RecoverCoreRun
  PROVE  IInv'
<1>1. PICK r \in Runs : disk.coreRuns[r] = "running" /\ Recovers(<<W("coreRuns", r, "interrupted")>>)
  BY DEF RecoverCoreRun, Incomplete
<1> DEFINE w == W("coreRuns", r, "interrupted")
<1>2. /\ w \in Writes /\ w.file = "coreRuns" /\ w.key = r /\ w.value = "interrupted" /\ Recovers(<<w>>)
  BY <1>1, RunWritesAreWrites, WritesAreRecords DEF Ends
<1>3. disk.runs[r] # "none" /\ disk.runIndex[r] # "none"
  BY <1>1 DEF IInv, Stored, StoredRuns
<1> HIDE DEF w
<1>4. RunWritesMayBeDone(disk, {w}) /\ RequestWritesMayBeDone(disk, {w})
  BY <1>1, <1>2, <1>3 DEF RunWritesMayBeDone, RequestWritesMayBeDone, Ends, Shows
<1> QED BY <1>2, <1>4, RecoverOneFile DEF RunFile

LEMMA RecoverCorePendingKeepsIInv ==
  ASSUME IInv, RecoverCorePending
  PROVE  IInv'
<1>1. PICK r \in Runs : /\ disk.corePending[r] = "open"
                        /\ Recovers(<<W("corePending", r, "cancelled")>>)
  BY DEF RecoverCorePending, OpenRequests
<1> DEFINE w == W("corePending", r, "cancelled")
<1>2. /\ w \in Writes /\ w.file = "corePending" /\ w.key = r /\ w.value = "cancelled"
      /\ Recovers(<<w>>)
  BY <1>1, RequestWritesAreWrites, WritesAreRecords
<1>3. disk.pending[r] # "none"
  BY <1>1 DEF IInv, Stored, StoredRequests
<1> HIDE DEF w
<1>4. RunWritesMayBeDone(disk, {w}) /\ RequestWritesMayBeDone(disk, {w})
  BY <1>1, <1>2, <1>3 DEF RunWritesMayBeDone, RequestWritesMayBeDone, Closed, Shows
<1> QED BY <1>2, <1>4, RecoverOneFile DEF RequestFile

LEMMA StartKeepsIInv ==
  ASSUME IInv, Start
  PROVE  IInv'
<1> DEFINE m == [Off EXCEPT !.phase = "recovering"]
<1>1. /\ todo = <<>> /\ mem' = m /\ UNCHANGED <<disk, todo, then, dropped, crashes, failures>>
  BY DEF Start, Ready
<1>2. Settled(disk, Off, dropped)
  BY OffIsSettled DEF IInv, TypeInv, Settled
<1>3. m \in Memories /\ m.phase = "recovering" /\ m.selected = None /\ m.session = None
  BY DEF Off, Memories, Phases, Purposes
<1> HIDE DEF m
<1>4. Settled(disk, m, dropped) /\ Consumes(disk, m, {})
  BY <1>2, <1>3, RunFilesAssumption DEF Settled, MemoryFits, Consumes, Consuming, Off
<1> QED BY <1>1, <1>4, MemoryChanges DEF IInv, TypeInv

LEMMA RecoveryEndsKeepsIInv ==
  ASSUME IInv, RecoveryEnds
  PROVE  IInv'
<1> DEFINE m == [mem EXCEPT !.phase = "idle"]
<1>1. /\ todo = <<>> /\ mem' = m /\ UNCHANGED <<disk, todo, then, dropped, crashes, failures>>
      /\ Recovered
  BY DEF RecoveryEnds, Ready, At
<1>2. OpenRuns(disk) = {}
  BY <1>1 DEF Recovered, StoreRecovered, OpenRuns, Incomplete, OpenRequests
<1>3. m \in Memories /\ m.phase = "idle" /\ m.selected = mem.selected /\ m.session = mem.session
  BY DEF IInv, TypeInv, Memories, Phases
<1> HIDE DEF m
<1>4. Settled(disk, m, dropped) /\ Consumes(disk, m, {})
  BY <1>2, <1>3 DEF IInv, Settled, MemoryFits, Consumes, Consuming
<1> QED BY <1>1, <1>4, MemoryChanges DEF IInv, TypeInv

-----------------------------------------------------------------------------
(* Sessions. *)

(* An operation on sessions that leaves the runs of the memory alone.      *)
LEMMA SessionOperation ==
  ASSUME IInv, todo = <<>>, mem.phase \notin {"off", "recovering"},
         NEW ws \in Seq(Writes), Sorted(ws), NEW done, NEW failed, NEW drops \in SUBSET Sessions,
         Does(ws, done, failed, drops),
         \A w \in WritesOf(ws) : w.file \in SessionFile \cup {"binding"},
         \A w \in WritesOf(ws) : w.file = "coreSessions" => WillBeSaved(disk, WritesOf(ws), w.key),
         \A w \in WritesOf(ws) : w.file = "binding" /\ w.key # None =>
           WillBeSaved(disk, WritesOf(ws), w.key) /\ w.key \notin dropped \cup drops,
         MemoryFits(done), MemoryFits(failed),
         done.mine = mem.mine, failed.mine = mem.mine,
         done.run \in {None, mem.run}, failed.run \in {None, mem.run},
         "starting" \in {done.phase, failed.phase} => mem.phase \in {"recording", "starting"},
         Consumes(disk, done, {}), Consumes(disk, failed, {}),
         SessionsLeadOn(disk, WritesOf(ws), [done |-> done, failed |-> failed, dropped |-> drops], dropped)
  PROVE  IInv'
<1> DEFINE th == [done |-> done, failed |-> failed, dropped |-> drops]
           L == WritesOf(ws)
<1>1. th.done = done /\ th.failed = failed /\ th.dropped = drops
  OBVIOUS
<1>2. SessionsLeadOn(disk, L, th, dropped)
  OBVIOUS
<1>3. done \in Memories /\ failed \in Memories
  BY DEF MemoryFits
<1> HIDE DEF th, L
<1>4. /\ OneSubject(L) /\ RunWritesMayBeDone(disk, L) /\ RequestWritesMayBeDone(disk, L)
      /\ Consumes(disk, done, L) /\ Consumes(disk, failed, L)
  <2>1. \A w \in L : w.file \notin RunFile \cup RequestFile
    BY DEF L, RunFile, RequestFile, SessionFile
  <2> QED BY <2>1, NoRunIsWritten
<1>5. SessionWritesMayBeDone(disk, L, th, dropped)
  BY <1>1 DEF SessionWritesMayBeDone, L
<1>6. LeadsOn(mem, th)
  BY <1>1 DEF LeadsOn
<1>7. MineLeadsOn(L, mem, th)
  <2>1. L \subseteq Writes
    BY DEF WritesOf, L
  <2>2. \A w \in L : w.value \notin {"running", "open"}
    BY <2>1, WritesAreRecords DEF L, SessionFile
  <2> QED BY <1>1, <2>2 DEF MineLeadsOn
<1>8. Pending(disk, L, mem, th, dropped)
  BY <1>1, <1>2, <1>4, <1>5, <1>6, <1>7 DEF Pending
<1> QED BY <1>3, <1>8, OperationStarts DEF th, L

LEMMA ClearsSession ==
  ASSUME IInv
  PROVE  /\ clear_current_session \in Seq(Writes) /\ Sorted(clear_current_session)
         /\ WritesOf(clear_current_session) =
              IF disk.binding = None THEN {} ELSE {W("binding", None, "none")}
<1>1. disk.binding \in disk.sessions <=> disk.binding # None
  BY RunFilesAssumption DEF IInv, TypeInv, Disks, Stored, StoredSessions, Saved
<1>2. W("binding", None, "none") \in Writes
  BY DEF W, Writes, BindingWrites
<1>3. CASE disk.binding = None
  BY <1>1, <1>3, NoWrites DEF clear_current_session
<1>4. CASE disk.binding # None
  BY <1>1, <1>2, <1>4, OneWrite DEF clear_current_session
<1> QED BY <1>3, <1>4

(* Leaving a session: the memory afterwards has none selected. *)
LEMMA LeavesSession ==
  ASSUME IInv, todo = <<>>, mem.phase \notin {"off", "recovering"},
         NEW done, Does(clear_current_session, done, mem, Left),
         MemoryFits(done), done.mine = mem.mine, done.run \in {None, mem.run},
         done.phase \in {mem.phase, "creating"},
         done.session = mem.session, done.selected = None, Consumes(disk, done, {})
  PROVE  IInv'
<1> DEFINE ws == clear_current_session
           th == [done |-> done, failed |-> mem, dropped |-> Left]
<1>1. /\ ws \in Seq(Writes) /\ Sorted(ws)
      /\ WritesOf(ws) = IF disk.binding = None THEN {} ELSE {W("binding", None, "none")}
  BY ClearsSession
<1>2. /\ Settled(disk, mem, dropped) /\ Consumes(disk, mem, {}) /\ MemoryFits(mem)
      /\ disk.binding \in Saved(disk) \cup {None} /\ mem.selected \in Saved(disk) \cup {None}
      /\ None \notin Saved(disk) /\ Saved(disk) \subseteq Sessions /\ dropped \subseteq Saved(disk)
  BY RunFilesAssumption DEF IInv, TypeInv, Settled, Stored, StoredSessions, Saved, Disks
<1>3. Left \subseteq Saved(disk) /\ None \notin Left /\ Left \in SUBSET Sessions
  BY <1>2 DEF Left
<1>4. th.done = done /\ th.failed = mem /\ th.dropped = Left
  OBVIOUS
<1>5. Does(ws, done, mem, Left)
  OBVIOUS
<1> HIDE DEF ws, th
<1>6. disk.binding # None => W("binding", None, "none") \in WritesOf(ws)
  BY <1>1
<1>7. SessionsLeadOn(disk, WritesOf(ws), th, dropped)
  BY <1>2, <1>3, <1>4, <1>6 DEF SessionsLeadOn, Settled, WillBeSaved, Saved
<1>8. \A w \in WritesOf(ws) : w.file = "binding" /\ w.key = None
  BY <1>1, WritesAreRecords
<1>9. \A w \in WritesOf(ws) : /\ w.file \in SessionFile \cup {"binding"} /\ w.file # "coreSessions"
                              /\ ~ (w.file = "binding" /\ w.key # None)
  BY <1>8
<1> QED BY <1>1, <1>2, <1>3, <1>5, <1>7, <1>9, SessionOperation DEF th

LEMMA ClearSelectedSessionKeepsIInv ==
  ASSUME IInv, ClearSelectedSession
  PROVE  IInv'
<1> DEFINE m == [mem EXCEPT !.fresh = TRUE, !.selected = None]
<1>1. /\ todo = <<>> /\ mem.phase \notin {"off", "recovering", "recording"}
      /\ Does(clear_current_session, m, mem, Left)
  BY DEF ClearSelectedSession, Ready
<1>2. Settled(disk, mem, dropped) /\ Consumes(disk, mem, {}) /\ MemoryFits(mem) /\ mem \in Memories
  BY <1>1 DEF IInv, TypeInv, Settled
<1>3. /\ m \in Memories /\ m.phase = mem.phase /\ m.mine = mem.mine /\ m.run = mem.run
      /\ m.session = mem.session /\ m.selected = None
  BY <1>2 DEF Memories
<1> HIDE DEF m
<1>4. MemoryFits(m) /\ Consumes(disk, m, {})
  BY <1>1, <1>2, <1>3 DEF MemoryFits, Consumes
<1>5. mem.phase \notin {"off", "recovering"}
  BY <1>1
<1> QED BY <1>1, <1>3, <1>4, <1>5, LeavesSession

LEMMA ResetSessionKeepsIInv ==
  ASSUME IInv, ResetSession
  PROVE  IInv'
<1> DEFINE m == [mem EXCEPT !.phase = "creating", !.purpose = "reset", !.fresh = FALSE, !.selected = None]
<1>1. todo = <<>> /\ mem.phase = "idle" /\ Does(clear_current_session, m, mem, Left)
  BY DEF ResetSession, Ready
<1>2. mem \in Memories
  BY DEF IInv, TypeInv
<1>3. /\ m \in Memories /\ m.phase = "creating" /\ m.mine = mem.mine /\ m.run = mem.run
      /\ m.session = mem.session /\ m.selected = None
  BY <1>2 DEF Memories, Phases, Purposes
<1> HIDE DEF m
<1>4. MemoryFits(m) /\ Consumes(disk, m, {})
  BY <1>3 DEF MemoryFits, Consumes, Consuming
<1> QED BY <1>1, <1>3, <1>4, LeavesSession

LEMMA ResumeSessionKeepsIInv ==
  ASSUME IInv, ResumeSession
  PROVE  IInv'
<1>1. PICK s \in disk.coreSessions :
        /\ todo = <<>> /\ mem.phase = "idle" /\ todo' = save_agent_session(s)
        /\ mem' = [mem EXCEPT !.fresh = FALSE, !.selected = s]
        /\ then' = [done |-> mem', failed |-> mem', dropped |-> dropped \ {s}]
        /\ dropped' = dropped \ {s} /\ UNCHANGED <<disk, crashes, failures>>
  BY DEF ResumeSession, Ready
<1> DEFINE m == [mem EXCEPT !.fresh = FALSE, !.selected = s]
           dr == dropped \ {s}
           th == [done |-> m, failed |-> m, dropped |-> dr]
           L == WritesOf(save_agent_session(s))
<1>2. mem' = m /\ then' = th /\ dropped' = dr
  BY <1>1
<1>3. s \in Sessions /\ s \in Saved(disk) /\ s # None
  BY RunFilesAssumption DEF IInv, TypeInv, Disks, Stored, StoredSessions
<1>4. /\ save_agent_session(s) \in Seq(Writes) /\ Sorted(save_agent_session(s))
      /\ save_agent_session(s) # <<>>
      /\ L = {W("sessions", s, "saved"), W("index", s, "saved"), W("coreSessions", s, "saved")}
  BY <1>3, SessionAndCopy
<1>5. mem \in Memories /\ Settled(disk, mem, dropped) /\ dropped \subseteq Sessions
  BY DEF IInv, TypeInv
<1>6. /\ m \in Memories /\ m.phase = "idle" /\ m.mine = mem.mine /\ m.run = mem.run
      /\ m.session = mem.session /\ m.selected = s
  BY <1>1, <1>3, <1>5 DEF Memories
<1>7. th.done = m /\ th.failed = m /\ th.dropped = dr /\ th \in Thens
  BY <1>5, <1>6 DEF Thens
<1> HIDE DEF m, th, L
<1>8. Settled(disk, m, dr)
  BY <1>1, <1>3, <1>5, <1>6 DEF Settled, MemoryFits, Consuming
<1>9. \A w \in L : /\ w.file \in SessionFile /\ w.key = s /\ w.value = "saved"
  BY <1>4, WritesAreRecords DEF SessionFile
<1>10. Consumes(disk, m, {})
  BY <1>6 DEF Consumes, Consuming
<1>11. /\ OneSubject(L) /\ RunWritesMayBeDone(disk, L) /\ RequestWritesMayBeDone(disk, L)
       /\ Consumes(disk, m, L)
  <2>1. \A w \in L : w.file \notin RunFile \cup RequestFile
    BY <1>9 DEF RunFile, RequestFile, SessionFile
  <2> QED BY <1>10, <2>1, NoRunIsWritten
<1>12. WillBeSaved(disk, L, s)
  BY <1>3 DEF WillBeSaved, Saved
<1>13. SessionWritesMayBeDone(disk, L, th, dr)
  BY <1>9, <1>12 DEF SessionWritesMayBeDone, SessionFile
<1>14. SessionsLeadOn(disk, L, th, dr)
  BY <1>7, <1>8 DEF Settled, SessionsLeadOn, WillBeSaved, Saved
<1>15. LeadsOn(m, th)
  BY <1>6, <1>7, <1>8, <1>5 DEF LeadsOn, Settled
<1>16. MineLeadsOn(L, m, th)
  BY <1>7, <1>9 DEF MineLeadsOn
<1>17. Pending(disk, L, m, th, dr)
  BY <1>7, <1>11, <1>13, <1>14, <1>15, <1>16 DEF Pending
<1>18. Pending(disk, WritesOf(save_agent_session(s)), m, th, dr)
  BY <1>17 DEF L
<1> QED BY <1>1, <1>2, <1>4, <1>5, <1>6, <1>7, <1>8, <1>18 DEF IInv, TypeInv

LEMMA GivingUp ==
  ASSUME NEW m \in Memories
  PROVE  /\ GivesUp(m) \in Memories /\ MemoryFits(GivesUp(m))
         /\ GivesUp(m).phase \in {"idle", "stranded"} /\ GivesUp(m).mine = m.mine
         /\ GivesUp(m).selected = m.selected /\ GivesUp(m).run \in {None, m.run}
         /\ GivesUp(m).session \in {None, m.session}
         /\ \A d, L : Consumes(d, GivesUp(m), L)
<1>1. /\ GivesUp(m) \in Memories /\ GivesUp(m).phase \in {"idle", "stranded"}
      /\ GivesUp(m).mine = m.mine /\ GivesUp(m).selected = m.selected
      /\ GivesUp(m).run \in {None, m.run} /\ GivesUp(m).session \in {None, m.session}
  BY DEF GivesUp, Memories, Phases
<1>2. MemoryFits(GivesUp(m)) /\ \A d, L : Consumes(d, GivesUp(m), L)
  BY <1>1 DEF MemoryFits, Consumes, Consuming
<1> QED BY <1>1, <1>2

(* A memory that goes on without a run to consume, in the same session or  *)
(* in one of the store.                                                    *)
LEMMA MemoryGoesOn ==
  ASSUME IInv, todo = <<>>, NEW m \in Memories, mem' = m,
         UNCHANGED <<disk, todo, then, dropped, crashes, failures>>,
         mem.phase \notin {"off", "recovering"}, m.phase \notin Consuming, m.mine = mem.mine,
         m.selected \in {mem.selected, disk.binding}, m.session \in {None, mem.session, m.selected},
         m.phase \in {"recording", "starting"} => m.session # None,
         m.phase = "recording" => m.session = m.selected
  PROVE  IInv'
<1>1. MemoryFits(m) /\ Consumes(disk, m, {})
  BY DEF MemoryFits, Consumes, Consuming
<1>2. {m.selected, m.session} \ {None} \subseteq Saved(disk) /\ m.selected \notin dropped
  BY DEF IInv, Settled, Stored, StoredSessions
<1>3. Settled(disk, m, dropped)
  BY <1>1, <1>2 DEF IInv, Settled
<1> QED BY <1>1, <1>3, MemoryChanges DEF IInv, TypeInv

LEMMA ChoosesSession ==
  ASSUME IInv, NEW m \in Memories, m.selected = mem.selected
  PROVE  LET n == SessionForNewTurn(m)
         IN  /\ n \in Memories /\ n.phase \in {"creating", "renewing", "starting", "recording"}
             /\ n.mine = m.mine /\ n.session \in {m.session, n.selected} /\ n.run = m.run
             /\ n.selected \in {mem.selected, disk.binding}
             /\ (n.phase \in {"recording", "starting"} => n.session # None /\ n.session = n.selected)
<1>1. CASE m.fresh
  <2>1. SessionForNewTurn(m) = [m EXCEPT !.phase = "renewing"]
    BY <1>1 DEF SessionForNewTurn
  <2> QED BY <2>1 DEF Memories, Phases
<1>2. CASE ~ m.fresh /\ m.selected # None
  <2>1. SessionForNewTurn(m) = [m EXCEPT !.phase = "starting", !.session = m.selected]
    BY <1>2 DEF SessionForNewTurn
  <2> QED BY <1>2, <2>1 DEF Memories, Phases
<1>3. CASE ~ m.fresh /\ m.selected = None /\ disk.binding \in disk.sessions
  <2>1. SessionForNewTurn(m) =
          [m EXCEPT !.phase = "recording", !.session = disk.binding, !.selected = disk.binding]
    BY <1>3 DEF SessionForNewTurn
  <2>2. disk.binding \in Sessions /\ disk.binding # None
    BY <1>3, RunFilesAssumption DEF IInv, TypeInv, Disks
  <2> QED BY <2>1, <2>2 DEF Memories, Phases
<1>4. CASE ~ m.fresh /\ m.selected = None /\ disk.binding \notin disk.sessions
  <2>1. SessionForNewTurn(m) = [m EXCEPT !.phase = "creating"]
    BY <1>4 DEF SessionForNewTurn
  <2> QED BY <2>1 DEF Memories, Phases
<1> QED BY <1>1, <1>2, <1>3, <1>4

LEMMA TextKeepsIInv ==
  ASSUME IInv, Text
  PROVE  IInv'
<1> DEFINE m == [mem EXCEPT !.purpose = "text"]
           n == SessionForNewTurn(m)
<1>1. /\ todo = <<>> /\ mem.phase = "idle" /\ mem' = n
      /\ UNCHANGED <<disk, todo, then, dropped, crashes, failures>>
  BY DEF Text, Ready
<1>2. /\ m \in Memories /\ m.selected = mem.selected /\ m.session = mem.session
      /\ m.run = mem.run /\ m.mine = mem.mine
  BY DEF IInv, TypeInv, Memories, Purposes
<1> HIDE DEF m
<1>3. /\ n \in Memories /\ n.phase \in {"creating", "renewing", "starting", "recording"}
      /\ n.mine = m.mine /\ n.session \in {m.session, n.selected} /\ n.run = m.run
      /\ n.selected \in {mem.selected, disk.binding}
      /\ (n.phase \in {"recording", "starting"} => n.session # None /\ n.session = n.selected)
  BY <1>2, ChoosesSession
<1> HIDE DEF n
<1>4. n.phase \notin Consuming
  BY <1>3 DEF Consuming
<1> QED BY <1>1, <1>2, <1>3, <1>4, MemoryGoesOn

LEMMA HandsOverKeepsIInv ==
  ASSUME IInv, HandsOver
  PROVE  IInv'
<1> DEFINE m == [mem EXCEPT !.purpose = "queued"]
           n == SessionForNewTurn(m)
<1>1. /\ todo = <<>> /\ mem.phase = "running" /\ mem' = n
      /\ UNCHANGED <<disk, todo, then, dropped, crashes, failures>>
  BY DEF HandsOver, Ready
<1>2. /\ m \in Memories /\ m.selected = mem.selected /\ m.session = mem.session
      /\ m.run = mem.run /\ m.mine = mem.mine
  BY DEF IInv, TypeInv, Memories, Purposes
<1> HIDE DEF m
<1>3. /\ n \in Memories /\ n.phase \in {"creating", "renewing", "starting", "recording"}
      /\ n.mine = m.mine /\ n.session \in {m.session, n.selected} /\ n.run = m.run
      /\ n.selected \in {mem.selected, disk.binding}
      /\ (n.phase \in {"recording", "starting"} => n.session # None /\ n.session = n.selected)
  BY <1>2, ChoosesSession
<1> HIDE DEF n
<1>4. n.phase \notin Consuming
  BY <1>3 DEF Consuming
<1> QED BY <1>1, <1>2, <1>3, <1>4, MemoryGoesOn

LEMMA AgentRefusesKeepsIInv ==
  ASSUME IInv, AgentRefuses
  PROVE  IInv'
<1>1. /\ todo = <<>> /\ mem.phase \in {"creating", "renewing", "starting"} /\ mem' = GivesUp(mem)
      /\ UNCHANGED <<disk, todo, then, dropped, crashes, failures>> /\ mem \in Memories
  BY DEF AgentRefuses, Ready, IInv, TypeInv
<1>2. /\ GivesUp(mem) \in Memories /\ GivesUp(mem).phase \in {"idle", "stranded"}
      /\ GivesUp(mem).mine = mem.mine /\ GivesUp(mem).selected = mem.selected
      /\ GivesUp(mem).session \in {None, mem.session}
  BY <1>1, GivingUp
<1>3. GivesUp(mem).phase \notin Consuming \cup {"recording", "starting"}
  BY <1>2 DEF Consuming
<1> QED BY <1>1, <1>2, <1>3, MemoryGoesOn

LEMMA ThreadNotFoundKeepsIInv ==
  ASSUME IInv, ThreadNotFound
  PROVE  IInv'
<1> DEFINE m == [mem EXCEPT !.phase = "creating"]
<1>1. /\ todo = <<>> /\ mem.phase = "starting" /\ mem' = m
      /\ UNCHANGED <<disk, todo, then, dropped, crashes, failures>>
  BY DEF ThreadNotFound, Ready, At
<1>2. /\ m \in Memories /\ m.phase = "creating" /\ m.mine = mem.mine /\ m.selected = mem.selected
      /\ m.session = mem.session
  BY DEF IInv, TypeInv, Memories, Phases
<1> HIDE DEF m
<1>3. m.phase \notin Consuming \cup {"recording", "starting"}
  BY <1>2 DEF Consuming
<1> QED BY <1>1, <1>2, <1>3, MemoryGoesOn

LEMMA CreateSessionKeepsIInv ==
  ASSUME IInv, CreateSession
  PROVE  IInv'
<1>1. PICK s \in Sessions \ (disk.sessions \cup disk.index) :
        /\ todo = <<>> /\ mem.phase \in {"creating", "renewing"}
        /\ Does(save_session(s) \o set_current_session(s), Takes(s), GivesUp(mem), dropped)
  BY DEF CreateSession, Ready
<1> DEFINE m == Takes(s)
           ws == save_session(s) \o set_current_session(s)
           th == [done |-> m, failed |-> GivesUp(mem), dropped |-> dropped]
<1>2. /\ ws \in Seq(Writes) /\ Sorted(ws)
      /\ WritesOf(ws) = {W("sessions", s, "saved"), W("index", s, "saved"), W("binding", s, "bound")}
  BY SessionAndBinding
<1>3. /\ mem \in Memories /\ Settled(disk, mem, dropped) /\ dropped \in SUBSET Sessions
      /\ s # None /\ s \notin dropped
  BY RunFilesAssumption DEF IInv, TypeInv, Settled, Saved
<1>4. /\ m \in Memories /\ m.phase = "recording" /\ m.mine = mem.mine /\ m.run = mem.run
      /\ m.session = s /\ m.selected = s
  BY <1>3 DEF Takes, Memories, Phases
<1>5. th.done = m /\ th.failed = GivesUp(mem) /\ th.dropped = dropped /\ Does(ws, m, GivesUp(mem), dropped)
  BY <1>1
<1> HIDE DEF m, ws, th
<1>6. MemoryFits(m) /\ Consumes(disk, m, {})
  BY <1>3, <1>4 DEF MemoryFits, Consumes, Consuming
<1>7. /\ MemoryFits(GivesUp(mem)) /\ GivesUp(mem).mine = mem.mine
      /\ GivesUp(mem).selected = mem.selected /\ GivesUp(mem).run \in {None, mem.run}
      /\ GivesUp(mem).session \in {None, mem.session} /\ Consumes(disk, GivesUp(mem), {})
  BY <1>3, GivingUp
<1>8. WillBeSaved(disk, WritesOf(ws), s)
  BY <1>2 DEF WillBeSaved
<1>9. \A w \in WritesOf(ws) : w.file \in {"sessions", "index", "binding"} /\ w.key = s
  BY <1>2, WritesAreRecords
<1>10. \A w \in WritesOf(ws) :
         /\ w.file \in SessionFile \cup {"binding"} /\ w.file # "coreSessions"
         /\ (w.file = "binding" /\ w.key # None =>
               WillBeSaved(disk, WritesOf(ws), w.key) /\ w.key \notin dropped \cup dropped)
  BY <1>3, <1>8, <1>9 DEF SessionFile
<1>11. SessionsLeadOn(disk, WritesOf(ws), th, dropped)
  <2>1. \A t \in {m.selected, m.session} \ {None} : WillBeSaved(disk, WritesOf(ws), t)
    BY <1>3, <1>4, <1>8 DEF Settled, WillBeSaved, Saved
  <2> QED BY <1>3, <1>4, <1>5, <1>7, <2>1 DEF SessionsLeadOn, Settled
<1>12. /\ mem.phase \notin {"off", "recovering"}
       /\ "starting" \notin {m.phase, GivesUp(mem).phase}
  BY <1>1, <1>3, <1>4, GivingUp
<1> QED BY <1>1, <1>2, <1>3, <1>4, <1>5, <1>6, <1>7, <1>10, <1>11, <1>12, SessionOperation DEF th

LEMMA RecordSessionKeepsIInv ==
  ASSUME IInv, RecordSession
  PROVE  IInv'
<1> DEFINE s == mem.session
           m == IF mem.purpose = "reset" THEN [mem EXCEPT !.phase = "idle", !.session = None]
                ELSE At("starting")
           ws == save_agent_session(s)
           th == [done |-> m, failed |-> GivesUp(mem), dropped |-> dropped]
<1>1. todo = <<>> /\ mem.phase = "recording" /\ Does(ws, m, GivesUp(mem), dropped)
  BY DEF RecordSession, Ready
<1>2. /\ mem \in Memories /\ Settled(disk, mem, dropped) /\ dropped \in SUBSET Sessions
      /\ s \in Sessions /\ s # None /\ s \in Saved(disk) /\ None \notin dropped
  BY <1>1, RunFilesAssumption DEF IInv, TypeInv, Settled, MemoryFits, Memories
<1>3. /\ ws \in Seq(Writes) /\ Sorted(ws)
      /\ WritesOf(ws) = {W("sessions", s, "saved"), W("index", s, "saved"), W("coreSessions", s, "saved")}
  BY <1>2, SessionAndCopy
<1>4. /\ m \in Memories /\ m.phase \in {"idle", "starting"} /\ m.mine = mem.mine /\ m.run = mem.run
      /\ m.session \in {None, s} /\ m.selected = mem.selected
      /\ (m.phase = "starting" => m.session = s)
  BY <1>2 DEF Memories, Phases, At
<1>5. th.done = m /\ th.failed = GivesUp(mem) /\ th.dropped = dropped
  OBVIOUS
<1> HIDE DEF m, ws, th
<1>6. MemoryFits(m) /\ Consumes(disk, m, {})
  BY <1>2, <1>4 DEF MemoryFits, Consumes, Consuming
<1>7. /\ MemoryFits(GivesUp(mem)) /\ GivesUp(mem).mine = mem.mine
      /\ GivesUp(mem).selected = mem.selected /\ GivesUp(mem).run \in {None, mem.run}
      /\ GivesUp(mem).session \in {None, mem.session} /\ Consumes(disk, GivesUp(mem), {})
  BY <1>2, GivingUp
<1>8. \A w \in WritesOf(ws) : w.file \in SessionFile /\ w.key = s /\ w.file # "binding"
  BY <1>3, WritesAreRecords DEF SessionFile
<1>9. WillBeSaved(disk, WritesOf(ws), s)
  BY <1>3 DEF WillBeSaved
<1>10. SessionsLeadOn(disk, WritesOf(ws), th, dropped)
  BY <1>2, <1>4, <1>5, <1>7, SessionsStay
<1>11. mem.phase \notin {"off", "recovering"}
  BY <1>1
<1>12. /\ \A w \in WritesOf(ws) : w.file \in SessionFile \cup {"binding"}
       /\ \A w \in WritesOf(ws) : w.file = "coreSessions" => WillBeSaved(disk, WritesOf(ws), w.key)
       /\ \A w \in WritesOf(ws) : w.file = "binding" /\ w.key # None =>
            WillBeSaved(disk, WritesOf(ws), w.key) /\ w.key \notin dropped \cup dropped
  BY <1>8, <1>9
<1> HIDE DEF s
<1> QED BY <1>1, <1>2, <1>3, <1>4, <1>6, <1>7, <1>10, <1>11, <1>12, SessionOperation DEF th

-----------------------------------------------------------------------------
(* Runs. *)

(* An operation on the active run or its request. *)
LEMMA RunOperation ==
  ASSUME IInv, todo = <<>>, mem.phase \notin {"off", "recovering"},
         NEW ws \in Seq(Writes), Sorted(ws), NEW done, NEW failed,
         Does(ws, done, failed, dropped),
         \A w \in WritesOf(ws) : w.file \in RunFile \cup RequestFile,
         \A w \in WritesOf(ws) : w.value \in {"running", "open"} => w.key \in mem.mine,
         OneSubject(WritesOf(ws)), RunWritesMayBeDone(disk, WritesOf(ws)),
         RequestWritesMayBeDone(disk, WritesOf(ws)),
         MemoryFits(done), MemoryFits(failed),
         done.mine = mem.mine, failed.mine = mem.mine,
         done.run \in {None, mem.run}, failed.run \in {None, mem.run},
         done.selected = mem.selected, failed.selected = mem.selected,
         done.session \in {None, mem.session}, failed.session \in {None, mem.session},
         "starting" \notin {done.phase, failed.phase},
         Consumes(disk, done, WritesOf(ws)), Consumes(disk, failed, WritesOf(ws))
  PROVE  IInv'
<1> DEFINE th == [done |-> done, failed |-> failed, dropped |-> dropped]
           L == WritesOf(ws)
<1>1. th.done = done /\ th.failed = failed /\ th.dropped = dropped
  OBVIOUS
<1>2. done \in Memories /\ failed \in Memories /\ dropped \in SUBSET Sessions /\ None \notin dropped
  BY RunFilesAssumption DEF MemoryFits, IInv, TypeInv
<1> HIDE DEF th, L
<1>3. LeadsOn(mem, th) /\ MineLeadsOn(L, mem, th)
  BY <1>1, <1>2 DEF LeadsOn, MineLeadsOn, L
<1>4. SessionWritesMayBeDone(disk, L, th, dropped)
  BY NoSessionIsWritten DEF L
<1>5. SessionsLeadOn(disk, L, th, dropped)
  BY <1>1, <1>2, SessionsStay DEF IInv
<1>6. Pending(disk, L, mem, th, dropped)
  BY <1>1, <1>3, <1>4, <1>5 DEF Pending, L
<1> QED BY <1>2, <1>6, OperationStarts DEF th, L

LEMMA RecordsOfTheEnd ==
  ASSUME NEW d \in Disks, NEW r \in Runs, NEW status \in Ends,
         disk = d, d.runIndex[r] \notin Ends, d.coreRuns[r] \notin Ends
  PROVE  LET ws == record_run_terminal_status(r, status)
         IN  /\ ws \in Seq(Writes) /\ Sorted(ws)
             /\ \A w \in WritesOf(ws) : w.file \in RunFile /\ w.key = r /\ w.value = status
             /\ RunWritesMayBeDone(d, WritesOf(ws))
<1> DEFINE ws == record_run_terminal_status(r, status)
           u == W("runs", r, status)
           v == W("runIndex", r, status)
           w == W("coreRuns", r, status)
<1>1. /\ u.file = "runs" /\ v.file = "runIndex" /\ w.file = "coreRuns"
      /\ u.key = r /\ v.key = r /\ w.key = r
      /\ u.value = status /\ v.value = status /\ w.value = status
  BY WritesAreRecords
<1>2. ws \in Seq(Writes) /\ Sorted(ws) /\ WritesOf(ws) \in {{}, {u, v}, {u, v, w}}
  <2>1. CASE disk.runs[r] = "none"
    BY <2>1, NoWrites DEF record_run_terminal_status
  <2>2. CASE disk.runs[r] # "none" /\ disk.coreRuns[r] = "none"
    <3>1. ws = save_run(r, status) \o <<>>
      BY <2>2 DEF record_run_terminal_status
    <3>2. save_run(r, status) \in Seq(Writes)
      BY SaveRun
    <3>3. ws = save_run(r, status)
      BY <3>1, <3>2
    <3> QED BY <3>3, SaveRun
  <2>3. CASE disk.runs[r] # "none" /\ disk.coreRuns[r] # "none"
    <3>1. ws = save_run(r, status) \o <<w>>
      BY <2>3 DEF record_run_terminal_status
    <3> QED BY <3>1, RunAndCopy
  <2> QED BY <2>1, <2>2, <2>3
<1>3. Shows(d, {u, v}, "runs", v) /\ Shows(d, {u, v, w}, "runs", v)
      /\ Shows(d, {u, v, w}, "runs", w) /\ Shows(d, {u, v, w}, "runIndex", w)
  BY <1>1 DEF Shows
<1> HIDE DEF ws, u, v, w
<1>4. /\ RunWritesMayBeDone(d, {}) /\ RunWritesMayBeDone(d, {u, v})
      /\ RunWritesMayBeDone(d, {u, v, w})
  BY <1>1, <1>3 DEF RunWritesMayBeDone, Ends
<1>5. \A x \in WritesOf(ws) : x.file \in RunFile /\ x.key = r /\ x.value = status
  BY <1>1, <1>2 DEF RunFile
<1>6. RunWritesMayBeDone(d, WritesOf(ws))
  BY <1>2, <1>4
<1> QED BY <1>2, <1>5, <1>6 DEF ws

LEMMA FinishKeepsIInv ==
  ASSUME IInv, todo = <<>>, mem.phase \in Consuming, NEW status \in Ends, Finishes(status)
  PROVE  IInv'
<1> DEFINE ws == record_run_terminal_status(mem.run, status)
           done == IF HasRecords(mem.run)
                     THEN [mem EXCEPT !.phase = "idle", !.run = None, !.session = None]
                     ELSE At("stranded")
           failed == At("stranded")
<1>1. Does(ws, done, failed, dropped)
  BY DEF Finishes
<1>2. /\ mem \in Memories /\ MemoryFits(mem) /\ Consumes(disk, mem, {}) /\ disk \in Disks
      /\ mem.run \in Runs
  BY DEF IInv, TypeInv, Settled, MemoryFits, Memories
<1>3. disk.runIndex[mem.run] \notin Ends /\ disk.coreRuns[mem.run] \notin Ends
  BY <1>2 DEF Consumes
<1>4. /\ ws \in Seq(Writes) /\ Sorted(ws)
      /\ \A w \in WritesOf(ws) : w.file \in RunFile /\ w.key = mem.run /\ w.value = status
      /\ RunWritesMayBeDone(disk, WritesOf(ws))
  BY <1>2, <1>3, RecordsOfTheEnd
<1>5. /\ done \in Memories /\ done.phase \in {"idle", "stranded"} /\ done.mine = mem.mine
      /\ done.run \in {None, mem.run} /\ done.selected = mem.selected
      /\ done.session \in {None, mem.session}
  BY <1>2 DEF Memories, Phases, At
<1>6. /\ failed \in Memories /\ failed.phase \in {"idle", "stranded"} /\ failed.mine = mem.mine
      /\ failed.run \in {None, mem.run} /\ failed.selected = mem.selected
      /\ failed.session \in {None, mem.session}
  BY <1>2 DEF Memories, Phases, At
<1> HIDE DEF ws, done, failed
<1>7. /\ MemoryFits(done) /\ MemoryFits(failed)
      /\ Consumes(disk, done, WritesOf(ws)) /\ Consumes(disk, failed, WritesOf(ws))
  BY <1>5, <1>6 DEF MemoryFits, Consumes, Consuming
<1>8. OneSubject(WritesOf(ws)) /\ RequestWritesMayBeDone(disk, WritesOf(ws))
  BY <1>4 DEF OneSubject, RequestWritesMayBeDone, RunFile, RequestFile
<1>9. /\ \A w \in WritesOf(ws) : w.file \in RunFile \cup RequestFile
      /\ \A w \in WritesOf(ws) : w.value \in {"running", "open"} => w.key \in mem.mine
  BY <1>4 DEF Ends
<1>10. mem.phase \notin {"off", "recovering"}
  BY DEF Consuming
<1> QED BY <1>1, <1>4, <1>5, <1>6, <1>7, <1>8, <1>9, <1>10, RunOperation

LEMMA TurnEndsKeepsIInv ==
  ASSUME IInv, TurnEnds
  PROVE  IInv'
BY FinishKeepsIInv DEF TurnEnds, Ready, Consuming

LEMMA StopKeepsIInv ==
  ASSUME IInv, Stop
  PROVE  IInv'
BY FinishKeepsIInv DEF Stop, Ready, Consuming, Ends

LEMMA PausesKeepsIInv ==
  ASSUME IInv, Pauses
  PROVE  IInv'
<1> DEFINE r == mem.run
           v == W("pending", r, "open")
           w == W("corePending", r, "open")
           ws == IF disk.runs[r] = "none" \/ mem.session \notin disk.sessions THEN <<>> ELSE <<v, w>>
           m == At("paused")
<1>1. /\ todo = <<>> /\ mem.phase = "running" /\ disk.pending[r] = "none"
      /\ Does(ws, m, m, dropped)
  BY DEF Pauses, Ready
<1>2. /\ mem \in Memories /\ MemoryFits(mem) /\ Consumes(disk, mem, {}) /\ disk \in Disks
      /\ r \in Runs /\ r \in mem.mine
  BY <1>1 DEF IInv, TypeInv, Settled, MemoryFits, Memories, Consuming
<1>3. disk.corePending[r] = "none"
  BY <1>1, <1>2 DEF IInv, Stored, StoredRequests
<1>4. /\ v.file = "pending" /\ w.file = "corePending" /\ v.key = r /\ w.key = r
      /\ v.value = "open" /\ w.value = "open" /\ v \in Writes /\ w \in Writes
  BY <1>2, WritesAreRecords, RequestWritesAreWrites
<1>5. ws \in Seq(Writes) /\ Sorted(ws) /\ WritesOf(ws) \in {{}, {v, w}}
  <2>1. FileRank(v.file) < FileRank(w.file)
    BY <1>4, FileRanks
  <2>2. CASE ws = <<>>
    BY <2>2, NoWrites
  <2>3. CASE ws = <<v, w>>
    BY <1>4, <2>1, <2>3, TwoWrites
  <2> QED BY <2>2, <2>3
<1>6. /\ m \in Memories /\ m.phase = "paused" /\ m.mine = mem.mine /\ m.run = r
      /\ m.selected = mem.selected /\ m.session = mem.session
  BY <1>2 DEF Memories, Phases, At
<1>7. Shows(disk, {v, w}, "pending", w)
  BY <1>4 DEF Shows
<1> HIDE DEF v, w, ws, m, r
<1>8. OneSubject(WritesOf(ws)) /\ RunWritesMayBeDone(disk, WritesOf(ws))
  BY <1>4, <1>5 DEF OneSubject, RunWritesMayBeDone, RunFile, RequestFile
<1>9. RequestWritesMayBeDone(disk, WritesOf(ws))
  BY <1>1, <1>3, <1>4, <1>5, <1>7 DEF RequestWritesMayBeDone, Closed
<1>10. MemoryFits(m)
  BY <1>1, <1>2, <1>6 DEF MemoryFits, Consuming, r
<1>11. \A x \in WritesOf(ws) : x.file \in RequestFile /\ x.key = r /\ x.value = "open"
  BY <1>4, <1>5 DEF RequestFile
<1>12. Consumes(disk, m, WritesOf(ws))
  <2>1. disk.runIndex[r] \notin Ends /\ disk.coreRuns[r] \notin Ends
    BY <1>1, <1>2 DEF Consumes, Consuming, r
  <2>2. \A x \in WritesOf(ws) : x.file \notin RunFile
    BY <1>11 DEF RunFile, RequestFile
  <2> QED BY <1>1, <1>3, <1>6, <1>11, <2>1, <2>2 DEF Consumes, Closed
<1>13. /\ \A x \in WritesOf(ws) : x.file \in RunFile \cup RequestFile
       /\ \A x \in WritesOf(ws) : x.value \in {"running", "open"} => x.key \in mem.mine
       /\ m.run \in {None, mem.run} /\ m.session \in {None, mem.session}
       /\ mem.phase \notin {"off", "recovering"}
  BY <1>1, <1>2, <1>6, <1>11 DEF r
<1> QED BY <1>1, <1>5, <1>6, <1>8, <1>9, <1>10, <1>12, <1>13, RunOperation

LEMMA AnswerKeepsIInv ==
  ASSUME IInv, Answer
  PROVE  IInv'
<1> DEFINE r == mem.run
           v == W("pending", r, "resolved")
           w == W("corePending", r, "resolved")
           ws == close_pending_request(r)
           done == IF disk.pending[r] # "none" /\ disk.corePending[r] # "none"
                     THEN At("running") ELSE At("stuck")
           failed == At("stuck")
<1>1. todo = <<>> /\ mem.phase = "paused" /\ Does(ws, done, failed, dropped)
  BY DEF Answer, Ready
<1>2. /\ mem \in Memories /\ MemoryFits(mem) /\ Consumes(disk, mem, {}) /\ disk \in Disks
      /\ r \in Runs
  BY <1>1 DEF IInv, TypeInv, Settled, MemoryFits, Memories, Consuming
<1>3. /\ disk.pending[r] \notin Closed /\ disk.corePending[r] \notin Closed
      /\ disk.runIndex[r] \notin Ends /\ disk.coreRuns[r] \notin Ends
  BY <1>1, <1>2 DEF Consumes, Consuming
<1>4. /\ v.file = "pending" /\ w.file = "corePending" /\ v.key = r /\ w.key = r
      /\ v.value = "resolved" /\ w.value = "resolved" /\ v \in Writes /\ w \in Writes
  BY <1>2, WritesAreRecords, RequestWritesAreWrites
<1>5. ws \in Seq(Writes) /\ Sorted(ws) /\ WritesOf(ws) \in {{}, {v}, {v, w}}
  <2>1. FileRank(v.file) < FileRank(w.file)
    BY <1>4, FileRanks
  <2>2. CASE ws = <<>>
    BY <2>2, NoWrites
  <2>3. CASE ws = <<v>>
    BY <1>4, <2>3, OneWrite
  <2>4. CASE ws = <<v>> \o <<w>>
    <3> DEFINE vs == <<v>>
    <3>1. vs \in Seq(Writes) /\ Sorted(vs) /\ WritesOf(vs) = {v}
      BY <1>4, OneWrite
    <3> HIDE DEF vs
    <3>2. \A u \in WritesOf(vs) : FileRank(u.file) < FileRank(w.file)
      BY <2>1, <3>1
    <3>3. vs \o <<w>> \in Seq(Writes) /\ Sorted(vs \o <<w>>) /\ WritesOf(vs \o <<w>>) = {v} \cup {w}
      BY <1>4, <3>1, <3>2, ThreeWrites
    <3>4. ws = vs \o <<w>>
      BY <2>4 DEF vs
    <3> HIDE DEF ws
    <3>5. {v} \cup {w} = {v, w}
      OBVIOUS
    <3> QED BY <3>3, <3>4, <3>5
  <2>5. ws \in {<<>>, <<v>>, <<v>> \o <<w>>}
    <3>1. \A a : <<a>> \o <<>> = <<a>>
      OBVIOUS
    <3> QED BY <3>1 DEF close_pending_request
  <2> HIDE DEF ws
  <2> QED BY <2>2, <2>3, <2>4, <2>5
<1>6. /\ done \in Memories /\ done.phase \in {"running", "stuck"} /\ done.mine = mem.mine
      /\ done.run = mem.run /\ done.selected = mem.selected /\ done.session = mem.session
  BY <1>2 DEF Memories, Phases, At
<1>7. /\ failed \in Memories /\ failed.phase = "stuck" /\ failed.mine = mem.mine
      /\ failed.run = mem.run /\ failed.selected = mem.selected /\ failed.session = mem.session
  BY <1>2 DEF Memories, Phases, At
<1>8. Shows(disk, {v, w}, "pending", w)
  BY <1>4 DEF Shows
<1> HIDE DEF v, w, ws, done, failed
<1>9. OneSubject(WritesOf(ws)) /\ RunWritesMayBeDone(disk, WritesOf(ws))
  BY <1>4, <1>5 DEF OneSubject, RunWritesMayBeDone, RunFile, RequestFile
<1>10. RequestWritesMayBeDone(disk, WritesOf(ws))
  BY <1>3, <1>4, <1>5, <1>8 DEF RequestWritesMayBeDone, Closed
<1>11. MemoryFits(done) /\ MemoryFits(failed)
  BY <1>1, <1>2, <1>6, <1>7 DEF MemoryFits, Consuming
<1>12. \A x \in WritesOf(ws) : x.file \in RequestFile /\ x.file \notin RunFile /\ x.value = "resolved"
  BY <1>4, <1>5 DEF RequestFile, RunFile
<1>13. Consumes(disk, done, WritesOf(ws)) /\ Consumes(disk, failed, WritesOf(ws))
  BY <1>3, <1>6, <1>7, <1>12 DEF Consumes
<1>14. /\ \A x \in WritesOf(ws) : x.file \in RunFile \cup RequestFile
       /\ \A x \in WritesOf(ws) : x.value \in {"running", "open"} => x.key \in mem.mine
       /\ mem.phase \notin {"off", "recovering"}
  BY <1>1, <1>12
<1> QED BY <1>1, <1>5, <1>6, <1>7, <1>9, <1>10, <1>11, <1>13, <1>14, RunOperation

LEMMA StartTurnKeepsIInv ==
  ASSUME IInv, StartTurn
  PROVE  IInv'
<1>1. PICK r \in UnusedRuns :
        /\ todo = <<>> /\ mem.phase = "starting"
        /\ todo' = (IF mem.session \in disk.sessions THEN save_session(mem.session) ELSE <<>>)
                     \o record_run_created(r)
        /\ mem' = [mem EXCEPT !.run = r, !.mine = @ \cup {r}]
        /\ then' = [done |-> [mem' EXCEPT !.phase = "running"], failed |-> GivesUp(mem'),
                    dropped |-> dropped]
        /\ UNCHANGED <<disk, dropped, crashes, failures>>
  BY DEF StartTurn, Ready
<1> DEFINE s == mem.session
           m == [mem EXCEPT !.run = r, !.mine = @ \cup {r}]
           done == [m EXCEPT !.phase = "running"]
           failed == GivesUp(m)
           th == [done |-> done, failed |-> failed, dropped |-> dropped]
           us == IF s \in disk.sessions THEN save_session(s) ELSE <<>>
           vs == record_run_created(r)
           ws == us \o vs
           L == WritesOf(ws)
<1>2. mem' = m /\ then' = th /\ todo' = ws
  BY <1>1
<1>3. /\ mem \in Memories /\ Settled(disk, mem, dropped) /\ MemoryFits(mem)
      /\ dropped \in SUBSET Sessions /\ disk \in Disks /\ None \notin dropped /\ None \notin Runs
      /\ s \in Sessions /\ s # None /\ s \in Saved(disk) /\ mem.selected \notin dropped
  BY <1>1, RunFilesAssumption DEF IInv, TypeInv, Settled, MemoryFits, Memories
<1>4. r \in Runs /\ disk.runs[r] = "none" /\ disk.runIndex[r] = "none" /\ disk.coreRuns[r] = "none"
  BY <1>1 DEF UnusedRuns, IInv, Stored, StoredRuns
<1>5. /\ us \in Seq(Writes) /\ Sorted(us)
      /\ \A w \in WritesOf(us) : w.file \in {"sessions", "index"}
  <2>1. CASE s \in disk.sessions
    <3>1. WritesOf(us) = {W("sessions", s, "saved"), W("index", s, "saved")}
      BY <1>3, <2>1, SaveSession
    <3> QED BY <1>3, <2>1, <3>1, SaveSession, WritesAreRecords
  <2>2. CASE s \notin disk.sessions
    BY <2>2, NoWrites
  <2> QED BY <2>1, <2>2
<1>6. /\ vs \in Seq(Writes) /\ Sorted(vs) /\ vs # <<>>
      /\ WritesOf(vs) = {W("runs", r, "running"), W("runIndex", r, "running"), W("coreRuns", r, "running")}
  BY <1>4, RunAndCopy DEF record_run_created
<1>7. /\ m \in Memories /\ m.phase = "starting" /\ m.run = r /\ m.session = s
      /\ m.selected = mem.selected
      /\ m.mine = mem.mine \cup {r}
  BY <1>1, <1>3, <1>4 DEF Memories
<1> HIDE DEF m
<1>8. /\ done \in Memories /\ done.phase = "running" /\ done.run = r /\ done.session = s
      /\ done.selected = mem.selected /\ done.mine = m.mine
  BY <1>7 DEF Memories, Phases
<1>9. /\ failed \in Memories /\ MemoryFits(failed) /\ failed.mine = m.mine
      /\ failed.selected = mem.selected /\ failed.phase # "starting"
      /\ failed.run \in {None, m.run} /\ failed.session \in {None, s}
      /\ \A e, K : Consumes(e, failed, K)
  BY <1>7, GivingUp
<1>10. th.done = done /\ th.failed = failed /\ th.dropped = dropped
  OBVIOUS
<1>11. th \in Thens
  BY <1>3, <1>8, <1>9 DEF Thens
<1> HIDE DEF done, failed, th, us, vs
<1>12. \A w \in WritesOf(vs) : w.file \in RunFile /\ w.key = r /\ w.value = "running"
  BY <1>6, WritesAreRecords DEF RunFile
<1>13. /\ ws \in Seq(Writes) /\ Sorted(ws) /\ L = WritesOf(us) \cup WritesOf(vs)
       /\ ws # <<>>
  <2>1. \A v \in WritesOf(us), w \in WritesOf(vs) : FileRank(v.file) < FileRank(w.file)
    BY <1>5, <1>12, FileRanks DEF RunFile
  <2> QED BY <1>5, <1>6, <2>1, TwoParts
<1> HIDE DEF ws, L, s
<1>14. \A w \in L : \/ w.file \in {"sessions", "index"}
                    \/ w.file \in RunFile /\ w.key = r /\ w.value = "running"
  BY <1>5, <1>12, <1>13
<1>15. OneSubject(L) /\ RequestWritesMayBeDone(disk, L)
  BY <1>14 DEF OneSubject, RequestWritesMayBeDone, RunFile, RequestFile
<1>16. RunWritesMayBeDone(disk, L)
  <2>1. \A w \in L : w.file = "runIndex" => Shows(disk, L, "runs", w)
    BY <1>6, <1>13, <1>14 DEF Shows, RunFile
  <2>2. \A w \in L : w.file = "coreRuns" => Shows(disk, L, "runs", w) /\ Shows(disk, L, "runIndex", w)
    BY <1>6, <1>13, <1>14 DEF Shows, RunFile
  <2>3. \A w \in L : w.file \in RunFile =>
          disk.coreRuns[w.key] = "none" /\ disk.runIndex[w.key] = "none"
    BY <1>4, <1>14 DEF RunFile
  <2> QED BY <2>1, <2>2, <2>3 DEF RunWritesMayBeDone, Ends, RunFile
<1>17. SessionWritesMayBeDone(disk, L, th, dropped)
  BY <1>14 DEF SessionWritesMayBeDone, RunFile
<1>18. MemoryFits(m) /\ MemoryFits(done)
  BY <1>3, <1>4, <1>7, <1>8 DEF MemoryFits, Consuming
<1>19. LeadsOn(m, th)
  BY <1>3, <1>7, <1>8, <1>9, <1>10, <1>18 DEF LeadsOn
<1>20. MineLeadsOn(L, m, th)
  <2>1. \A w \in L : w.file \in RunFile => w.key = r
    BY <1>14 DEF RunFile
  <2>2. \A w \in L : w.file \in {"sessions", "index"} => w.value = "saved"
    BY <1>13, WritesAreRecords DEF WritesOf, L
  <2> QED BY <1>7, <1>8, <1>9, <1>10, <1>14, <2>1, <2>2 DEF MineLeadsOn
<1>21. SessionsLeadOn(disk, L, th, dropped)
  BY <1>3, <1>8, <1>9, <1>10 DEF SessionsLeadOn, Settled, WillBeSaved, Saved
<1>22. Consumes(disk, done, L)
  BY <1>4, <1>8, <1>14 DEF Consumes, RunFile, Ends
<1>23. Pending(disk, L, m, th, dropped)
  BY <1>9, <1>10, <1>15, <1>16, <1>17, <1>19, <1>20, <1>21, <1>22 DEF Pending
<1>24. Settled(disk, m, dropped)
  BY <1>1, <1>3, <1>7, <1>18 DEF Settled
<1>25. Pending(disk, WritesOf(ws), m, th, dropped)
  BY <1>23 DEF L
<1> QED BY <1>1, <1>2, <1>3, <1>7, <1>11, <1>13, <1>24, <1>25 DEF IInv, TypeInv

-----------------------------------------------------------------------------
(* The invariant, and what follows from it. *)

LEMMA InitIInv ==
  ASSUME Init
  PROVE  IInv
<1>1. /\ disk \in Disks /\ disk.coreSessions = {} /\ disk.binding = None
      /\ \A r \in Runs : /\ disk.runs[r] = "none" /\ disk.runIndex[r] = "none"
                         /\ disk.coreRuns[r] = "none" /\ disk.pending[r] = "none"
                         /\ disk.corePending[r] = "none"
  BY DEF Init, Disks, RunStatus, RequestStatus
<1>2. /\ todo = <<>> /\ then = NoThen /\ mem = Off /\ dropped = {} /\ crashes = 0 /\ failures = 0
  BY DEF Init
<1>3. Stored(disk)
  BY <1>1 DEF Stored, StoredRuns, StoredRequests, StoredSessions
<1>4. /\ Off \in Memories /\ NoThen \in Thens
      /\ Settled(disk, Off, dropped) /\ Consumes(disk, Off, {})
  BY <1>2, <1>3, OffIsSettled
<1>5. crashes \in 0 .. MaxCrashes /\ failures \in 0 .. MaxFailures
  BY <1>2, RunFilesAssumption
<1> QED BY <1>1, <1>2, <1>3, <1>4, <1>5, NoWrites DEF IInv, TypeInv

LEMMA NextIInv ==
  ASSUME IInv, [Next]_vars
  PROVE  IInv'
<1>1. CASE Next
  BY <1>1, WriteKeepsIInv, WriteRaisesKeepsIInv, CrashKeepsIInv, StartKeepsIInv,
     RecoverRunKeepsIInv, RecoverPendingKeepsIInv, RecoverCoreRunKeepsIInv,
     RecoverCorePendingKeepsIInv, RecoveryEndsKeepsIInv, ClearSelectedSessionKeepsIInv,
     ResetSessionKeepsIInv, ResumeSessionKeepsIInv, TextKeepsIInv, CreateSessionKeepsIInv,
     RecordSessionKeepsIInv, AgentRefusesKeepsIInv, ThreadNotFoundKeepsIInv, StartTurnKeepsIInv,
     TurnEndsKeepsIInv, HandsOverKeepsIInv, PausesKeepsIInv, AnswerKeepsIInv, StopKeepsIInv
     DEF Next
<1>2. CASE UNCHANGED vars
  BY <1>2 DEF vars, IInv, TypeInv
<1> QED BY <1>1, <1>2

THEOREM FilesInvariant == Spec => []IInv
<1>1. Init => IInv
  BY InitIInv
<1>2. IInv /\ [Next]_vars => IInv'
  BY NextIInv
<1> QED BY <1>1, <1>2, PTL DEF Spec

(* TypeOK. *)
THEOREM FilesTypeCorrect == Spec => []TypeOK
<1>1. IInv => TypeOK
  <2> SUFFICES ASSUME IInv PROVE TypeOK
    OBVIOUS
  <2>1. disk \in Disks /\ mem \in Memories /\ MemoryFits(mem)
    BY DEF IInv, TypeInv, Settled
  <2>2. /\ dropped \subseteq Sessions
        /\ crashes \in 0 .. MaxCrashes /\ failures \in 0 .. MaxFailures
    BY DEF IInv, TypeInv
  <2> QED BY <2>1, <2>2 DEF TypeOK, Disks, Memories, MemoryFits, Consuming
<1> QED BY <1>1, FilesInvariant, PTL

(* Whatever the crashes, once a start has recovered, the files show no run *)
(* as running and no request as open that is not of this process.          *)
THEOREM RecoveryLeavesNothing == Spec => []NothingIsLeftBehind
<1>1. IInv => NothingIsLeftBehind
  BY DEF IInv, Settled, NothingIsLeftBehind, OpenRuns, Incomplete, OpenRequests
<1> QED BY <1>1, FilesInvariant, PTL

(* The second copy of a run or a request never says more than the store.   *)
THEOREM CopiesAgree == Spec => []CopiesAgreeOnEnds
<1>1. IInv => CopiesAgreeOnEnds
  BY DEF IInv, Stored, StoredRuns, StoredRequests, CopiesAgreeOnEnds
<1> QED BY <1>1, FilesInvariant, PTL

(* A session that a turn may be run in has its file and its index entry.   *)
THEOREM SessionsAreStored == Spec => []UsableSessionsAreStored
<1>1. IInv => UsableSessionsAreStored
  BY DEF IInv, Stored, StoredSessions, Settled, Saved, UsableSessionsAreStored
<1> QED BY <1>1, FilesInvariant, PTL

(* No start, recovery or late write reopens what was closed on disk. *)
THEOREM ClosedFilesStayClosed == Spec => ClosedStaysClosed
<1> DEFINE Kept ==
      \A r \in Runs :
        /\ disk.runIndex[r] \in Ends => disk'.runIndex[r] = disk.runIndex[r]
        /\ disk.coreRuns[r] \in Ends => disk'.coreRuns[r] = disk.coreRuns[r]
        /\ disk.pending[r] \in {"resolved", "cancelled"} => disk'.pending[r] = disk.pending[r]
        /\ disk.corePending[r] \in {"resolved", "cancelled"} =>
             disk'.corePending[r] = disk.corePending[r]
<1>1. ASSUME IInv, write_json_atomic PROVE Kept
  <2> DEFINE w == Head(todo)
             L == WritesOf(todo)
  <2>1. todo # <<>> /\ disk' = Put(disk, w)
    BY <1>1 DEF write_json_atomic
  <2>2. DoneNext(disk, L, w)
    BY <1>1, <2>1, NextWrite DEF IInv, TypeInv, DoneNext
  <2>3. /\ disk \in Disks /\ then \in Thens /\ None \notin Sessions
        /\ Stored(disk) /\ Settled(disk, mem, dropped) /\ Pending(disk, L, mem, then, dropped)
    BY <1>1, <2>1, RunFilesAssumption DEF IInv, TypeInv
  <2> HIDE DEF w, L
  <2>4. KeepsClosed(disk, Put(disk, w))
    BY <2>2, <2>3, WriteKeepsPending
  <2> QED BY <2>1, <2>4 DEF Closed, KeepsClosed
<1>2. ASSUME Next, ~ write_json_atomic PROVE disk' = disk
  BY <1>2 DEF Next, WriteRaises, Crash, Start, RecoverRun, RecoverPending, RecoverCoreRun,
     RecoverCorePending, Recovers, RecoveryEnds, ClearSelectedSession, ResetSession, ResumeSession,
     Text, CreateSession, RecordSession, AgentRefuses, ThreadNotFound, StartTurn, TurnEnds,
     HandsOver, Pauses, Answer, Stop, Finishes, Does
<1>3. IInv /\ [Next]_vars => [Kept]_vars
  <2> SUFFICES ASSUME IInv, Next PROVE Kept
    BY DEF vars
  <2>1. CASE write_json_atomic
    BY <2>1, <1>1
  <2>2. CASE ~ write_json_atomic
    BY <2>2, <1>2
  <2> QED BY <2>1, <2>2
<1>4. [][Kept]_vars => ClosedStaysClosed
  BY DEF ClosedStaysClosed
<1> HIDE DEF Kept
<1> QED BY <1>3, <1>4, FilesInvariant, PTL DEF Spec

(* No turn is given a session that its owner has left and not resumed. *)
THEOREM LeftSessionsStayLeft == Spec => LeftSessionIsNotReused
<1> DEFINE NotReused == mem.phase \notin Given /\ mem'.phase \in Given => mem'.session \notin dropped'
<1>1. ASSUME IInv, Next, mem.phase \notin Given, mem'.phase \in Given
      PROVE  mem'.session = mem'.selected
  <2>1. mem \in Memories /\ MemoryFits(mem)'
    BY <1>1, NextIInv DEF IInv, TypeInv, Settled
  <2>2. CASE todo # <<>>
    <3>1. write_json_atomic \/ WriteRaises
      <4>1. ~ Crash
        BY <1>1 DEF Crash, Off, Given
      <4>2. ~ (Start \/ RecoverRun \/ RecoverPending \/ RecoverCoreRun
               \/ RecoverCorePending \/ RecoveryEnds)
        BY <2>2 DEF Start, RecoverRun, RecoverPending, RecoverCoreRun, RecoverCorePending,
           Recovers, RecoveryEnds, Ready
      <4>3. ~ (ClearSelectedSession \/ ResetSession \/ ResumeSession \/ Text \/ CreateSession
               \/ RecordSession \/ AgentRefuses \/ ThreadNotFound \/ StartTurn)
        BY <2>2 DEF ClearSelectedSession, ResetSession, ResumeSession, Text, CreateSession,
           RecordSession, AgentRefuses, ThreadNotFound, StartTurn, Ready
      <4>4. ~ (TurnEnds \/ HandsOver \/ Pauses \/ Answer \/ Stop)
        BY <2>2 DEF TurnEnds, HandsOver, Pauses, Answer, Stop, Ready
      <4> QED BY <1>1, <4>1, <4>2, <4>3, <4>4 DEF Next
    <3>3. mem' \in {mem, then.done, then.failed}
      BY <3>1 DEF write_json_atomic, WriteRaises
    <3>2. mem'.phase # "starting"
      BY <1>1, <2>2, <3>3 DEF IInv, Pending, LeadsOn, Given
    <3> QED BY <1>1, <2>1, <3>2 DEF MemoryFits, Given
  <2>3. CASE todo = <<>>
    <3>1. ~ write_json_atomic /\ ~ WriteRaises
      BY <2>3 DEF write_json_atomic, WriteRaises
    <3>2. ~ (Crash \/ Start \/ RecoverRun \/ RecoverPending \/ RecoverCoreRun \/ RecoverCorePending
             \/ RecoveryEnds)
      BY <1>1, <2>1 DEF Crash, Off, Start, RecoverRun, RecoverPending, RecoverCoreRun,
         RecoverCorePending, Recovers, RecoveryEnds, At, Does, Given, Memories
    <3>3. ~ (ClearSelectedSession \/ ResetSession \/ ResumeSession)
      BY <1>1, <2>1 DEF ClearSelectedSession, ResetSession, ResumeSession, Ready, Does, Given, Memories
    <3>4. ~ (AgentRefuses \/ ThreadNotFound \/ RecordSession \/ StartTurn)
      BY <1>1, <2>1, GivingUp DEF AgentRefuses, ThreadNotFound, RecordSession, StartTurn, Ready, At, Given,
         Memories
    <3>5. ~ (TurnEnds \/ Pauses \/ Answer \/ Stop)
      BY <1>1, <2>1 DEF TurnEnds, Pauses, Answer, Stop, Finishes, Ready, At, Does, Given, Memories
    <3>6. CASE CreateSession
      <4>1. PICK s \in Sessions : mem' \in {mem, Takes(s)}
        BY <3>6 DEF CreateSession, Does
      <4> QED BY <1>1, <2>1, <4>1 DEF Takes, Memories
    <3>7. CASE Text \/ HandsOver
      <4>1. PICK p \in Purposes : mem' = SessionForNewTurn([mem EXCEPT !.purpose = p])
        BY <3>7 DEF Text, HandsOver, Purposes
      <4>2. /\ [mem EXCEPT !.purpose = p] \in Memories
            /\ [mem EXCEPT !.purpose = p].selected = mem.selected
        BY <2>1, <4>1 DEF Memories
      <4> QED BY <1>1, <4>1, <4>2, ChoosesSession DEF Given
    <3> QED BY <1>1, <3>1, <3>2, <3>3, <3>4, <3>5, <3>6, <3>7 DEF Next
  <2> QED BY <2>2, <2>3
<1>2. IInv /\ [Next]_vars => [NotReused]_vars
  <2> SUFFICES ASSUME IInv, Next PROVE NotReused
    BY DEF vars
  <2>1. mem'.selected \notin dropped'
    BY NextIInv DEF IInv, Settled
  <2> QED BY <1>1, <2>1
<1>3. [][NotReused]_vars => LeftSessionIsNotReused
  BY DEF LeftSessionIsNotReused
<1> HIDE DEF NotReused
<1> QED BY <1>2, <1>3, FilesInvariant, PTL DEF Spec
=============================================================================
