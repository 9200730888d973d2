----------------------------- MODULE CodexProofs -----------------------------
(***************************************************************************)
(* Theorems about CodexTurns, for any number of turns, events and          *)
(* occurrences: all the properties that TLC checks in the instance.        *)
(*                                                                         *)
(* An event about a turn is its number in what was sent about that turn.   *)
(* Between the server and the consumer it is in one of four lists: the     *)
(* wire, the client's queue, the early events of its turn, or the queue of *)
(* its turn.  The invariant says that these hold exactly the numbers that  *)
(* were sent and not heard, in order, however the lists are shared with    *)
(* other turns and with messages that name no turn.  What the request      *)
(* table holds of a turn that can still be answered is then exactly what   *)
(* its owner has been shown or will be.                                    *)
(***************************************************************************)
EXTENDS CodexTurns, SequenceTheorems, TLAPS

\* Messages that become no event, beside those that name no turn.
Silent == {"reply", "refusal", "garbage", "malformed", "retrying"}
Concerns(x, t) == x.kind \notin Silent /\ x.of = t

\* The numbers of the events about turn t in a list, and that they ascend.
Nrs(s, t) == {s[i].nr : i \in {j \in 1 .. Len(s) : Concerns(s[j], t)}}
Ascending(s, t) ==
  \A i, j \in 1 .. Len(s) : i < j /\ Concerns(s[i], t) /\ Concerns(s[j], t) => s[i].nr < s[j].nr
Below(A, B) == \A a \in A, b \in B : a < b

-----------------------------------------------------------------------------
(* Types, and what events and messages may be.                             *)

\* An event is the one with its number among those sent about its turn; one
\* that names no turn is usage, or the failure an error of the thread stands for.
IsKnown(e) ==
  IF e.of = NoTurn THEN e.kind = "usage" \/ (e.kind = "failed" /\ threadError)
  ELSE e.nr \in 1 .. Len(sent[e.of]) /\ e = sent[e.of][e.nr]
Told(U) == {e \in AgentEvents : e.of \in U /\ IsKnown(e)}
Notices == {m \in Messages : m.kind \notin Silent => IsKnown(Event(m))}
Listened == {m \in Notices : m.kind \notin {"reply", "refusal", "garbage"}}

TypeInv ==
  /\ reader \in {"up", "down", "dead"} /\ listener \in BOOLEAN /\ alive \in BOOLEAN
  /\ calls \subseteq Calls /\ owed \subseteq Calls /\ replies \subseteq Calls \X BOOLEAN
  /\ registered \subseteq Turns /\ threadTurn \in Turns \union {NoTurn}
  /\ requests \in Seq([name : Requests, kind : RequestKinds])
  /\ status \in [Turns -> Statuses]
  /\ shown \in [Turns -> [name : Requests, kind : RequestKinds] \union {NoRequest}]
  /\ result \in [Turns -> {"none"} \union TerminalKinds]
  /\ stopped \in [Turns -> {"no", "owner", "idle"}]
  /\ running \subseteq Turns /\ outcome \in [Turns -> {"none"} \union TerminalKinds]
  /\ asked \in [Requests -> {"no", "open", "answered", "withdrawn"}]
  /\ sent \in [Turns -> Seq(AgentEvents)] /\ heard \in [Turns -> Seq(AgentEvents)]
  /\ threadError \in BOOLEAN /\ happened \in 0 .. MaxOccurs

ListsInv ==
  /\ incoming \in Seq(Listened) /\ wire \in Seq(Notices)
  /\ queue \in [Turns -> Seq(AgentEvents)]
  /\ early \in [Turns \union {NoTurn} -> Seq(AgentEvents)]
  /\ \A t \in Turns : queue[t] \in Seq(Told({t, NoTurn}))
  /\ \A t \in Turns \union {NoTurn} : early[t] \in Seq(Told({t}))

\* What the server has sent about turn t: numbered, only numbers that requests
\* have are requests, and its last event is terminal once it has ended the turn.
SentInv(t) ==
  /\ \A n \in 1 .. Len(sent[t]) :
       LET e == sent[t][n] IN
         /\ e.of = t /\ e.nr = n
         /\ e.kind \in RequestKinds => n \in 1 .. MaxEvents
         /\ e.kind \in TerminalKinds => e.kind = outcome[t]
  /\ t \in running \/ status[t] = "none" => outcome[t] = "none"
  /\ t \in running => status[t] # "none"
  /\ outcome[t] # "none" =>
       Len(sent[t]) > 0 /\ sent[t][Len(sent[t])].kind \in TerminalKinds

-----------------------------------------------------------------------------
(* The way of the events.                                                  *)

OnWay(t) == Nrs(queue[t], t) \union Nrs(early[t], t) \union Nrs(incoming, t) \union Nrs(wire, t)
InOrder(t) ==
  /\ Ascending(queue[t], t) /\ Ascending(early[t], t)
  /\ Ascending(incoming, t) /\ Ascending(wire, t)
  /\ Below(Nrs(queue[t], t), Nrs(early[t], t))
  /\ Below(Nrs(queue[t], t) \union Nrs(early[t], t), Nrs(incoming, t))
  /\ Below(Nrs(queue[t], t) \union Nrs(early[t], t) \union Nrs(incoming, t), Nrs(wire, t))
WayInv(t) ==
  /\ InOrder(t)
  /\ OnWay(t) = (Len(heard[t]) + 1) .. Len(sent[t])
  /\ Len(heard[t]) <= Len(sent[t])
  /\ \A i \in 1 .. Len(heard[t]) : heard[t][i] = sent[t][i]

\* Where a turn's events are at each stage of its stream.
StageInv(t) ==
  /\ status[t] \in {"none", "starting", "raised"} =>
       t \notin registered /\ queue[t] = <<>> /\ heard[t] = <<>>
  /\ t \in registered => early[t] = <<>>
  /\ status[t] \in {"open", "paused"} =>
       /\ t \in registered
       /\ \A i \in 1 .. Len(heard[t]) : heard[t][i].kind \notin TerminalKinds
  /\ result[t] \notin {"none", outcome[t]} => result[t] = "failed" /\ threadError

-----------------------------------------------------------------------------
(* The request table.                                                      *)

\* Turns whose owner is or may be shown a request.
Asking(t) == status[t] = "paused" \/ (status[t] \in {"none", "starting", "open"} /\ stopped[t] = "no")
RequestOf(t, n) == [name |-> <<t, n>>, kind |-> sent[t][n].kind]

\* A request of the turn that has reached the router.
Routed(r, t) ==
  /\ r.name[2] \in 1 .. Len(sent[t]) /\ r = RequestOf(t, r.name[2])
  /\ Below({r.name[2]}, Nrs(incoming, t) \union Nrs(wire, t))

TableInv(t) ==
  /\ \A i \in 1 .. Len(requests) : requests[i].name[1] = t => Routed(requests[i], t)
  /\ \A i, j \in 1 .. Len(requests) :
       i < j /\ requests[i].name[1] = t /\ requests[j].name[1] = t
         => requests[i].name[2] < requests[j].name[2]
\* A paused turn has been shown the request it has heard last.
ShownInv(t) ==
  status[t] = "paused" => Len(heard[t]) > 0 /\ shown[t] = RequestOf(t, Len(heard[t]))
\* The requests of an asking turn are the one it is shown and later ones.
LaterInv(t) ==
  Asking(t) =>
    \A i \in 1 .. Len(requests) : requests[i].name[1] = t =>
      requests[i].name[2] > Len(heard[t]) \/ (status[t] = "paused" /\ requests[i] = shown[t])
\* Every request that is routed and not answered can be taken from the table.
KeptInv(t) ==
  alive =>
    /\ \A n \in Nrs(queue[t], t) \union Nrs(early[t], t) :
         sent[t][n].kind \in RequestKinds =>
           \E i \in 1 .. Len(requests) : requests[i] = RequestOf(t, n)
    /\ status[t] = "paused" => \E i \in 1 .. Len(requests) : requests[i] = shown[t]
AskingInv(t) == ShownInv(t) /\ LaterInv(t) /\ KeptInv(t)

\* The invariant, an inductive one.
Inv ==
  /\ TypeInv /\ ListsInv
  /\ \A t \in Turns : SentInv(t) /\ WayInv(t) /\ StageInv(t) /\ TableInv(t) /\ AskingInv(t)

-----------------------------------------------------------------------------
(* Lists.                                                                  *)

One(x, t) == IF Concerns(x, t) THEN {x.nr} ELSE {}

LEMMA EmptyList == \A t : Nrs(<<>>, t) = {} /\ Ascending(<<>>, t)
<1>1. Len(<<>>) = 0
  BY EmptySeq
<1> QED BY <1>1 DEF Nrs, Ascending

LEMMA ConcatList ==
  ASSUME NEW S, NEW a \in Seq(S), NEW b \in Seq(S), NEW t
  PROVE  /\ Nrs(a \o b, t) = Nrs(a, t) \union Nrs(b, t)
         /\ Ascending(a, t) /\ Ascending(b, t) /\ Below(Nrs(a, t), Nrs(b, t))
              => Ascending(a \o b, t)
<1> DEFINE c == a \o b
<1>1. c \in Seq(S) /\ Len(c) = Len(a) + Len(b)
  BY ConcatProperties
<1>2. \A i \in 1 .. Len(a) + Len(b) : c[i] = IF i <= Len(a) THEN a[i] ELSE b[i - Len(a)]
  BY ConcatProperties
<1>3. Len(a) \in Nat /\ Len(b) \in Nat
  BY LenProperties
<1>4. \A i \in 1 .. Len(a) : i \in 1 .. Len(c) /\ c[i] = a[i]
  BY <1>1, <1>2, <1>3
<1>5. \A j \in 1 .. Len(b) : Len(a) + j \in 1 .. Len(c) /\ c[Len(a) + j] = b[j]
  BY <1>1, <1>2, <1>3
<1>6. \A i \in 1 .. Len(c) : (i \in 1 .. Len(a) /\ c[i] = a[i])
                             \/ (i - Len(a) \in 1 .. Len(b) /\ c[i] = b[i - Len(a)])
  BY <1>1, <1>2, <1>3
<1>7. \A n \in Nrs(c, t) : n \in Nrs(a, t) \union Nrs(b, t)
  BY <1>1, <1>6 DEF Nrs, Ascending
<1>8. \A n \in Nrs(a, t) \union Nrs(b, t) : n \in Nrs(c, t)
  <2>1. \A n \in Nrs(a, t) : n \in Nrs(c, t)
    BY <1>1, <1>4 DEF Nrs, Ascending
  <2>2. \A n \in Nrs(b, t) : n \in Nrs(c, t)
    BY <1>1, <1>5 DEF Nrs, Ascending
  <2> QED BY <2>1, <2>2
<1>9. ASSUME Ascending(a, t), Ascending(b, t), Below(Nrs(a, t), Nrs(b, t))
      PROVE  Ascending(c, t)
  <2> SUFFICES ASSUME NEW i \in 1 .. Len(c), NEW j \in 1 .. Len(c), i < j,
                      Concerns(c[i], t), Concerns(c[j], t)
               PROVE  c[i].nr < c[j].nr
    BY <1>1 DEF Nrs, Ascending
  <2>1. CASE j \in 1 .. Len(a)
    <3>1. i \in 1 .. Len(a)
      BY <2>1, <1>3
    <3> QED BY <2>1, <3>1, <1>4, <1>9 DEF Nrs, Ascending
  <2>2. CASE j - Len(a) \in 1 .. Len(b) /\ c[j] = b[j - Len(a)]
    <3>1. CASE i \in 1 .. Len(a)
      <4>1. c[i].nr \in Nrs(a, t) /\ c[j].nr \in Nrs(b, t)
        BY <2>2, <3>1, <1>4 DEF Nrs, Ascending
      <4> QED BY <4>1, <1>9 DEF Below
    <3>2. CASE i - Len(a) \in 1 .. Len(b) /\ c[i] = b[i - Len(a)]
      <4>1. i - Len(a) < j - Len(a)
        BY <1>1, <1>3
      <4> QED BY <4>1, <2>2, <3>2, <1>9 DEF Nrs, Ascending
    <3> QED BY <3>1, <3>2, <1>6
  <2> QED BY <2>1, <2>2, <1>6
<1> QED BY <1>7, <1>8, <1>9

LEMMA AppendList ==
  ASSUME NEW S, NEW s \in Seq(S), NEW e \in S, NEW t
  PROVE  /\ Nrs(Append(s, e), t) = Nrs(s, t) \union One(e, t)
         /\ Ascending(s, t) /\ Below(Nrs(s, t), One(e, t)) => Ascending(Append(s, e), t)
<1>1. <<e>> \in Seq(S) /\ Len(<<e>>) = 1 /\ <<e>>[1] = e
  OBVIOUS
<1>2. Nrs(<<e>>, t) = One(e, t)
  <2>1. \A n \in Nrs(<<e>>, t) : n \in One(e, t)
    BY <1>1 DEF Nrs, Ascending, One
  <2>2. \A n \in One(e, t) : n \in Nrs(<<e>>, t)
    BY <1>1 DEF Nrs, Ascending, One
  <2> QED BY <2>1, <2>2
<1>3. Ascending(<<e>>, t)
  BY <1>1 DEF Nrs, Ascending
<1>4. Append(s, e) = s \o <<e>>
  BY AppendIsConcat
<1>5. /\ Nrs(s \o <<e>>, t) = Nrs(s, t) \union Nrs(<<e>>, t)
      /\ Ascending(s, t) /\ Ascending(<<e>>, t) /\ Below(Nrs(s, t), Nrs(<<e>>, t))
           => Ascending(s \o <<e>>, t)
  BY <1>1, ConcatList
<1> QED BY <1>2, <1>3, <1>4, <1>5

LEMMA TailList ==
  ASSUME NEW S, NEW s \in Seq(S), s # <<>>, NEW t
  PROVE  /\ Nrs(s, t) = One(Head(s), t) \union Nrs(Tail(s), t)
         /\ Ascending(s, t) => Ascending(Tail(s), t) /\ Below(One(Head(s), t), Nrs(Tail(s), t))
<1> DEFINE r == Tail(s)
<1>1. /\ r \in Seq(S) /\ Len(r) = Len(s) - 1 /\ Head(s) = s[1]
      /\ \A i \in 1 .. Len(r) : r[i] = s[i + 1]
  BY HeadTailProperties
<1>2. Len(s) \in Nat /\ Len(s) > 0
  BY EmptySeq, LenProperties
<1>3. \A i \in 1 .. Len(r) : i + 1 \in 1 .. Len(s) /\ 1 < i + 1 /\ 1 \in 1 .. Len(s)
  BY <1>1, <1>2
<1>4. \A i \in 1 .. Len(s) : i = 1 \/ (i - 1 \in 1 .. Len(r) /\ r[i - 1] = s[i])
  BY <1>1, <1>2
<1>5. \A n \in Nrs(s, t) : n \in One(Head(s), t) \union Nrs(r, t)
  BY <1>1, <1>4 DEF Nrs, Ascending, One
<1>6. \A n \in One(Head(s), t) \union Nrs(r, t) : n \in Nrs(s, t)
  <2>1. \A n \in One(Head(s), t) : n \in Nrs(s, t)
    BY <1>1, <1>2 DEF Nrs, Ascending, One
  <2>2. \A n \in Nrs(r, t) : n \in Nrs(s, t)
    BY <1>1, <1>3 DEF Nrs, Ascending
  <2> QED BY <2>1, <2>2
<1>7. ASSUME Ascending(s, t) PROVE Ascending(r, t)
  <2>1. \A i, j \in 1 .. Len(r) : i < j => i + 1 < j + 1
    BY <1>1, <1>2
  <2> QED BY <2>1, <1>1, <1>3, <1>7 DEF Nrs, Ascending
<1>8. ASSUME Ascending(s, t) PROVE Below(One(Head(s), t), Nrs(r, t))
  <2> SUFFICES ASSUME Concerns(Head(s), t), NEW n \in Nrs(r, t) PROVE Head(s).nr < n
    BY DEF Below, One
  <2>1. PICK i \in 1 .. Len(r) : Concerns(r[i], t) /\ r[i].nr = n
    BY <1>1 DEF Nrs, Ascending
  <2> QED BY <2>1, <1>1, <1>3, <1>8 DEF Nrs, Ascending
<1> QED BY <1>5, <1>6, <1>7, <1>8

-----------------------------------------------------------------------------
(* Events and messages.                                                    *)

LEMMA EventOfMessage ==
  ASSUME NEW m \in Messages, m.kind \notin Silent
  PROVE  /\ Event(m) \in AgentEvents /\ Event(m).of = m.of /\ Event(m).nr = m.nr
         /\ m.of \in Turns \union {NoTurn} /\ m.nr \in Nat
         /\ Event(m).kind = EventKind(m) /\ Event(m).kind \notin Silent
         /\ \A t : Concerns(Event(m), t) <=> Concerns(m, t)
         /\ \A t : One(Event(m), t) = One(m, t)
<1>1. m \in [kind : {"item", "tokenUsage", "requestUserInput", "requestApproval", "error", "retrying",
                      "turnCompleted", "turnInterrupted", "turnFailed", "malformed", "garbage"},
              of : Turns \union {NoTurn}, nr : Nat]
  BY DEF Messages, Silent
<1>2. EventKind(m) \in {"content", "usage"} \union RequestKinds \union TerminalKinds
  BY <1>1 DEF Silent, EventKind, RequestKinds, TerminalKinds
<1>3. EventKind(m) \notin Silent
  BY <1>2 DEF Silent, RequestKinds, TerminalKinds
<1>4. Event(m) \in AgentEvents /\ Event(m).of = m.of /\ Event(m).nr = m.nr
      /\ Event(m).kind = EventKind(m)
  BY <1>1, <1>2 DEF Event, AgentEvents
<1>5. \A t : Concerns(Event(m), t) <=> Concerns(m, t)
  BY <1>3, <1>4 DEF Concerns
<1> QED BY <1>1, <1>3, <1>4, <1>5 DEF One

LEMMA EventsAreNotSilent ==
  ASSUME NEW e \in AgentEvents
  PROVE  /\ e.kind \notin Silent /\ \A t : Concerns(e, t) <=> e.of = t
         /\ e.of \in Turns \union {NoTurn} /\ e.nr \in Nat
         /\ e.kind \in {"content", "usage"} \union RequestKinds \union TerminalKinds
BY DEF AgentEvents, Silent, RequestKinds, TerminalKinds, Concerns

LEMMA NoTurnIsNoTurn == NoTurn \notin Turns
BY DEF NoTurn, Turns

\* What was known stays known: the accounts and threadError only grow.
SentGrows ==
  /\ threadError => threadError'
  /\ \A t \in Turns :
       /\ Len(sent[t]) \in Nat /\ Len(sent'[t]) \in Nat /\ Len(sent[t]) <= Len(sent'[t])
       /\ \A n \in 1 .. Len(sent[t]) : sent'[t][n] = sent[t][n]

LEMMA KnownStays ==
  ASSUME SentGrows, NEW e \in AgentEvents, IsKnown(e)
  PROVE  IsKnown(e)'
<1>1. CASE e.of = NoTurn
  BY <1>1 DEF IsKnown, SentGrows
<1>2. CASE e.of # NoTurn
  <2>1. e.of \in Turns
    BY <1>2, EventsAreNotSilent
  <2> QED BY <1>2, <2>1 DEF IsKnown, SentGrows
<1> QED BY <1>1, <1>2

LEMMA NoticesStay ==
  ASSUME SentGrows
  PROVE  Notices \subseteq Notices' /\ Listened \subseteq Listened'
         /\ \A U : Told(U) \subseteq Told(U)'
<1>1. ASSUME NEW m \in Notices PROVE m \in Notices'
  <2>1. CASE m.kind \in Silent
    BY <2>1 DEF Notices
  <2>2. CASE m.kind \notin Silent
    <3>1. Event(m) \in AgentEvents /\ IsKnown(Event(m))
      BY <2>2, EventOfMessage DEF Notices
    <3>2. IsKnown(Event(m))'
      BY <3>1, KnownStays DEF Event, EventKind
    <3> QED BY <2>2, <3>2 DEF Notices
  <2> QED BY <2>1, <2>2
<1>2. ASSUME NEW U, NEW e \in Told(U) PROVE e \in Told(U)'
  BY KnownStays DEF Told
<1> QED BY <1>1, <1>2 DEF Listened

\* The lists keep their types when only the accounts grow.
LEMMA ListsStay ==
  ASSUME SentGrows
  PROVE  /\ \A s \in Seq(Notices) : s \in Seq(Notices')
         /\ \A s \in Seq(Listened) : s \in Seq(Listened')
         /\ \A U : \A s \in Seq(Told(U)) : s \in Seq(Told(U)')
BY NoticesStay, SeqMonotonic

LEMMA SentKept == ASSUME TypeInv, UNCHANGED <<sent, threadError>> PROVE SentGrows
BY LenProperties DEF TypeInv, SentGrows

\* The first event of a turn's queue.
LEMMA FirstOfQueue ==
  ASSUME TypeInv, ListsInv, NEW t \in Turns, SentInv(t), queue[t] # <<>>
  PROVE  LET e == Head(queue[t]) IN
           /\ Tail(queue[t]) \in Seq(Told({t, NoTurn})) /\ Tail(queue[t]) \in Seq(AgentEvents)
           /\ e \in AgentEvents /\ e.of \in {t, NoTurn} /\ IsKnown(e)
           /\ e.of = t => e.nr \in 1 .. Len(sent[t]) /\ e = sent[t][e.nr]
           /\ e.of = NoTurn => e.kind \notin RequestKinds
           /\ e.kind \in RequestKinds => <<e.of, e.nr>> \in Requests
<1> DEFINE e == Head(queue[t])
<1>1. queue[t] \in Seq(Told({t, NoTurn}))
  BY DEF ListsInv
<1>2. e \in Told({t, NoTurn}) /\ Tail(queue[t]) \in Seq(Told({t, NoTurn}))
  BY <1>1, HeadTailProperties
<1>3. Tail(queue[t]) \in Seq(AgentEvents)
  BY <1>2, SeqMonotonic DEF Told
<1>4. e \in AgentEvents /\ e.of \in {t, NoTurn} /\ IsKnown(e)
  BY <1>2 DEF Told
<1>5. e.of = t => e.nr \in 1 .. Len(sent[t]) /\ e = sent[t][e.nr]
  BY <1>4, NoTurnIsNoTurn DEF IsKnown
<1>6. e.of = NoTurn => e.kind \notin RequestKinds
  BY <1>4 DEF IsKnown, RequestKinds
<1>7. e.kind \in RequestKinds => <<e.of, e.nr>> \in Requests
  BY <1>4, <1>5, <1>6 DEF SentInv, Requests
<1> QED BY <1>2, <1>3, <1>4, <1>5, <1>6, <1>7

\* The first message the listener takes.
LEMMA FirstListened ==
  ASSUME TypeInv, ListsInv, \A t \in Turns : SentInv(t), incoming # <<>>
  PROVE  LET m == Head(incoming)
             e == Event(m) IN
           /\ Tail(incoming) \in Seq(Listened) /\ m \in Messages
           /\ m.kind \notin {"malformed", "retrying"} =>
                /\ m.kind \notin Silent /\ e \in Told({m.of}) /\ m.of \in Turns \union {NoTurn}
                /\ m.of # NoTurn => m.nr \in 1 .. Len(sent[m.of]) /\ e = sent[m.of][m.nr]
                /\ e.kind \in RequestKinds => m.of # NoTurn /\ <<m.of, m.nr>> \in Requests
<1> DEFINE m == Head(incoming)
           e == Event(m)
<1>1. m \in Listened /\ Tail(incoming) \in Seq(Listened)
  BY HeadTailProperties DEF ListsInv
<1>2. m \in Messages
  BY <1>1 DEF Listened, Notices
<1>3. ASSUME m.kind \notin {"malformed", "retrying"}
      PROVE  /\ m.kind \notin Silent /\ e \in Told({m.of}) /\ m.of \in Turns \union {NoTurn}
             /\ m.of # NoTurn => m.nr \in 1 .. Len(sent[m.of]) /\ e = sent[m.of][m.nr]
             /\ e.kind \in RequestKinds => m.of # NoTurn /\ <<m.of, m.nr>> \in Requests
  <2>1. m.kind \notin Silent
    BY <1>1, <1>3 DEF Listened, Silent
  <2>2. IsKnown(e)
    BY <1>1, <2>1 DEF Listened, Notices
  <2>3. e \in AgentEvents /\ e.of = m.of /\ e.nr = m.nr /\ m.of \in Turns \union {NoTurn}
    BY <1>2, <2>1, EventOfMessage
  <2>4. m.of # NoTurn => m.nr \in 1 .. Len(sent[m.of]) /\ e = sent[m.of][m.nr]
    BY <2>2, <2>3 DEF IsKnown
  <2>5. e.kind \in RequestKinds => m.of # NoTurn
    BY <2>2, <2>3 DEF IsKnown, RequestKinds
  <2>6. e.kind \in RequestKinds => <<m.of, m.nr>> \in Requests
    BY <2>3, <2>4, <2>5 DEF SentInv, Requests
  <2> QED BY <2>1, <2>2, <2>3, <2>4, <2>5, <2>6 DEF Told
<1> QED BY <1>1, <1>2, <1>3

-----------------------------------------------------------------------------
(* What the server sends.                                                  *)

\* A message, or two at once, with the next numbers about turn t.
AreNext(t, messages) ==
  /\ messages \in Seq(Messages) /\ Len(messages) > 0
  /\ \A i \in 1 .. Len(messages) :
       messages[i].kind \notin Silent /\ messages[i].of = t /\ messages[i].nr = Len(sent[t]) + i

LEMMA NextMessage ==
  ASSUME NEW t \in Turns, NEW k \in {"item", "requestUserInput", "requestApproval", "error",
                                     "turnCompleted", "turnInterrupted", "turnFailed"},
         NEW n \in Nat
  PROVE  LET m == Message(k, t, n) IN
           m \in Messages /\ m.kind = k /\ m.of = t /\ m.nr = n /\ m.kind \notin Silent
BY DEF Message, Messages, Silent

LEMMA OneIsNext ==
  ASSUME TypeInv, NEW t \in Turns,
         NEW k \in {"item", "requestUserInput", "requestApproval", "turnCompleted",
                    "turnInterrupted", "turnFailed"}
  PROVE  AreNext(t, <<Message(k, t, NextNr(t))>>)
<1>1. Len(sent[t]) \in Nat /\ NextNr(t) = Len(sent[t]) + 1
  BY LenProperties DEF TypeInv, NextNr
<1> DEFINE m == Message(k, t, NextNr(t))
<1>2. m \in Messages /\ m.of = t /\ m.nr = Len(sent[t]) + 1 /\ m.kind \notin Silent
  BY <1>1, NextMessage
<1> HIDE DEF m
<1>3. <<m>> \in Seq(Messages) /\ Len(<<m>>) = 1 /\ <<m>>[1] = m
  BY <1>2
<1> QED BY <1>2, <1>3 DEF AreNext, m

LEMMA TwoAreNext ==
  ASSUME TypeInv, NEW t \in Turns
  PROVE  AreNext(t, <<Message("error", t, NextNr(t)), Message("turnFailed", t, NextNr(t) + 1)>>)
<1>1. Len(sent[t]) \in Nat /\ NextNr(t) = Len(sent[t]) + 1
  BY LenProperties DEF TypeInv, NextNr
<1> DEFINE m == Message("error", t, NextNr(t))
           n == Message("turnFailed", t, NextNr(t) + 1)
<1>2. m \in Messages /\ m.of = t /\ m.nr = Len(sent[t]) + 1 /\ m.kind \notin Silent
  BY <1>1, NextMessage
<1>3. n \in Messages /\ n.of = t /\ n.nr = Len(sent[t]) + 2 /\ n.kind \notin Silent
  BY <1>1, NextMessage
<1> HIDE DEF m, n
<1>4. /\ <<m, n>> \in Seq(Messages) /\ Len(<<m, n>>) = 2
      /\ <<m, n>>[1] = m /\ <<m, n>>[2] = n
  BY <1>2, <1>3
<1>5. \A i \in 1 .. 2 : i = 1 \/ i = 2
  OBVIOUS
<1> QED BY <1>2, <1>3, <1>4, <1>5 DEF AreNext, m, n

\* What Send does to the account of the turn.
LEMMA Sending ==
  ASSUME TypeInv, NEW t \in Turns, NEW messages, AreNext(t, messages), Send(t, messages)
  PROVE  /\ sent' \in [Turns -> Seq(AgentEvents)]
         /\ \A u \in Turns : u # t => sent'[u] = sent[u]
         /\ Len(sent'[t]) = Len(sent[t]) + Len(messages)
         /\ \A n \in 1 .. Len(sent[t]) : sent'[t][n] = sent[t][n]
         /\ \A i \in 1 .. Len(messages) : sent'[t][Len(sent[t]) + i] = Event(messages[i])
         /\ Len(messages) \in Nat \ {0} /\ Len(sent[t]) \in Nat
         /\ SentGrows
<1> DEFINE events == [i \in DOMAIN messages |-> Event(messages[i])]
<1>1. DOMAIN messages = 1 .. Len(messages) /\ Len(messages) \in Nat \ {0}
  BY LenProperties DEF AreNext
<1>2. \A i \in 1 .. Len(messages) : Event(messages[i]) \in AgentEvents
  BY EventOfMessage, ElementOfSeq DEF AreNext
<1>3. events \in [1 .. Len(messages) -> AgentEvents]
  BY <1>1, <1>2
<1>4. events \in Seq(AgentEvents)
  BY <1>1, <1>3
<1>5. Len(events) = Len(messages)
  BY <1>1, <1>3, <1>4
<1>6. sent[t] \in Seq(AgentEvents) /\ sent' = [sent EXCEPT ![t] = sent[t] \o events]
  BY DEF TypeInv, Send
<1>7. /\ sent[t] \o events \in Seq(AgentEvents)
      /\ Len(sent[t] \o events) = Len(sent[t]) + Len(messages)
      /\ \A i \in 1 .. Len(sent[t]) + Len(messages) :
           (sent[t] \o events)[i] = IF i <= Len(sent[t]) THEN sent[t][i] ELSE events[i - Len(sent[t])]
  <2> HIDE DEF events
  <2>1. sent[t] \in Seq(AgentEvents) /\ events \in Seq(AgentEvents)
    BY <1>4, <1>6
  <2>2. /\ sent[t] \o events \in Seq(AgentEvents)
        /\ Len(sent[t] \o events) = Len(sent[t]) + Len(events)
        /\ \A i \in 1 .. Len(sent[t]) + Len(events) :
             (sent[t] \o events)[i] = IF i <= Len(sent[t]) THEN sent[t][i]
                                      ELSE events[i - Len(sent[t])]
    BY <2>1, ConcatProperties
  <2> QED BY <1>5, <2>2
<1>8. sent'[t] = sent[t] \o events /\ \A u \in Turns : u # t => sent'[u] = sent[u]
  BY <1>6 DEF TypeInv
<1>9. sent' \in [Turns -> Seq(AgentEvents)]
  BY <1>6, <1>7 DEF TypeInv
<1>10. \A u \in Turns : Len(sent[u]) \in Nat
  BY LenProperties DEF TypeInv
<1> HIDE DEF events
<1>11. \A n \in 1 .. Len(sent[t]) : sent'[t][n] = sent[t][n]
  BY <1>1, <1>7, <1>8, <1>10
<1>12. \A i \in 1 .. Len(messages) : sent'[t][Len(sent[t]) + i] = events[i]
  BY <1>1, <1>7, <1>8, <1>10
<1>13. \A i \in 1 .. Len(messages) : events[i] = Event(messages[i])
  BY <1>1 DEF events
<1>14. SentGrows
  <2>1. Len(sent[t]) <= Len(sent'[t])
    BY <1>1, <1>7, <1>8, <1>10
  <2>2. Len(sent'[t]) \in Nat
    BY <1>1, <1>7, <1>8, <1>10
  <2>3. threadError => threadError'
    BY DEF Send
  <2> QED BY <1>8, <1>10, <1>11, <2>1, <2>2, <2>3 DEF SentGrows
<1> QED BY <1>1, <1>7, <1>8, <1>9, <1>10, <1>11, <1>12, <1>13, <1>14

\* The actions that send about a turn, and what they send.
Sends(t) ==
  \/ ServerWrites(t)
  \/ \E what \in {"requestUserInput", "requestApproval"} : ServerAsks(t, what)
  \/ \E how \in TerminalKinds : ServerEnds(t, how)

LEMMA Sent ==
  ASSUME TypeInv, NEW t \in Turns, Sends(t)
  PROVE  \E messages :
           /\ AreNext(t, messages) /\ Send(t, messages) /\ t \in running
           /\ \/ /\ UNCHANGED <<running, outcome>>
                 /\ \A i \in 1 .. Len(messages) :
                      /\ EventKind(messages[i]) \notin TerminalKinds
                      /\ Len(sent[t]) + i \in 1 .. MaxEvents
              \/ /\ running' = running \ {t}
                 /\ \E how \in TerminalKinds :
                      /\ outcome' = [outcome EXCEPT ![t] = how]
                      /\ \A i \in 1 .. Len(messages) : EventKind(messages[i]) = how
<1>0. Len(sent[t]) \in Nat
  BY LenProperties DEF TypeInv
<1>1. CASE ServerWrites(t)
  <2> DEFINE m == Message("item", t, NextNr(t))
  <2>1. AreNext(t, <<m>>) /\ Send(t, <<m>>) /\ t \in running /\ UNCHANGED <<running, outcome>>
    BY <1>1, OneIsNext DEF ServerWrites, Working
  <2>2. Len(sent[t]) + 1 \in 1 .. MaxEvents
    BY <1>1, <1>0, CodexAssumption DEF ServerWrites, NextNr
  <2>3. EventKind(m) \notin TerminalKinds
    BY DEF EventKind, Message, TerminalKinds
  <2>4. \A i \in 1 .. Len(<<m>>) : i = 1 /\ <<m>>[i] = m
    OBVIOUS
  <2> QED BY <2>1, <2>2, <2>3, <2>4
<1>2. ASSUME NEW what \in {"requestUserInput", "requestApproval"}, ServerAsks(t, what)
      PROVE  \E messages : /\ AreNext(t, messages) /\ Send(t, messages) /\ t \in running
                           /\ UNCHANGED <<running, outcome>>
                           /\ \A i \in 1 .. Len(messages) :
                                /\ EventKind(messages[i]) \notin TerminalKinds
                                /\ Len(sent[t]) + i \in 1 .. MaxEvents
  <2> DEFINE m == Message(what, t, NextNr(t))
  <2>1. AreNext(t, <<m>>) /\ Send(t, <<m>>) /\ t \in running /\ UNCHANGED <<running, outcome>>
    BY <1>2, OneIsNext DEF ServerAsks, Working
  <2>2. Len(sent[t]) + 1 \in 1 .. MaxEvents
    BY <1>2, <1>0, CodexAssumption DEF ServerAsks, NextNr
  <2>3. EventKind(m) \notin TerminalKinds
    BY DEF EventKind, Message, TerminalKinds
  <2>4. \A i \in 1 .. Len(<<m>>) : i = 1 /\ <<m>>[i] = m
    OBVIOUS
  <2> QED BY <2>1, <2>2, <2>3, <2>4
<1>3. ASSUME NEW how \in TerminalKinds, ServerEnds(t, how)
      PROVE  \E messages : /\ AreNext(t, messages) /\ Send(t, messages) /\ t \in running
                           /\ running' = running \ {t}
                           /\ outcome' = [outcome EXCEPT ![t] = how]
                           /\ \A i \in 1 .. Len(messages) : EventKind(messages[i]) = how
  <2>1. PICK ending \in Endings(t, how) : Send(t, ending)
    BY <1>3 DEF ServerEnds
  <2>2. t \in running /\ running' = running \ {t} /\ outcome' = [outcome EXCEPT ![t] = how]
    BY <1>3 DEF ServerEnds, Working
  <2>3. AreNext(t, ending) /\ \A i \in 1 .. Len(ending) : EventKind(ending[i]) = how
    <3>1. \/ \E k \in {"turnCompleted", "turnInterrupted", "turnFailed"} :
               ending = <<Message(k, t, NextNr(t))>> /\ EventKind(Message(k, t, NextNr(t))) = how
          \/ /\ ending = <<Message("error", t, NextNr(t)), Message("turnFailed", t, NextNr(t) + 1)>>
             /\ EventKind(Message("error", t, NextNr(t))) = how
             /\ EventKind(Message("turnFailed", t, NextNr(t) + 1)) = how
      BY DEF Endings, EventKind, Message, TerminalKinds
    <3>2. ASSUME NEW k \in {"turnCompleted", "turnInterrupted", "turnFailed"},
                 ending = <<Message(k, t, NextNr(t))>>, EventKind(Message(k, t, NextNr(t))) = how
          PROVE  AreNext(t, ending) /\ \A i \in 1 .. Len(ending) : EventKind(ending[i]) = how
      <4>1. AreNext(t, ending)
        BY <3>2, OneIsNext
      <4>2. \A i \in 1 .. Len(ending) : ending[i] = Message(k, t, NextNr(t))
        BY <3>2
      <4> QED BY <3>2, <4>1, <4>2
    <3>3. ASSUME ending = <<Message("error", t, NextNr(t)), Message("turnFailed", t, NextNr(t) + 1)>>,
                 EventKind(Message("error", t, NextNr(t))) = how,
                 EventKind(Message("turnFailed", t, NextNr(t) + 1)) = how
          PROVE  AreNext(t, ending) /\ \A i \in 1 .. Len(ending) : EventKind(ending[i]) = how
      <4>1. AreNext(t, ending)
        BY <3>3, TwoAreNext
      <4>2. \A i \in 1 .. Len(ending) :
              ending[i] \in {Message("error", t, NextNr(t)), Message("turnFailed", t, NextNr(t) + 1)}
        BY <3>3
      <4> QED BY <3>3, <4>1, <4>2
    <3> QED BY <3>1, <3>2, <3>3
  <2> QED BY <2>1, <2>2, <2>3
<1>4. CASE \E what \in {"requestUserInput", "requestApproval"} : ServerAsks(t, what)
  <2>1. PICK what \in {"requestUserInput", "requestApproval"} : ServerAsks(t, what)
    BY <1>4
  <2> QED BY <2>1, <1>2
<1>5. CASE \E how \in TerminalKinds : ServerEnds(t, how)
  <2>1. PICK how \in TerminalKinds : ServerEnds(t, how)
    BY <1>5
  <2> QED BY <2>1, <1>3
<1> QED BY <1>1, <1>4, <1>5 DEF Sends

-----------------------------------------------------------------------------
(* The kinds of step, by what they do to the lists.                        *)

\* Calls, replies and decisions: no list of events changes.
Decides(t) ==
  \/ StartTurn(t) \/ WriteRaises(t) \/ TurnRefused(t)
  \/ Answer(t) \/ AnswerUnsupported(t)
  \/ Stop(t, "owner") \/ Stop(t, "idle") \/ Stopped(t, TRUE) \/ Stopped(t, FALSE)
Quiet == ReadEnd \/ ServerExits \/ \E t \in Turns : Decides(t)

\* A message that is about no turn, or becomes no event.
Announces ==
  \/ \E what \in {"tokenUsage", "error", "retrying", "malformed", "garbage"} : ServerSays(what)
  \/ \E t \in Turns : \/ ServerRefuses(t)
                      \/ ServerReplies(<<"start", t>>) \/ ServerReplies(<<"interrupt", t>>)

LEMMA StepKinds ==
  ASSUME Next
  PROVE  \/ Read \/ Listen \/ Quiet \/ Announces
         \/ \E t \in Turns : TurnStarted(t) \/ TakeEvent(t) \/ TakeTerminal(t) \/ Sends(t)
<1>1. CASE ReadEnd \/ ServerExits
  BY <1>1 DEF Quiet
<1>2. CASE \E what \in {"tokenUsage", "error", "retrying", "malformed", "garbage"} : ServerSays(what)
  BY <1>2 DEF Announces
<1>3. ASSUME NEW t \in Turns, TurnNext(t)
      PROVE  Quiet \/ TurnStarted(t) \/ TakeEvent(t) \/ TakeTerminal(t)
  BY <1>3 DEF TurnNext, Quiet, Decides
<1>4. ASSUME NEW t \in Turns, ServerNext(t)
      PROVE  Announces \/ Sends(t)
  BY <1>4 DEF ServerNext, Announces, Sends
<1> QED BY <1>1, <1>2, <1>3, <1>4 DEF Next

LEMMA QuietKeeps ==
  ASSUME Quiet
  PROVE  UNCHANGED <<incoming, wire, queue, early, registered, sent, heard, threadError, outcome>>
<1>1. ASSUME NEW t \in Turns, Decides(t)
      PROVE  UNCHANGED <<incoming, wire, queue, early, registered, sent, heard, threadError, outcome>>
  <2>1. CASE StartTurn(t)
    BY <2>1 DEF StartTurn, request, routerVars, history
  <2>2. CASE WriteRaises(t)
    BY <2>2 DEF WriteRaises, clientVars, routerVars, serverVars, history
  <2>3. CASE TurnRefused(t)
    BY <2>3 DEF TurnRefused, Returns, routerVars, serverVars, history
  <2>4. CASE Answer(t)
    BY <2>4 DEF Answer, clientVars, history
  <2>5. CASE AnswerUnsupported(t)
    BY <2>5 DEF AnswerUnsupported, vars, clientVars, routerVars, turnVars, serverVars, history
  <2>6. CASE Stop(t, "owner") \/ Stop(t, "idle")
    BY <2>6 DEF Stop, request, routerVars
  <2>7. CASE Stopped(t, TRUE) \/ Stopped(t, FALSE)
    BY <2>7 DEF Stopped, Returns, routerVars, serverVars, history
  <2> QED BY <1>1, <2>1, <2>2, <2>3, <2>4, <2>5, <2>6, <2>7 DEF Decides
<1>2. CASE ReadEnd
  BY <1>2 DEF ReadEnd, routerVars, serverVars, history
<1>3. CASE ServerExits
  BY <1>3 DEF ServerExits, clientVars, routerVars
<1> QED BY <1>1, <1>2, <1>3 DEF Quiet

LEMMA Announced ==
  ASSUME TypeInv, Announces
  PROVE  /\ UNCHANGED <<incoming, queue, early, registered, requests, sent, heard, status, shown,
                        stopped, alive, result, outcome>>
         /\ running' \subseteq running /\ (threadError => threadError') /\ threadError' \in BOOLEAN
         /\ \E m \in Messages : /\ wire' = Append(wire, m)
                                /\ m.kind \notin Silent => m.of = NoTurn /\ IsKnown(Event(m))'
<1>1. ASSUME NEW what \in {"tokenUsage", "error", "retrying", "malformed", "garbage"}, ServerSays(what)
      PROVE  /\ UNCHANGED <<incoming, queue, early, registered, requests, sent, heard, status, shown,
                            stopped, alive, result, outcome, running>>
             /\ threadError' = (threadError \/ what = "error")
             /\ \E m \in Messages : /\ wire' = Append(wire, m)
                                    /\ m.kind \notin Silent => m.of = NoTurn /\ IsKnown(Event(m))'
  <2>1. PICK t \in IF what = "retrying" THEN running ELSE {NoTurn} :
          wire' = Append(wire, Message(what, t, 0))
    BY <1>1 DEF ServerSays
  <2> DEFINE m == Message(what, t, 0)
  <2>2. UNCHANGED <<incoming, queue, early, registered, requests, sent, heard, status, shown,
                    stopped, alive, result, outcome, running>>
    BY <1>1 DEF ServerSays, clientVars, routerVars, turnVars
  <2>3. threadError' = (threadError \/ what = "error")
    BY <1>1 DEF ServerSays
  <2>4. t \in Turns \union {NoTurn} /\ (what # "retrying" => t = NoTurn)
    BY DEF TypeInv
  <2>5. m \in Messages /\ m.kind = what /\ m.of = t /\ m.nr = 0
    BY <2>4 DEF Message, Messages
  <2>6. ASSUME m.kind \notin Silent
        PROVE  m.of = NoTurn /\ IsKnown(Event(m))'
    <3>1. what \in {"tokenUsage", "error"} /\ m.of = NoTurn
      BY <2>4, <2>5, <2>6 DEF Silent
    <3>2. Event(m).of = NoTurn /\ Event(m).kind = IF what = "error" THEN "failed" ELSE "usage"
      BY <2>5, <3>1 DEF Event, EventKind
    <3>3. IsKnown(Event(m))' <=> Event(m).kind = "usage" \/ (Event(m).kind = "failed" /\ threadError')
      BY <3>2 DEF IsKnown, Event, EventKind
    <3> QED BY <2>3, <3>1, <3>2, <3>3
  <2> HIDE DEF m
  <2> QED BY <2>1, <2>2, <2>3, <2>5, <2>6 DEF m
<1>2. ASSUME NEW t \in Turns,
             ServerRefuses(t) \/ ServerReplies(<<"start", t>>) \/ ServerReplies(<<"interrupt", t>>)
      PROVE  /\ UNCHANGED <<incoming, queue, early, registered, requests, sent, heard, status, shown,
                            stopped, alive, result, outcome, threadError>>
             /\ running' \subseteq running
             /\ \E m \in Messages : wire' = Append(wire, m) /\ m.kind \in Silent
  <2>1. /\ UNCHANGED <<incoming, queue, early, registered, requests, sent, heard, status, shown,
                       stopped, alive, result, outcome, threadError>>
        /\ running' \subseteq running
    BY <1>2 DEF ServerRefuses, ServerReplies, clientVars, routerVars, turnVars, history
  <2>2. \E c \in Calls, k \in {"reply", "refusal"} : wire' = Append(wire, [kind |-> k, to |-> c])
    BY <1>2 DEF ServerRefuses, ServerReplies, Calls
  <2>3. PICK c \in Calls, k \in {"reply", "refusal"} : wire' = Append(wire, [kind |-> k, to |-> c])
    BY <2>2
  <2>4. [kind |-> k, to |-> c] \in Messages /\ [kind |-> k, to |-> c].kind \in Silent
    BY DEF Messages, Silent
  <2> QED BY <2>1, <2>3, <2>4
<1>3. CASE \E what \in {"tokenUsage", "error", "retrying", "malformed", "garbage"} : ServerSays(what)
  <2>1. PICK what \in {"tokenUsage", "error", "retrying", "malformed", "garbage"} : ServerSays(what)
    BY <1>3
  <2> QED BY <2>1, <1>1 DEF TypeInv
<1>4. CASE \E t \in Turns : \/ ServerRefuses(t)
                            \/ ServerReplies(<<"start", t>>) \/ ServerReplies(<<"interrupt", t>>)
  <2>1. PICK t \in Turns : ServerRefuses(t) \/ ServerReplies(<<"start", t>>)
                                             \/ ServerReplies(<<"interrupt", t>>)
    BY <1>4
  <2> QED BY <2>1, <1>2 DEF TypeInv
<1> QED BY <1>3, <1>4 DEF Announces

-----------------------------------------------------------------------------
(* Types.                                                                  *)

LEMMA InitInv == Init => Inv
<1> SUFFICES ASSUME Init PROVE Inv
  OBVIOUS
<1>1. \A S : <<>> \in Seq(S)
  OBVIOUS
<1>2. Len(<<>>) = 0
  OBVIOUS
<1>3. TypeInv
  <2>1. 0 \in 0 .. MaxOccurs
    BY CodexAssumption
  <2> QED BY <1>1, <2>1 DEF Init, TypeInv, Statuses, NoRequest
<1>4. ListsInv
  BY <1>1 DEF Init, ListsInv
<1>5. ASSUME NEW t \in Turns
      PROVE  SentInv(t) /\ WayInv(t) /\ StageInv(t) /\ TableInv(t) /\ AskingInv(t)
  <2>1. SentInv(t)
    BY <1>2 DEF Init, SentInv
  <2>2. /\ queue[t] = <<>> /\ early[t] = <<>> /\ incoming = <<>> /\ wire = <<>>
        /\ Len(heard[t]) = 0 /\ Len(sent[t]) = 0
    BY <1>2 DEF Init
  <2>3. WayInv(t)
    BY <2>2, EmptyList DEF WayInv, InOrder, OnWay, Below
  <2>4. StageInv(t)
    BY <1>2 DEF Init, StageInv
  <2>5. TableInv(t)
    BY <1>2 DEF Init, TableInv
  <2>6. AskingInv(t)
    BY <1>2, <2>2, EmptyList DEF Init, AskingInv, ShownInv, LaterInv, KeptInv
  <2> QED BY <2>1, <2>3, <2>4, <2>5, <2>6
<1> QED BY <1>3, <1>4, <1>5 DEF Inv

LEMMA RemoveRequest ==
  ASSUME NEW S, NEW s \in Seq(S), NEW i \in 1 .. Len(s)
  PROVE  /\ RemoveAt(s, i) \in Seq(S) /\ Len(RemoveAt(s, i)) = Len(s) - 1
         /\ \A j \in 1 .. Len(s) - 1 : RemoveAt(s, i)[j] = IF j < i THEN s[j] ELSE s[j + 1]
<1> DEFINE a == SubSeq(s, 1, i - 1)
           b == SubSeq(s, i + 1, Len(s))
<1>0. Len(s) \in Nat /\ i \in Nat /\ 1 <= i /\ i <= Len(s)
  BY LenProperties
<1>1. a \in Seq(S) /\ Len(a) = i - 1 /\ \A j \in 1 .. i - 1 : a[j] = s[j]
  <2>1. \A j \in 1 .. i - 1 : s[j] \in S
    BY <1>0, ElementOfSeq
  <2>2. /\ a \in Seq(S) /\ Len(a) = IF 1 <= i - 1 THEN (i - 1) - 1 + 1 ELSE 0
        /\ \A j \in 1 .. (i - 1) - 1 + 1 : a[j] = s[1 + j - 1]
    BY <1>0, <2>1, SubSeqProperties
  <2> HIDE DEF a
  <2> QED BY <1>0, <2>2
<1>2. b \in Seq(S) /\ Len(b) = Len(s) - i /\ \A j \in 1 .. Len(s) - i : b[j] = s[i + j]
  <2>1. \A j \in i + 1 .. Len(s) : s[j] \in S
    BY <1>0, ElementOfSeq
  <2>2. /\ b \in Seq(S) /\ Len(b) = IF i + 1 <= Len(s) THEN Len(s) - (i + 1) + 1 ELSE 0
        /\ \A j \in 1 .. Len(s) - (i + 1) + 1 : b[j] = s[i + 1 + j - 1]
    BY <1>0, <2>1, SubSeqProperties
  <2> HIDE DEF b
  <2> QED BY <1>0, <2>2
<1> HIDE DEF a, b
<1>3. /\ a \o b \in Seq(S) /\ Len(a \o b) = Len(a) + Len(b)
      /\ \A j \in 1 .. Len(a) + Len(b) : (a \o b)[j] = IF j <= Len(a) THEN a[j] ELSE b[j - Len(a)]
  BY <1>1, <1>2, ConcatProperties
<1>4. RemoveAt(s, i) = a \o b
  BY DEF RemoveAt, a, b
<1>5. Len(a \o b) = Len(s) - 1
  BY <1>0, <1>1, <1>2, <1>3
<1>6. ASSUME NEW j \in 1 .. Len(s) - 1 PROVE (a \o b)[j] = IF j < i THEN s[j] ELSE s[j + 1]
  <2>1. CASE j < i
    <3>1. j \in 1 .. i - 1 /\ j \in 1 .. Len(a) + Len(b) /\ j <= Len(a)
      BY <2>1, <1>0, <1>1, <1>2
    <3> QED BY <2>1, <3>1, <1>1, <1>3
  <2>2. CASE ~(j < i)
    <3>1. /\ j - Len(a) \in 1 .. Len(s) - i /\ j \in 1 .. Len(a) + Len(b) /\ ~(j <= Len(a))
          /\ i + (j - Len(a)) = j + 1
      BY <2>2, <1>0, <1>1, <1>2
    <3> QED BY <2>2, <3>1, <1>2, <1>3
  <2> QED BY <2>1, <2>2
<1> QED BY <1>3, <1>4, <1>5, <1>6

LEMMA CallTypes ==
  ASSUME NEW t \in Turns
  PROVE  <<"start", t>> \in Calls /\ <<"interrupt", t>> \in Calls
BY DEF Calls

LEMMA OccurTypes ==
  ASSUME TypeInv, NEW what, Occur(what)
  PROVE  happened' \in 0 .. MaxOccurs
BY CodexAssumption DEF Occur, TypeInv

LEMMA TypeDecides ==
  ASSUME TypeInv, NEW t \in Turns, Decides(t)
  PROVE  TypeInv'
<1>1. CASE StartTurn(t)
  BY <1>1, CallTypes DEF StartTurn, request, routerVars, history, TypeInv, Statuses, Live
<1>2. CASE WriteRaises(t)
  BY <1>2 DEF WriteRaises, clientVars, routerVars, serverVars, history, TypeInv, Statuses
<1>3. CASE TurnRefused(t)
  BY <1>3 DEF TurnRefused, Returns, routerVars, serverVars, history, TypeInv, Statuses
<1>4. CASE Answer(t)
  <2>1. PICK i \in Accepts(t, shown[t]) :
          /\ requests' = RemoveAt(requests, i)
          /\ asked' = [asked EXCEPT ![requests[i].name] = IF alive /\ @ = "open" THEN "answered" ELSE @]
    BY <1>4 DEF Answer
  <2>2. i \in 1 .. Len(requests)
    BY DEF Accepts
  <2>3. requests' \in Seq([name : Requests, kind : RequestKinds])
    BY <2>1, <2>2, RemoveRequest DEF TypeInv
  <2>4. asked' \in [Requests -> {"no", "open", "answered", "withdrawn"}]
    BY <2>1 DEF TypeInv
  <2>5. status' \in [Turns -> Statuses]
        /\ shown' \in [Turns -> [name : Requests, kind : RequestKinds] \union {NoRequest}]
    BY <1>4 DEF Answer, TypeInv, Statuses, Live
  <2> QED BY <1>4, <2>3, <2>4, <2>5 DEF Answer, clientVars, history, TypeInv
<1>5. CASE AnswerUnsupported(t)
  BY <1>5 DEF AnswerUnsupported, vars, clientVars, routerVars, turnVars, serverVars, history, TypeInv
<1>6. CASE Stop(t, "owner") \/ Stop(t, "idle")
  <2>1. happened' \in 0 .. MaxOccurs
    BY <1>6, OccurTypes DEF Stop
  <2> QED BY <1>6, <2>1, CallTypes DEF Stop, request, routerVars, TypeInv
<1>7. CASE Stopped(t, TRUE) \/ Stopped(t, FALSE)
  BY <1>7 DEF Stopped, Returns, routerVars, serverVars, history, TypeInv, Statuses
<1> QED BY <1>1, <1>2, <1>3, <1>4, <1>5, <1>6, <1>7 DEF Decides

LEMMA TypeRead ==
  ASSUME TypeInv, ListsInv, Read
  PROVE  TypeInv'
<1>1. wire # <<>> /\ Head(wire) \in Messages
  BY HeadTailProperties DEF Read, ListsInv, Notices
<1>2. Head(wire).kind \in {"reply", "refusal"} => Head(wire).to \in Calls
  BY <1>1 DEF Messages
<1>3. calls' \subseteq Calls
  BY DEF Read, TypeInv
<1>4. replies' \subseteq Calls \X BOOLEAN
  <2>1. CASE Head(wire).kind \in {"reply", "refusal"}
    <3> DEFINE ok == Head(wire).kind = "reply"
    <3>1. replies' = replies \union {<<Head(wire).to, ok>>}
      BY <2>1 DEF Read
    <3>2. ok \in BOOLEAN
      OBVIOUS
    <3>3. Head(wire).to \in Calls
      BY <1>2, <2>1
    <3>4. replies \subseteq Calls \X BOOLEAN
      BY DEF TypeInv
    <3> HIDE DEF ok
    <3> QED BY <3>1, <3>2, <3>3, <3>4
  <2>2. CASE Head(wire).kind \notin {"reply", "refusal"}
    BY <2>2 DEF Read, TypeInv
  <2> QED BY <2>1, <2>2
<1> QED BY <1>3, <1>4 DEF Read, routerVars, turnVars, history, TypeInv

LEMMA TypeListen ==
  ASSUME TypeInv, ListsInv, \A t \in Turns : SentInv(t), Listen
  PROVE  TypeInv'
<1> DEFINE m == Head(incoming)
<1>1. /\ m \in Messages
      /\ m.kind \notin {"malformed", "retrying"} =>
           /\ m.kind \notin Silent
           /\ Event(m).kind \in RequestKinds => <<m.of, m.nr>> \in Requests
  BY FirstListened DEF Listen
<1>2. m.kind \notin {"malformed", "retrying"} => Event(m).kind = EventKind(m)
  BY <1>1, EventOfMessage
<1>3. requests' \in Seq([name : Requests, kind : RequestKinds])
  <2>1. CASE UNCHANGED requests
    BY <2>1 DEF TypeInv
  <2>2. CASE requests' # requests
    <3>1. /\ m.kind \notin {"malformed", "retrying"} /\ EventKind(m) \in RequestKinds
          /\ requests' = Append(requests, [name |-> <<m.of, m.nr>>, kind |-> EventKind(m)])
      BY <2>2 DEF Listen, Translated, handle_event
    <3>2. [name |-> <<m.of, m.nr>>, kind |-> EventKind(m)] \in [name : Requests, kind : RequestKinds]
      BY <1>1, <1>2, <3>1
    <3> HIDE DEF m
    <3> QED BY <3>1, <3>2 DEF TypeInv
  <2> QED BY <2>1, <2>2
<1> QED BY <1>3 DEF Listen, handle_event, turnVars, serverVars, history, TypeInv

LEMMA TypeTakes ==
  ASSUME TypeInv, ListsInv, NEW t \in Turns, SentInv(t), TakeEvent(t) \/ TakeTerminal(t)
  PROVE  TypeInv'
<1> DEFINE e == Head(queue[t])
<1>1. /\ e \in AgentEvents
      /\ e.kind \in RequestKinds => <<e.of, e.nr>> \in Requests
  BY FirstOfQueue DEF TakeEvent, TakeTerminal
<1>2. heard' \in [Turns -> Seq(AgentEvents)]
  <2>1. heard[t] \in Seq(AgentEvents) /\ Append(heard[t], e) \in Seq(AgentEvents)
    BY <1>1 DEF TypeInv
  <2>2. heard' = heard \/ heard' = [heard EXCEPT ![t] = Append(heard[t], e)]
    BY DEF TakeEvent, TakeTerminal, Hears
  <2> HIDE DEF e
  <2> QED BY <2>1, <2>2 DEF TypeInv
<1>3. CASE TakeEvent(t)
  <2>1. status' \in [Turns -> Statuses]
    BY <1>3 DEF TakeEvent, AfterYield, TypeInv, Statuses, Live
  <2>2. shown' \in [Turns -> [name : Requests, kind : RequestKinds] \union {NoRequest}]
    BY <1>1, <1>3 DEF TakeEvent, AfterYield, TypeInv
  <2> QED BY <1>2, <1>3, <2>1, <2>2 DEF TakeEvent, clientVars, serverVars, TypeInv
<1>4. CASE TakeTerminal(t)
  BY <1>2, <1>4 DEF TakeTerminal, unregister, clientVars, serverVars, TypeInv, Statuses
<1> QED BY <1>3, <1>4

LEMMA TypeStep == Inv /\ [Next]_vars => TypeInv'
<1> SUFFICES ASSUME Inv, [Next]_vars PROVE TypeInv'
  OBVIOUS
<1>0. TypeInv /\ ListsInv /\ \A t \in Turns : SentInv(t)
  BY DEF Inv
<1>1. CASE Read
  BY <1>0, <1>1, TypeRead
<1>2. CASE ReadEnd
  <2>1. replies' \subseteq Calls \X BOOLEAN
    <3>1. replies' = replies \union {<<c, FALSE>> : c \in calls}
      BY <1>2 DEF ReadEnd
    <3>2. \A c \in calls : <<c, FALSE>> \in Calls \X BOOLEAN
      BY <1>0 DEF TypeInv
    <3>3. {<<c, FALSE>> : c \in calls} \subseteq Calls \X BOOLEAN
      BY <3>2
    <3>4. replies \subseteq Calls \X BOOLEAN
      BY <1>0 DEF TypeInv
    <3> QED BY <3>1, <3>3, <3>4
  <2> QED BY <1>0, <1>2, <2>1 DEF ReadEnd, routerVars, turnVars, serverVars, history, TypeInv
<1>3. CASE Listen
  BY <1>0, <1>3, TypeListen
<1>4. CASE ServerExits
  <2>1. happened' \in 0 .. MaxOccurs
    BY <1>0, <1>4, OccurTypes DEF ServerExits
  <2> QED BY <1>0, <1>4, <2>1 DEF ServerExits, clientVars, routerVars, turnVars, TypeInv
<1>5. ASSUME NEW what \in {"tokenUsage", "error", "retrying", "malformed", "garbage"}, ServerSays(what)
      PROVE  TypeInv'
  <2>1. happened' \in 0 .. MaxOccurs
    BY <1>0, <1>5, OccurTypes DEF ServerSays
  <2>2. threadError' \in BOOLEAN
    BY <1>0, <1>5, Announced DEF Announces
  <2> QED BY <1>0, <1>5, <2>1, <2>2 DEF ServerSays, clientVars, routerVars, turnVars, TypeInv
<1>6. ASSUME NEW t \in Turns, TurnNext(t) PROVE TypeInv'
  <2>1. CASE Decides(t)
    BY <1>0, <2>1, TypeDecides
  <2>2. CASE TurnStarted(t)
    BY <1>0, <2>2 DEF TurnStarted, Returns, register, serverVars, history, TypeInv, Statuses, Live
  <2>3. CASE TakeEvent(t) \/ TakeTerminal(t)
    BY <1>0, <2>3, TypeTakes
  <2> QED BY <1>6, <2>1, <2>2, <2>3 DEF TurnNext, Decides
<1>7. ASSUME NEW t \in Turns, ServerNext(t) PROVE TypeInv'
  <2>1. CASE ServerRefuses(t)
    <3>1. happened' \in 0 .. MaxOccurs
      BY <1>0, <2>1, OccurTypes DEF ServerRefuses
    <3> QED BY <1>0, <2>1, <3>1 DEF ServerRefuses, clientVars, routerVars, turnVars, TypeInv
  <2>2. CASE ServerReplies(<<"start", t>>) \/ ServerReplies(<<"interrupt", t>>)
    BY <1>0, <2>2 DEF ServerReplies, clientVars, routerVars, turnVars, history, TypeInv
  <2>3. CASE Sends(t)
    <3>1. sent' \in [Turns -> Seq(AgentEvents)]
      BY <1>0, <2>3, Sent, Sending
    <3>2. CASE ServerWrites(t)
      BY <1>0, <3>1, <3>2 DEF ServerWrites, Send, clientVars, routerVars, turnVars, TypeInv
    <3>3. ASSUME NEW what \in {"requestUserInput", "requestApproval"}, ServerAsks(t, what)
          PROVE  TypeInv'
      BY <1>0, <3>1, <3>3 DEF ServerAsks, Send, clientVars, routerVars, turnVars, TypeInv
    <3>4. ASSUME NEW how \in TerminalKinds, ServerEnds(t, how) PROVE TypeInv'
      BY <1>0, <3>1, <3>4 DEF ServerEnds, Send, clientVars, routerVars, turnVars, TypeInv
    <3> QED BY <2>3, <3>2, <3>3, <3>4 DEF Sends
  <2> QED BY <1>7, <2>1, <2>2, <2>3 DEF ServerNext, Sends
<1>8. CASE UNCHANGED vars
  BY <1>0, <1>8 DEF vars, clientVars, routerVars, turnVars, serverVars, history, TypeInv
<1> QED BY <1>1, <1>2, <1>3, <1>4, <1>5, <1>6, <1>7, <1>8 DEF Next

-----------------------------------------------------------------------------
(* What the lists hold.                                                    *)

LEMMA AccountsGrow ==
  ASSUME TypeInv, TypeInv', [Next]_vars
  PROVE  SentGrows
<1>1. CASE UNCHANGED <<sent, threadError>>
  BY <1>1, SentKept
<1>2. CASE Announces
  <2>1. UNCHANGED sent /\ (threadError => threadError')
    BY <1>2, Announced
  <2> QED BY <2>1, LenProperties DEF TypeInv, SentGrows
<1>3. ASSUME NEW t \in Turns, Sends(t) PROVE SentGrows
  BY <1>3, Sent, Sending
<1>4. CASE Read \/ Listen
  BY <1>1, <1>4 DEF Read, Listen, history, serverVars
<1>5. CASE Quiet
  BY <1>1, <1>5, QuietKeeps
<1>6. ASSUME NEW t \in Turns, TurnStarted(t) \/ TakeEvent(t) \/ TakeTerminal(t)
      PROVE  SentGrows
  BY <1>1, <1>6 DEF TurnStarted, TakeEvent, TakeTerminal, history, serverVars
<1>7. CASE UNCHANGED vars
  BY <1>1, <1>7 DEF vars, history
<1> QED BY <1>2, <1>3, <1>4, <1>5, <1>6, <1>7, StepKinds

\* handle_event puts an event into the queue of the turn it goes to, or keeps it.
LEMMA EventHandled ==
  ASSUME ListsInv, NEW m, Event(m) \in Told({m.of}), m.of \in Turns \union {NoTurn},
         registered \subseteq Turns, handle_event(m)
  PROVE  /\ queue' \in [Turns -> Seq(AgentEvents)]
         /\ early' \in [Turns \union {NoTurn} -> Seq(AgentEvents)]
         /\ \A t \in Turns : queue'[t] \in Seq(Told({t, NoTurn}))
         /\ \A t \in Turns \union {NoTurn} : early'[t] \in Seq(Told({t}))
<1> DEFINE e == Event(m)
<1>1. e \in AgentEvents /\ e \in Told({m.of})
  BY DEF Told
<1> HIDE DEF e
<1>2. CASE Route(m) \in registered
  <2>1. /\ Route(m) \in Turns /\ (m.of = NoTurn \/ m.of = Route(m))
        /\ queue' = [queue EXCEPT ![Route(m)] = Append(queue[Route(m)], e)] /\ UNCHANGED early
    BY <1>2 DEF handle_event, Route, e
  <2>2. e \in Told({Route(m), NoTurn})
    BY <2>1 DEF Told, e
  <2>3. Append(queue[Route(m)], e) \in Seq(Told({Route(m), NoTurn}))
    BY <2>1, <2>2 DEF ListsInv
  <2>4. Append(queue[Route(m)], e) \in Seq(AgentEvents)
    BY <1>1, <2>1 DEF ListsInv
  <2> QED BY <2>1, <2>3, <2>4 DEF ListsInv
<1>3. CASE Route(m) \notin registered
  <2>1. early' = [early EXCEPT ![m.of] = Append(early[m.of], e)] /\ UNCHANGED queue
    BY <1>3 DEF handle_event, e
  <2>2. Append(early[m.of], e) \in Seq(Told({m.of}))
    <3>1. early[m.of] \in Seq(Told({m.of}))
      BY DEF ListsInv
    <3> QED BY <1>1, <3>1
  <2>3. Append(early[m.of], e) \in Seq(AgentEvents)
    BY <1>1 DEF ListsInv
  <2> QED BY <2>1, <2>2, <2>3 DEF ListsInv
<1> QED BY <1>2, <1>3

\* What register puts into the queue of turn t.
LEMMA Replayed ==
  ASSUME ListsInv, NEW t \in Turns
  PROVE  /\ early[t] \o early[NoTurn] \in Seq(Told({t, NoTurn}))
         /\ early[t] \o early[NoTurn] \in Seq(AgentEvents)
         /\ early[t] \in Seq(AgentEvents) /\ early[NoTurn] \in Seq(AgentEvents)
         /\ \A u \in Turns : Nrs(early[NoTurn], u) = {} /\ Ascending(early[NoTurn], u)
<1>1. early[t] \in Seq(Told({t})) /\ early[NoTurn] \in Seq(Told({NoTurn}))
  BY DEF ListsInv
<1>2. early[t] \in Seq(Told({t, NoTurn})) /\ early[NoTurn] \in Seq(Told({t, NoTurn}))
  BY <1>1, SeqMonotonic DEF Told
<1>3. early[t] \o early[NoTurn] \in Seq(Told({t, NoTurn}))
  BY <1>2, ConcatProperties
<1>4. /\ early[t] \o early[NoTurn] \in Seq(AgentEvents)
      /\ early[t] \in Seq(AgentEvents) /\ early[NoTurn] \in Seq(AgentEvents)
  BY <1>1, <1>3, SeqMonotonic DEF Told
<1>5. ASSUME NEW u \in Turns PROVE Nrs(early[NoTurn], u) = {} /\ Ascending(early[NoTurn], u)
  <2>1. \A i \in 1 .. Len(early[NoTurn]) : early[NoTurn][i] \in Told({NoTurn})
    BY <1>1, ElementOfSeq
  <2>2. \A i \in 1 .. Len(early[NoTurn]) : ~Concerns(early[NoTurn][i], u)
    BY <2>1, NoTurnIsNoTurn DEF Told, Concerns
  <2> QED BY <2>2 DEF Nrs, Ascending
<1> QED BY <1>3, <1>4, <1>5

LEMMA ListsStep == Inv /\ [Next]_vars => ListsInv'
<1> SUFFICES ASSUME Inv, [Next]_vars PROVE ListsInv'
  OBVIOUS
<1>0. TypeInv /\ ListsInv /\ \A t \in Turns : SentInv(t)
  BY DEF Inv
<1>a. TypeInv'
  BY TypeStep
<1>b. SentGrows
  BY <1>0, <1>a, AccountsGrow
<1> DEFINE Queues == /\ queue' \in [Turns -> Seq(AgentEvents)]
                     /\ \A t \in Turns : queue'[t] \in Seq(Told({t, NoTurn}))
           Earlies == /\ early' \in [Turns \union {NoTurn} -> Seq(AgentEvents)]
                      /\ \A t \in Turns \union {NoTurn} : early'[t] \in Seq(Told({t}))
           Coming == incoming' \in Seq(Listened)
           Wired == wire' \in Seq(Notices)
<1>c. ASSUME Queues, Earlies, Coming, wire' \in Seq(Notices')
      PROVE  ListsInv'
  BY <1>b, <1>c, ListsStay DEF ListsInv
<1>d. Wired => wire' \in Seq(Notices')
  BY <1>b, ListsStay
<1>e. /\ UNCHANGED queue => Queues
      /\ UNCHANGED early => Earlies
      /\ UNCHANGED incoming => Coming
      /\ UNCHANGED wire => Wired
  BY <1>0 DEF ListsInv
<1> HIDE DEF Queues, Earlies, Coming, Wired
<1>1. CASE Read
  <2>1. Head(wire) \in Notices /\ Tail(wire) \in Seq(Notices)
    BY <1>0, <1>1, HeadTailProperties DEF Read, ListsInv
  <2>2. Wired
    BY <1>1, <2>1 DEF Read, Wired
  <2>3. \/ UNCHANGED incoming
        \/ /\ incoming' = Append(incoming, Head(wire))
           /\ Head(wire).kind \notin {"reply", "refusal", "garbage"}
    BY <1>1 DEF Read
  <2>4. Coming
    <3>1. CASE UNCHANGED incoming
      BY <3>1, <1>e
    <3>2. CASE /\ incoming' = Append(incoming, Head(wire))
               /\ Head(wire).kind \notin {"reply", "refusal", "garbage"}
      <4>1. Head(wire) \in Listened
        BY <2>1, <3>2 DEF Listened
      <4> QED BY <1>0, <3>2, <4>1 DEF ListsInv, Coming
    <3> QED BY <2>3, <3>1, <3>2
  <2>5. UNCHANGED <<queue, early>>
    BY <1>1 DEF Read, routerVars
  <2> QED BY <1>c, <1>d, <1>e, <2>2, <2>4, <2>5
<1>2. CASE Listen
  <2> DEFINE m == Head(incoming)
  <2>1. /\ Tail(incoming) \in Seq(Listened)
        /\ m.kind \notin {"malformed", "retrying"} =>
             Event(m) \in Told({m.of}) /\ m.of \in Turns \union {NoTurn}
    BY <1>0, <1>2, FirstListened DEF Listen
  <2>2. Coming
    BY <1>2, <2>1 DEF Listen, Coming
  <2>3. \/ UNCHANGED <<queue, early>>
        \/ m.kind \notin {"malformed", "retrying"} /\ handle_event(m)
    BY <1>2 DEF Listen, Translated
  <2>4. Queues /\ Earlies
    <3>1. CASE UNCHANGED <<queue, early>>
      BY <3>1, <1>e
    <3>2. CASE m.kind \notin {"malformed", "retrying"} /\ handle_event(m)
      <4>1. registered \subseteq Turns
        BY <1>0 DEF TypeInv
      <4> QED BY <1>0, <2>1, <3>2, <4>1, EventHandled DEF Queues, Earlies
    <3> QED BY <2>3, <3>1, <3>2
  <2>5. UNCHANGED wire
    BY <1>2 DEF Listen, serverVars
  <2> QED BY <1>c, <1>d, <1>e, <2>2, <2>4, <2>5
<1>3. CASE Quiet
  BY <1>3, <1>c, <1>d, <1>e, QuietKeeps
<1>4. CASE Announces
  <2>1. UNCHANGED <<incoming, queue, early>>
    BY <1>0, <1>4, Announced
  <2>2. PICK m \in Messages : /\ wire' = Append(wire, m)
                              /\ m.kind \notin Silent => IsKnown(Event(m))'
    BY <1>0, <1>4, Announced
  <2>3. m \in Notices'
    BY <2>2 DEF Notices
  <2>4. wire \in Seq(Notices')
    BY <1>0, <1>b, ListsStay DEF ListsInv
  <2>5. wire' \in Seq(Notices')
    BY <2>2, <2>3, <2>4
  <2> QED BY <1>c, <1>e, <2>1, <2>5
<1>5. ASSUME NEW t \in Turns, TurnStarted(t) PROVE ListsInv'
  <2>1. /\ queue' = [queue EXCEPT ![t] = early[t] \o early[NoTurn]]
        /\ early' = [early EXCEPT ![t] = <<>>, ![NoTurn] = <<>>]
        /\ UNCHANGED <<incoming, wire>>
    BY <1>5 DEF TurnStarted, register, Returns, serverVars
  <2>2. Queues
    BY <1>0, <2>1, Replayed DEF ListsInv, Queues
  <2>3. \A S : <<>> \in Seq(S)
    OBVIOUS
  <2>4. Earlies
    BY <1>0, <2>1, <2>3 DEF ListsInv, Earlies
  <2> QED BY <1>c, <1>d, <1>e, <2>1, <2>2, <2>4
<1>6. ASSUME NEW t \in Turns, TakeEvent(t) \/ TakeTerminal(t) PROVE ListsInv'
  <2>1. /\ queue[t] # <<>> /\ queue' = [queue EXCEPT ![t] = Tail(queue[t])]
        /\ UNCHANGED <<early, incoming, wire>>
    BY <1>6 DEF TakeEvent, TakeTerminal, clientVars, serverVars
  <2>2. Tail(queue[t]) \in Seq(Told({t, NoTurn})) /\ Tail(queue[t]) \in Seq(AgentEvents)
    BY <1>0, <2>1, FirstOfQueue
  <2>3. Queues
    BY <1>0, <2>1, <2>2 DEF ListsInv, Queues
  <2> QED BY <1>c, <1>d, <1>e, <2>1, <2>3
<1>7. ASSUME NEW t \in Turns, Sends(t) PROVE ListsInv'
  <2>1. PICK messages : AreNext(t, messages) /\ Send(t, messages)
    BY <1>0, <1>7, Sent
  <2>2. UNCHANGED <<queue, early, incoming>>
    BY <1>7 DEF Sends, ServerWrites, ServerAsks, ServerEnds, clientVars, routerVars
  <2>3. \A i \in 1 .. Len(messages) : messages[i] \in Notices'
    <3> SUFFICES ASSUME NEW i \in 1 .. Len(messages) PROVE messages[i] \in Notices'
      OBVIOUS
    <3>1. messages[i] \in Messages /\ messages[i].kind \notin Silent
          /\ messages[i].of = t /\ messages[i].nr = Len(sent[t]) + i
      BY <2>1, ElementOfSeq DEF AreNext
    <3> DEFINE e == Event(messages[i])
    <3>2. e.of = t /\ e.nr = Len(sent[t]) + i
      BY <3>1, EventOfMessage
    <3>3. /\ sent'[t][Len(sent[t]) + i] = e /\ Len(sent[t]) + i \in 1 .. Len(sent'[t])
      BY <1>0, <2>1, Sending
    <3> HIDE DEF e
    <3>4. IsKnown(e)'
      <4>1. e' = e
        BY DEF e, Event, EventKind
      <4> QED BY <4>1, <3>2, <3>3, NoTurnIsNoTurn DEF IsKnown
    <3> QED BY <3>1, <3>4 DEF Notices, e
  <2>4. messages \in Seq(Notices')
    <3>1. messages \in Seq(Messages)
      BY <2>1 DEF AreNext
    <3>2. messages \in [1 .. Len(messages) -> Notices'] /\ Len(messages) \in Nat
      BY <2>3, <3>1, LenProperties
    <3> QED BY <3>2
  <2>5. wire \in Seq(Notices')
    BY <1>0, <1>b, ListsStay DEF ListsInv
  <2>6. wire' \in Seq(Notices')
    BY <2>1, <2>4, <2>5, ConcatProperties DEF Send
  <2> QED BY <1>c, <1>e, <2>2, <2>6
<1>8. CASE UNCHANGED vars
  BY <1>8, <1>c, <1>d, <1>e DEF vars, clientVars, routerVars, serverVars
<1> QED BY <1>1, <1>2, <1>3, <1>4, <1>5, <1>6, <1>7, <1>8, StepKinds

LEMMA SentStep == Inv /\ [Next]_vars => \A t \in Turns : SentInv(t)'
<1> SUFFICES ASSUME Inv, [Next]_vars, NEW t \in Turns PROVE SentInv(t)'
  OBVIOUS
<1>0. TypeInv /\ SentInv(t)
  BY DEF Inv
<1>1. ASSUME UNCHANGED <<sent, outcome>>, running' \subseteq running, status'[t] = "none" => status[t] = "none"
      PROVE  SentInv(t)'
  BY <1>0, <1>1 DEF SentInv
<1>2. CASE Read \/ Listen
  BY <1>1, <1>2 DEF Read, Listen, history, serverVars, turnVars
<1>3. CASE ReadEnd \/ ServerExits
  BY <1>1, <1>3 DEF ReadEnd, ServerExits, serverVars, turnVars, history
<1>4. CASE Announces
  BY <1>0, <1>1, <1>4, Announced
<1>5. ASSUME NEW u \in Turns, StartTurn(u) PROVE SentInv(t)'
  <2>1. /\ UNCHANGED <<sent, outcome>> /\ running' \subseteq running \union {u}
        /\ status[u] = "none" /\ status' = [status EXCEPT ![u] = "starting"]
    BY <1>5 DEF StartTurn, history
  <2>2. /\ t \in running' \/ status'[t] = "none" => t \in running \/ status[t] = "none"
        /\ t \in running' => status'[t] # "none"
    BY <1>0, <2>1 DEF TypeInv, SentInv
  <2> QED BY <1>0, <2>1, <2>2 DEF SentInv
<1>6. ASSUME NEW u \in Turns, Decides(u), ~StartTurn(u) PROVE SentInv(t)'
  <2>1. UNCHANGED <<sent, outcome, running>>
    BY <1>6 DEF Decides, WriteRaises, TurnRefused, Answer, AnswerUnsupported, Stop, Stopped,
                serverVars, history, vars
  <2>2. status'[t] = "none" => status[t] = "none"
    BY <1>0, <1>6 DEF Decides, WriteRaises, TurnRefused, Answer, AnswerUnsupported, Stop, Stopped,
                      turnVars, vars, TypeInv
  <2> QED BY <1>1, <2>1, <2>2
<1>7. ASSUME NEW u \in Turns, TurnStarted(u) \/ TakeEvent(u) \/ TakeTerminal(u) PROVE SentInv(t)'
  <2>1. UNCHANGED <<sent, outcome, running>>
    BY <1>7 DEF TurnStarted, TakeEvent, TakeTerminal, serverVars, history
  <2>2. status'[t] = "none" => status[t] = "none"
    BY <1>0, <1>7 DEF TurnStarted, TakeEvent, TakeTerminal, AfterYield, TypeInv
  <2> QED BY <1>1, <2>1, <2>2
<1>8. ASSUME NEW u \in Turns, Sends(u), u # t PROVE SentInv(t)'
  <2>1. PICK messages :
          /\ AreNext(u, messages) /\ Send(u, messages)
          /\ \/ UNCHANGED <<running, outcome>>
             \/ running' = running \ {u} /\ \E how \in TerminalKinds : outcome' = [outcome EXCEPT ![u] = how]
    BY <1>0, <1>8, Sent
  <2>2. sent'[t] = sent[t]
    BY <1>0, <1>8, <2>1, Sending
  <2>3. outcome'[t] = outcome[t] /\ running' \subseteq running
    BY <1>0, <1>8, <2>1 DEF TypeInv
  <2>4. UNCHANGED status
    BY <1>8 DEF Sends, ServerWrites, ServerAsks, ServerEnds, turnVars
  <2> QED BY <1>0, <2>2, <2>3, <2>4 DEF SentInv
<1>9. ASSUME Sends(t) PROVE SentInv(t)'
  <2>1. PICK messages :
          /\ AreNext(t, messages) /\ Send(t, messages) /\ t \in running
          /\ \/ /\ UNCHANGED <<running, outcome>>
                /\ \A i \in 1 .. Len(messages) :
                     /\ EventKind(messages[i]) \notin TerminalKinds
                     /\ Len(sent[t]) + i \in 1 .. MaxEvents
             \/ /\ running' = running \ {t}
                /\ \E how \in TerminalKinds :
                     /\ outcome' = [outcome EXCEPT ![t] = how]
                     /\ \A i \in 1 .. Len(messages) : EventKind(messages[i]) = how
    BY <1>0, <1>9, Sent
  <2>2. /\ Len(sent'[t]) = Len(sent[t]) + Len(messages)
        /\ \A n \in 1 .. Len(sent[t]) : sent'[t][n] = sent[t][n]
        /\ \A i \in 1 .. Len(messages) : sent'[t][Len(sent[t]) + i] = Event(messages[i])
        /\ Len(messages) \in Nat \ {0} /\ Len(sent[t]) \in Nat
    BY <1>0, <2>1, Sending
  <2>3. \A i \in 1 .. Len(messages) :
          /\ Event(messages[i]).of = t /\ Event(messages[i]).nr = Len(sent[t]) + i
          /\ Event(messages[i]).kind = EventKind(messages[i])
    BY <2>1, ElementOfSeq, EventOfMessage DEF AreNext
  <2>4. outcome[t] = "none" /\ UNCHANGED status
    BY <1>0, <1>9, <2>1 DEF SentInv, Sends, ServerWrites, ServerAsks, ServerEnds, turnVars
  <2>5. \A n \in 1 .. Len(sent[t]) : sent[t][n].kind \notin TerminalKinds
    BY <1>0, <2>4 DEF SentInv, TerminalKinds
  <2>6. \A n \in 1 .. Len(sent'[t]) :
          n \in 1 .. Len(sent[t]) \/ \E i \in 1 .. Len(messages) : n = Len(sent[t]) + i
    <3> SUFFICES ASSUME NEW n \in 1 .. Len(sent'[t]), n \notin 1 .. Len(sent[t])
                 PROVE  \E i \in 1 .. Len(messages) : n = Len(sent[t]) + i
      OBVIOUS
    <3>1. n - Len(sent[t]) \in 1 .. Len(messages) /\ n = Len(sent[t]) + (n - Len(sent[t]))
      BY <2>2
    <3> QED BY <3>1
  <2>7. \A n \in 1 .. Len(sent[t]) :
          /\ sent'[t][n].of = t /\ sent'[t][n].nr = n
          /\ sent'[t][n].kind \in RequestKinds => n \in 1 .. MaxEvents
          /\ sent'[t][n].kind \notin TerminalKinds
    BY <1>0, <2>2, <2>5 DEF SentInv
  <2>n. \A i \in 1 .. Len(messages) :
          /\ sent'[t][Len(sent[t]) + i].of = t /\ sent'[t][Len(sent[t]) + i].nr = Len(sent[t]) + i
          /\ sent'[t][Len(sent[t]) + i].kind = EventKind(messages[i])
    BY <2>2, <2>3
  <2>8. CASE /\ UNCHANGED <<running, outcome>>
             /\ \A i \in 1 .. Len(messages) :
                  /\ EventKind(messages[i]) \notin TerminalKinds
                  /\ Len(sent[t]) + i \in 1 .. MaxEvents
    <3>1. ASSUME NEW n \in 1 .. Len(sent'[t])
          PROVE  /\ sent'[t][n].of = t /\ sent'[t][n].nr = n
                 /\ sent'[t][n].kind \in RequestKinds => n \in 1 .. MaxEvents
                 /\ sent'[t][n].kind \notin TerminalKinds
      <4>1. CASE n \in 1 .. Len(sent[t])
        BY <4>1, <2>7
      <4>2. CASE \E i \in 1 .. Len(messages) : n = Len(sent[t]) + i
        BY <4>2, <2>n, <2>8
      <4> QED BY <4>1, <4>2, <2>6
    <3>2. outcome'[t] = "none" /\ status'[t] # "none"
      BY <1>0, <2>1, <2>4, <2>8 DEF SentInv
    <3> QED BY <3>1, <3>2 DEF SentInv
  <2>9. ASSUME NEW how \in TerminalKinds, running' = running \ {t},
               outcome' = [outcome EXCEPT ![t] = how],
               \A i \in 1 .. Len(messages) : EventKind(messages[i]) = how
        PROVE  SentInv(t)'
    <3>1. outcome'[t] = how /\ status'[t] # "none" /\ t \notin running'
      BY <1>0, <2>1, <2>4, <2>9 DEF TypeInv, SentInv
    <3>2. how \notin RequestKinds
      BY DEF TerminalKinds, RequestKinds
    <3>3. ASSUME NEW n \in 1 .. Len(sent'[t])
          PROVE  /\ sent'[t][n].of = t /\ sent'[t][n].nr = n
                 /\ sent'[t][n].kind \in RequestKinds => n \in 1 .. MaxEvents
                 /\ sent'[t][n].kind \in TerminalKinds => sent'[t][n].kind = how
      <4>1. CASE n \in 1 .. Len(sent[t])
        BY <4>1, <2>7
      <4>2. CASE \E i \in 1 .. Len(messages) : n = Len(sent[t]) + i
        BY <4>2, <2>n, <2>9, <3>2
      <4> QED BY <4>1, <4>2, <2>6
    <3>4. Len(sent'[t]) > 0 /\ sent'[t][Len(sent'[t])].kind = how
      <4>1. Len(messages) \in 1 .. Len(messages)
        BY <2>2
      <4>2. sent'[t][Len(sent[t]) + Len(messages)].kind = how
        BY <2>n, <2>9, <4>1
      <4> QED BY <2>2, <4>2
    <3> QED BY <3>1, <3>3, <3>4 DEF SentInv
  <2> QED BY <2>1, <2>8, <2>9
<1>10. CASE UNCHANGED vars
  BY <1>1, <1>10 DEF vars, turnVars, serverVars, history
<1> QED BY <1>2, <1>3, <1>4, <1>5, <1>6, <1>7, <1>8, <1>9, <1>10, StepKinds DEF Quiet

-----------------------------------------------------------------------------
(* The way of the events.                                                  *)

\* The lists of turn t, typed.
LEMMA ListTypes ==
  ASSUME ListsInv, NEW t \in Turns
  PROVE  /\ queue[t] \in Seq(AgentEvents) /\ early[t] \in Seq(AgentEvents)
         /\ incoming \in Seq(Messages) /\ wire \in Seq(Messages)
<1>1. Listened \subseteq Messages /\ Notices \subseteq Messages
  BY DEF Listened, Notices
<1> QED BY <1>1, SeqMonotonic DEF ListsInv

LEMMA WayKept ==
  ASSUME NEW t \in Turns, WayInv(t), UNCHANGED <<queue[t], early[t], incoming, wire, sent[t], heard[t]>>
  PROVE  WayInv(t)'
BY DEF WayInv, InOrder, OnWay, Nrs, Ascending, Below

LEMMA WayRead ==
  ASSUME ListsInv, Read, NEW t \in Turns, WayInv(t)
  PROVE  WayInv(t)'
<1> DEFINE m == Head(wire)
<1>1. wire # <<>> /\ wire \in Seq(Messages) /\ incoming \in Seq(Messages) /\ m \in Messages
  BY ListTypes, HeadTailProperties DEF Read
<1>2. /\ Nrs(wire, t) = One(m, t) \union Nrs(wire', t)
      /\ Ascending(wire, t) => Ascending(wire', t) /\ Below(One(m, t), Nrs(wire', t))
  BY <1>1, TailList DEF Read
<1>3. \/ UNCHANGED incoming /\ m.kind \in Silent
      \/ incoming' = Append(incoming, m)
  BY DEF Read, Silent
<1>4. /\ Nrs(incoming', t) = Nrs(incoming, t) \union One(m, t)
      /\ Ascending(incoming, t) /\ Below(Nrs(incoming, t), One(m, t)) => Ascending(incoming', t)
  <2>1. CASE UNCHANGED incoming /\ m.kind \in Silent
    BY <2>1 DEF One, Concerns
  <2>2. CASE incoming' = Append(incoming, m)
    BY <1>1, <2>2, AppendList
  <2> QED BY <1>3, <2>1, <2>2
<1>5. UNCHANGED <<queue, early, sent, heard>>
  BY DEF Read, routerVars, history
<1>6. InOrder(t)
  BY DEF WayInv
<1> HIDE DEF m
<1>7. InOrder(t)'
  BY <1>2, <1>4, <1>5, <1>6 DEF InOrder, Below
<1>8. OnWay(t)' = OnWay(t)
  BY <1>2, <1>4, <1>5 DEF OnWay
<1> QED BY <1>5, <1>7, <1>8 DEF WayInv

LEMMA WayListen ==
  ASSUME TypeInv, ListsInv, \A u \in Turns : SentInv(u), Listen,
         NEW t \in Turns, WayInv(t), StageInv(t)
  PROVE  /\ WayInv(t)'
         /\ Nrs(queue'[t], t) \union Nrs(early'[t], t)
              \subseteq Nrs(queue[t], t) \union Nrs(early[t], t) \union One(Head(incoming), t)
<1> DEFINE m == Head(incoming)
           e == Event(m)
<1>1. incoming # <<>> /\ incoming \in Seq(Messages) /\ m \in Messages /\ incoming' = Tail(incoming)
  BY ListTypes, HeadTailProperties DEF Listen
<1>2. /\ Nrs(incoming, t) = One(m, t) \union Nrs(incoming', t)
      /\ Ascending(incoming, t) => Ascending(incoming', t) /\ Below(One(m, t), Nrs(incoming', t))
  BY <1>1, TailList
<1>3. UNCHANGED <<wire, sent, heard, registered>>
  BY DEF Listen, serverVars, history
<1>4. \/ UNCHANGED <<queue, early>> /\ m.kind \in {"malformed", "retrying"}
      \/ m.kind \notin {"malformed", "retrying"} /\ handle_event(m)
  BY DEF Listen, Translated
<1>5. m.kind \notin {"malformed", "retrying"} =>
        /\ e \in AgentEvents /\ One(e, t) = One(m, t) /\ One(m, t) = IF m.of = t THEN {m.nr} ELSE {}
        /\ m.of \in Turns \union {NoTurn}
  BY <1>1, FirstListened, EventOfMessage DEF Told, One, Concerns
<1>6. queue[t] \in Seq(AgentEvents) /\ early[t] \in Seq(AgentEvents)
  BY ListTypes
<1>7. InOrder(t)
  BY DEF WayInv
<1> HIDE DEF m, e
<1> DEFINE ToQueue == /\ UNCHANGED <<early[t]>>
                      /\ Nrs(queue'[t], t) = Nrs(queue[t], t) \union One(m, t)
                      /\ Ascending(queue[t], t) /\ Below(Nrs(queue[t], t), One(m, t))
                           => Ascending(queue'[t], t)
                      /\ One(m, t) = {} \/ early[t] = <<>>
           ToEarly == /\ UNCHANGED <<queue[t]>>
                      /\ Nrs(early'[t], t) = Nrs(early[t], t) \union One(m, t)
                      /\ Ascending(early[t], t) /\ Below(Nrs(early[t], t), One(m, t))
                           => Ascending(early'[t], t)
<1>8. ToQueue \/ ToEarly
  <2>1. CASE UNCHANGED <<queue, early>> /\ m.kind \in {"malformed", "retrying"}
    BY <2>1 DEF One, Concerns, Silent
  <2>2. CASE m.kind \notin {"malformed", "retrying"} /\ handle_event(m)
    <3>1. CASE Route(m) \in registered
      <4>1. queue' = [queue EXCEPT ![Route(m)] = Append(queue[Route(m)], e)] /\ UNCHANGED early
        BY <2>2, <3>1 DEF handle_event, e
      <4>2. m.of = t => Route(m) = t
        BY NoTurnIsNoTurn DEF Route
      <4>3. CASE Route(m) = t
        <5>1. queue'[t] = Append(queue[t], e) /\ early[t] = <<>>
          BY <3>1, <4>1, <4>3 DEF ListsInv, StageInv
        <5> QED BY <1>5, <1>6, <2>2, <4>1, <5>1, AppendList
      <4>4. CASE Route(m) # t
        <5>1. queue'[t] = queue[t] /\ One(m, t) = {}
          BY <1>5, <2>2, <4>1, <4>2, <4>4 DEF ListsInv
        <5> QED BY <4>1, <5>1
      <4> QED BY <4>3, <4>4
    <3>2. CASE Route(m) \notin registered
      <4>1. early' = [early EXCEPT ![m.of] = Append(early[m.of], e)] /\ UNCHANGED queue
        BY <2>2, <3>2 DEF handle_event, e
      <4>2. CASE m.of = t
        <5>1. early'[t] = Append(early[t], e)
          BY <4>1, <4>2 DEF ListsInv
        <5> QED BY <1>5, <1>6, <2>2, <4>1, <5>1, AppendList
      <4>3. CASE m.of # t
        <5>1. early'[t] = early[t] /\ One(m, t) = {}
          BY <1>5, <2>2, <4>1, <4>3 DEF ListsInv
        <5> QED BY <4>1, <5>1
      <4> QED BY <4>2, <4>3
    <3> QED BY <3>1, <3>2
  <2> QED BY <1>4, <2>1, <2>2
<1>9. early[t] = <<>> => Nrs(early[t], t) = {}
  BY EmptyList
<1>10. InOrder(t)' /\ OnWay(t)' = OnWay(t)
  <2>1. CASE ToQueue
    BY <1>2, <1>3, <1>7, <1>9, <2>1 DEF InOrder, Below, OnWay
  <2>2. CASE ToEarly
    BY <1>2, <1>3, <1>7, <2>2 DEF InOrder, Below, OnWay
  <2> QED BY <1>8, <2>1, <2>2
<1>11. Nrs(queue'[t], t) \union Nrs(early'[t], t)
         \subseteq Nrs(queue[t], t) \union Nrs(early[t], t) \union One(m, t)
  BY <1>8
<1>12. WayInv(t)'
  BY <1>3, <1>10 DEF WayInv
<1> QED BY <1>11, <1>12 DEF m

LEMMA WayStarted ==
  ASSUME TypeInv, ListsInv, NEW u \in Turns, TurnStarted(u), NEW t \in Turns, WayInv(t), StageInv(t)
  PROVE  /\ WayInv(t)'
         /\ Nrs(queue'[t], t) \union Nrs(early'[t], t) = Nrs(queue[t], t) \union Nrs(early[t], t)
<1>1. /\ queue' = [queue EXCEPT ![u] = early[u] \o early[NoTurn]]
      /\ early' = [early EXCEPT ![u] = <<>>, ![NoTurn] = <<>>]
      /\ UNCHANGED <<incoming, wire, sent, heard>> /\ status[u] = "starting"
  BY DEF TurnStarted, register, Returns, serverVars, history
<1>2. CASE u # t
  <2>1. UNCHANGED <<queue[t], early[t]>>
    BY <1>1, <1>2, NoTurnIsNoTurn DEF ListsInv
  <2> QED BY <1>1, <2>1, WayKept
<1>3. CASE u = t
  <2>1. queue[t] = <<>> /\ Nrs(queue[t], t) = {}
    BY <1>1, <1>3, EmptyList DEF StageInv
  <2>2. early'[t] = <<>> /\ Nrs(early'[t], t) = {} /\ Ascending(early'[t], t)
    BY <1>1, <1>3, EmptyList, NoTurnIsNoTurn DEF ListsInv
  <2>3. queue'[t] = early[t] \o early[NoTurn]
    BY <1>1, <1>3 DEF ListsInv
  <2>4. /\ early[t] \in Seq(AgentEvents) /\ early[NoTurn] \in Seq(AgentEvents)
        /\ Nrs(early[NoTurn], t) = {} /\ Ascending(early[NoTurn], t)
    BY Replayed
  <2>5. /\ Nrs(queue'[t], t) = Nrs(early[t], t)
        /\ Ascending(early[t], t) => Ascending(queue'[t], t)
    <3>1. /\ Nrs(early[t] \o early[NoTurn], t) = Nrs(early[t], t) \union Nrs(early[NoTurn], t)
          /\ Ascending(early[t], t) /\ Ascending(early[NoTurn], t)
               /\ Below(Nrs(early[t], t), Nrs(early[NoTurn], t))
                 => Ascending(early[t] \o early[NoTurn], t)
      BY <2>4, ConcatList
    <3>2. Below(Nrs(early[t], t), Nrs(early[NoTurn], t))
      BY <2>4 DEF Below
    <3> QED BY <2>3, <2>4, <3>1, <3>2
  <2>6. InOrder(t)
    BY DEF WayInv
  <2>7. InOrder(t)' /\ OnWay(t)' = OnWay(t)
    BY <1>1, <2>1, <2>2, <2>5, <2>6 DEF InOrder, Below, OnWay
  <2>8. Nrs(queue'[t], t) \union Nrs(early'[t], t) = Nrs(queue[t], t) \union Nrs(early[t], t)
    BY <2>1, <2>2, <2>5
  <2> QED BY <1>1, <2>7, <2>8 DEF WayInv
<1> QED BY <1>2, <1>3

\* The consumer takes an event: the next one about its turn, or one about none.
LEMMA Taken ==
  ASSUME TypeInv, ListsInv, NEW t \in Turns, SentInv(t), WayInv(t), TakeEvent(t) \/ TakeTerminal(t)
  PROVE  LET e == Head(queue[t]) IN
           /\ queue' = [queue EXCEPT ![t] = Tail(queue[t])]
           /\ UNCHANGED <<early, incoming, wire, sent, running, outcome, alive, requests, threadError, stopped>>
           /\ \A u \in Turns : u # t => UNCHANGED <<queue[u], heard[u], status[u], shown[u], result[u]>>
           /\ Len(heard[t]) \in Nat /\ Len(sent[t]) \in Nat
           /\ \/ /\ e.of = NoTurn /\ UNCHANGED heard /\ e.kind \notin RequestKinds
                 /\ Nrs(queue[t], t) = Nrs(Tail(queue[t]), t)
              \/ /\ e.of = t /\ e.nr = Len(heard[t]) + 1 /\ e.nr <= Len(sent[t]) /\ e = sent[t][e.nr]
                 /\ Nrs(queue[t], t) = {e.nr} \union Nrs(Tail(queue[t]), t)
                 /\ heard'[t] = Append(heard[t], e)
                 /\ Len(heard'[t]) = Len(heard[t]) + 1 /\ heard'[t][e.nr] = e
                 /\ \A i \in 1 .. Len(heard[t]) : heard'[t][i] = heard[t][i]
           /\ WayInv(t)'
<1> DEFINE e == Head(queue[t])
<1>1. /\ queue[t] # <<>> /\ queue' = [queue EXCEPT ![t] = Tail(queue[t])]
      /\ UNCHANGED <<early, incoming, wire, sent, running, outcome, alive, requests, threadError, stopped>>
      /\ heard' = IF e.of = NoTurn THEN heard ELSE [heard EXCEPT ![t] = Append(heard[t], e)]
  BY DEF TakeEvent, TakeTerminal, clientVars, serverVars, Hears
<1>2. \A u \in Turns : u # t => UNCHANGED <<queue[u], heard[u], status[u], shown[u], result[u]>>
  BY <1>1 DEF TakeEvent, TakeTerminal, TypeInv, ListsInv
<1>3. /\ e \in AgentEvents /\ e.of \in {t, NoTurn}
      /\ e.of = t => e.nr \in 1 .. Len(sent[t]) /\ e = sent[t][e.nr]
      /\ e.of = NoTurn => e.kind \notin RequestKinds
  BY <1>1, FirstOfQueue
<1>4. One(e, t) = IF e.of = t THEN {e.nr} ELSE {}
  BY <1>3, EventsAreNotSilent DEF One
<1>5. queue[t] \in Seq(AgentEvents)
  BY ListTypes
<1>6. /\ Nrs(queue[t], t) = One(e, t) \union Nrs(Tail(queue[t]), t)
      /\ Ascending(queue[t], t) =>
           Ascending(Tail(queue[t]), t) /\ Below(One(e, t), Nrs(Tail(queue[t]), t))
  BY <1>1, <1>5, TailList
<1>7. queue'[t] = Tail(queue[t])
  BY <1>1 DEF ListsInv
<1>8. heard[t] \in Seq(AgentEvents) /\ Len(heard[t]) \in Nat /\ Len(sent[t]) \in Nat
  BY LenProperties DEF TypeInv
<1> HIDE DEF e
<1>9. InOrder(t)
  BY DEF WayInv
<1>10. InOrder(t)'
  BY <1>1, <1>6, <1>7, <1>9 DEF InOrder, Below
<1>11. CASE e.of = NoTurn
  <2>1. One(e, t) = {} /\ UNCHANGED heard
    BY <1>1, <1>4, <1>11, NoTurnIsNoTurn
  <2>2. OnWay(t)' = OnWay(t)
    BY <1>1, <1>6, <1>7, <2>1 DEF OnWay
  <2>3. WayInv(t)'
    BY <1>1, <1>10, <2>1, <2>2 DEF WayInv
  <2>4. Nrs(queue[t], t) = Nrs(Tail(queue[t]), t)
    BY <1>6, <2>1
  <2> QED BY <1>1, <1>2, <1>3, <1>8, <1>11, <2>1, <2>3, <2>4 DEF e
<1>12. CASE e.of = t
  <2> DEFINE Rest == Nrs(Tail(queue[t]), t) \union Nrs(early[t], t) \union Nrs(incoming, t) \union Nrs(wire, t)
  <2>1. OnWay(t) = {e.nr} \union Rest /\ OnWay(t)' = Rest
    BY <1>1, <1>4, <1>6, <1>7, <1>12 DEF OnWay
  <2>2. \A n \in Rest : e.nr < n
    BY <1>4, <1>6, <1>9, <1>12 DEF InOrder, Below
  <2>3. OnWay(t) = (Len(heard[t]) + 1) .. Len(sent[t])
    BY DEF WayInv
  <2> HIDE DEF Rest
  <2>4. e.nr \in 1 .. Len(sent[t]) /\ e = sent[t][e.nr]
    BY <1>3, <1>12
  <2>5. e.nr \in (Len(heard[t]) + 1) .. Len(sent[t])
    BY <2>1, <2>3
  <2>6. e.nr = Len(heard[t]) + 1
    <3>1. Len(heard[t]) + 1 \in {e.nr} \union Rest
      BY <1>8, <2>1, <2>3, <2>5
    <3> QED BY <1>8, <2>2, <2>5, <3>1
  <2>7. Rest = (Len(heard[t]) + 2) .. Len(sent[t])
    <3>1. \A n \in Rest : n \in (Len(heard[t]) + 2) .. Len(sent[t])
      <4> SUFFICES ASSUME NEW n \in Rest PROVE n \in (Len(heard[t]) + 2) .. Len(sent[t])
        OBVIOUS
      <4>1. n \in (Len(heard[t]) + 1) .. Len(sent[t]) /\ e.nr < n
        BY <2>1, <2>2, <2>3
      <4> QED BY <1>8, <2>6, <4>1
    <3>2. \A n \in (Len(heard[t]) + 2) .. Len(sent[t]) : n \in Rest
      <4> SUFFICES ASSUME NEW n \in (Len(heard[t]) + 2) .. Len(sent[t]) PROVE n \in Rest
        OBVIOUS
      <4>1. n \in {e.nr} \union Rest /\ n # e.nr
        BY <1>8, <2>1, <2>3, <2>6
      <4> QED BY <4>1
    <3> QED BY <3>1, <3>2
  <2>8. heard'[t] = Append(heard[t], e)
    BY <1>1, <1>12, NoTurnIsNoTurn DEF TypeInv
  <2>9. /\ Len(heard'[t]) = Len(heard[t]) + 1 /\ heard'[t][Len(heard[t]) + 1] = e
        /\ \A i \in 1 .. Len(heard[t]) : heard'[t][i] = heard[t][i]
    BY <1>3, <1>8, <2>8, AppendProperties
  <2>10. OnWay(t)' = (Len(heard'[t]) + 1) .. Len(sent'[t])
    BY <1>1, <1>8, <2>1, <2>7, <2>9
  <2>11. \A i \in 1 .. Len(heard'[t]) : heard'[t][i] = sent'[t][i]
    <3> SUFFICES ASSUME NEW i \in 1 .. Len(heard'[t]) PROVE heard'[t][i] = sent'[t][i]
      OBVIOUS
    <3>1. CASE i \in 1 .. Len(heard[t])
      BY <1>1, <2>9, <3>1 DEF WayInv
    <3>2. CASE i = Len(heard[t]) + 1
      BY <1>1, <2>4, <2>6, <2>9, <3>2
    <3> QED BY <1>8, <2>9, <3>1, <3>2
  <2>12. Len(heard'[t]) <= Len(sent'[t])
    BY <1>1, <1>8, <2>5, <2>6, <2>9
  <2>13. WayInv(t)'
    BY <1>10, <2>10, <2>11, <2>12 DEF WayInv
  <2>14. Nrs(queue[t], t) = {e.nr} \union Nrs(Tail(queue[t]), t)
    BY <1>4, <1>6, <1>12
  <2> QED BY <1>1, <1>2, <1>8, <1>12, <2>4, <2>6, <2>8, <2>9, <2>13, <2>14 DEF e
<1> QED BY <1>3, <1>11, <1>12

LEMMA WayAnnounced ==
  ASSUME TypeInv, ListsInv, Announces, NEW t \in Turns, WayInv(t)
  PROVE  WayInv(t)' /\ Nrs(wire', t) = Nrs(wire, t)
<1>1. UNCHANGED <<incoming, queue, early, sent, heard>>
  BY Announced
<1>2. PICK m \in Messages : wire' = Append(wire, m) /\ (m.kind \notin Silent => m.of = NoTurn)
  BY Announced
<1>3. One(m, t) = {}
  BY <1>2, NoTurnIsNoTurn DEF One, Concerns
<1>4. wire \in Seq(Messages)
  BY ListTypes
<1>5. Nrs(wire', t) = Nrs(wire, t) /\ (Ascending(wire, t) => Ascending(wire', t))
  <2>1. /\ Nrs(Append(wire, m), t) = Nrs(wire, t) \union One(m, t)
        /\ Ascending(wire, t) /\ Below(Nrs(wire, t), One(m, t)) => Ascending(Append(wire, m), t)
    BY <1>4, AppendList
  <2>2. Below(Nrs(wire, t), One(m, t))
    BY <1>3 DEF Below
  <2> QED BY <1>2, <1>3, <2>1, <2>2
<1>6. InOrder(t)' /\ OnWay(t)' = OnWay(t)
  BY <1>1, <1>5 DEF WayInv, InOrder, OnWay
<1> QED BY <1>1, <1>5, <1>6 DEF WayInv

\* What a server's messages add to the wire.
LEMMA Wired ==
  ASSUME TypeInv, ListsInv, NEW u \in Turns, NEW messages, AreNext(u, messages), Send(u, messages),
         NEW t \in Turns
  PROVE  /\ Nrs(wire', t) = Nrs(wire, t) \union
                             (IF t = u THEN (Len(sent[u]) + 1) .. Len(sent'[u]) ELSE {})
         /\ Ascending(wire, t) /\ (t = u => \A n \in Nrs(wire, t) : n \in 1 .. Len(sent[u]))
              => Ascending(wire', t)
<1>1. /\ messages \in Seq(Messages)
      /\ \A i \in 1 .. Len(messages) :
           Concerns(messages[i], u) /\ messages[i].of = u /\ messages[i].nr = Len(sent[u]) + i
  BY DEF AreNext, Concerns
<1>2. /\ Len(sent'[u]) = Len(sent[u]) + Len(messages)
      /\ Len(messages) \in Nat \ {0} /\ Len(sent[u]) \in Nat
  BY Sending
<1>3. /\ wire \in Seq(Messages) /\ wire' = wire \o messages
  BY ListTypes DEF Send
<1>4. /\ Nrs(wire', t) = Nrs(wire, t) \union Nrs(messages, t)
      /\ Ascending(wire, t) /\ Ascending(messages, t) /\ Below(Nrs(wire, t), Nrs(messages, t))
           => Ascending(wire', t)
  BY <1>1, <1>3, ConcatList
<1>5. Ascending(messages, t)
  <2> SUFFICES ASSUME NEW i \in 1 .. Len(messages), NEW j \in 1 .. Len(messages), i < j
               PROVE  messages[i].nr < messages[j].nr
    BY DEF Ascending
  <2> QED BY <1>1, <1>2
<1>6. CASE t = u
  <2>1. \A n \in Nrs(messages, t) : n \in (Len(sent[u]) + 1) .. Len(sent'[u])
    <3> SUFFICES ASSUME NEW i \in 1 .. Len(messages)
                 PROVE  messages[i].nr \in (Len(sent[u]) + 1) .. Len(sent'[u])
      BY DEF Nrs
    <3> QED BY <1>1, <1>2
  <2>2. \A n \in (Len(sent[u]) + 1) .. Len(sent'[u]) : n \in Nrs(messages, t)
    <3> SUFFICES ASSUME NEW n \in (Len(sent[u]) + 1) .. Len(sent'[u]) PROVE n \in Nrs(messages, t)
      OBVIOUS
    <3>1. n - Len(sent[u]) \in 1 .. Len(messages) /\ n = Len(sent[u]) + (n - Len(sent[u]))
      BY <1>2
    <3>2. Concerns(messages[n - Len(sent[u])], t) /\ messages[n - Len(sent[u])].nr = n
      BY <1>1, <1>6, <3>1
    <3> QED BY <3>1, <3>2 DEF Nrs
  <2>3. Nrs(messages, t) = (Len(sent[u]) + 1) .. Len(sent'[u])
    BY <2>1, <2>2
  <2>4. ASSUME \A n \in Nrs(wire, t) : n \in 1 .. Len(sent[u])
        PROVE  Below(Nrs(wire, t), Nrs(messages, t))
    <3> SUFFICES ASSUME NEW a \in Nrs(wire, t), NEW b \in Nrs(messages, t) PROVE a < b
      BY DEF Below
    <3>1. a \in 1 .. Len(sent[u]) /\ b \in (Len(sent[u]) + 1) .. Len(sent'[u])
      BY <2>1, <2>4
    <3> QED BY <1>2, <3>1
  <2> QED BY <1>4, <1>5, <1>6, <2>3, <2>4
<1>7. CASE t # u
  <2>1. Nrs(messages, t) = {}
    BY <1>1, <1>7 DEF Nrs, Concerns
  <2> QED BY <1>4, <1>5, <1>7, <2>1 DEF Below
<1> QED BY <1>6, <1>7

LEMMA WaySends ==
  ASSUME TypeInv, ListsInv, NEW u \in Turns, Sends(u), NEW t \in Turns, WayInv(t)
  PROVE  WayInv(t)'
<1>1. PICK messages : AreNext(u, messages) /\ Send(u, messages)
  BY Sent
<1>2. UNCHANGED <<queue, early, incoming, heard>>
  BY DEF Sends, ServerWrites, ServerAsks, ServerEnds, Send, clientVars, routerVars
<1>3. /\ \A v \in Turns : v # u => sent'[v] = sent[v]
      /\ Len(sent'[u]) = Len(sent[u]) + Len(messages)
      /\ \A n \in 1 .. Len(sent[u]) : sent'[u][n] = sent[u][n]
      /\ Len(messages) \in Nat \ {0} /\ Len(sent[u]) \in Nat
  BY <1>1, Sending
<1>4. InOrder(t) /\ OnWay(t) = (Len(heard[t]) + 1) .. Len(sent[t])
      /\ Len(heard[t]) <= Len(sent[t]) /\ Len(heard[t]) \in Nat
  BY LenProperties DEF WayInv, TypeInv
<1>5. \A n \in OnWay(t) : n \in 1 .. Len(sent[t])
  BY <1>4
<1>6. /\ Nrs(wire', t) = Nrs(wire, t) \union
                          (IF t = u THEN (Len(sent[u]) + 1) .. Len(sent'[u]) ELSE {})
      /\ Ascending(wire', t)
  BY <1>1, <1>4, <1>5, Wired DEF InOrder, OnWay
<1>7. CASE t = u
  <2> DEFINE New == (Len(sent[t]) + 1) .. Len(sent'[t])
  <2>1. \A a \in OnWay(t), b \in New : a < b
    <3> SUFFICES ASSUME NEW a \in OnWay(t), NEW b \in New PROVE a < b
      OBVIOUS
    <3>1. a \in 1 .. Len(sent[t])
      BY <1>5
    <3> QED BY <1>3, <1>7, <3>1
  <2>2. Nrs(wire', t) = Nrs(wire, t) \union New
    BY <1>6, <1>7
  <2>3. OnWay(t)' = OnWay(t) \union New
    BY <1>2, <2>2 DEF OnWay
  <2>4. OnWay(t) \union New = (Len(heard'[t]) + 1) .. Len(sent'[t])
    BY <1>2, <1>3, <1>4, <1>7
  <2> HIDE DEF New
  <2>5. InOrder(t)'
    BY <1>2, <1>4, <1>6, <2>1, <2>2 DEF InOrder, Below, OnWay
  <2>6. Len(heard'[t]) <= Len(sent'[t]) /\ \A i \in 1 .. Len(heard'[t]) : heard'[t][i] = sent'[t][i]
    BY <1>2, <1>3, <1>4, <1>7 DEF WayInv
  <2> QED BY <2>3, <2>4, <2>5, <2>6 DEF WayInv
<1>8. CASE t # u
  <2>1. Nrs(wire', t) = Nrs(wire, t) /\ sent'[t] = sent[t]
    BY <1>3, <1>6, <1>8
  <2>2. InOrder(t)' /\ OnWay(t)' = OnWay(t)
    BY <1>2, <1>4, <1>6, <2>1 DEF InOrder, OnWay
  <2> QED BY <1>2, <2>1, <2>2 DEF WayInv
<1> QED BY <1>7, <1>8

LEMMA WayStep == Inv /\ [Next]_vars => \A t \in Turns : WayInv(t)'
<1> SUFFICES ASSUME Inv, [Next]_vars, NEW t \in Turns PROVE WayInv(t)'
  OBVIOUS
<1>0. /\ TypeInv /\ ListsInv /\ WayInv(t) /\ StageInv(t)
      /\ \A u \in Turns : SentInv(u) /\ WayInv(u)
  BY DEF Inv
<1>1. CASE Read
  BY <1>0, <1>1, WayRead
<1>2. CASE Listen
  BY <1>0, <1>2, WayListen
<1>3. CASE Quiet
  BY <1>0, <1>3, QuietKeeps, WayKept
<1>4. CASE Announces
  BY <1>0, <1>4, WayAnnounced
<1>5. ASSUME NEW u \in Turns, TurnStarted(u) PROVE WayInv(t)'
  BY <1>0, <1>5, WayStarted
<1>6. ASSUME NEW u \in Turns, TakeEvent(u) \/ TakeTerminal(u) PROVE WayInv(t)'
  <2>1. CASE u = t
    BY <1>0, <1>6, <2>1, Taken
  <2>2. CASE u # t
    <3>1. UNCHANGED <<queue[t], early[t], incoming, wire, sent[t], heard[t]>>
      BY <1>0, <1>6, <2>2, Taken
    <3> QED BY <1>0, <3>1, WayKept
  <2> QED BY <2>1, <2>2
<1>7. ASSUME NEW u \in Turns, Sends(u) PROVE WayInv(t)'
  BY <1>0, <1>7, WaySends
<1>8. CASE UNCHANGED vars
  BY <1>0, <1>8, WayKept DEF vars, clientVars, routerVars, serverVars, history
<1> QED BY <1>1, <1>2, <1>3, <1>4, <1>5, <1>6, <1>7, <1>8, StepKinds

-----------------------------------------------------------------------------
(* The stages of a stream.                                                 *)

LEMMA StageKept ==
  ASSUME NEW t \in Turns, StageInv(t), UNCHANGED <<status[t], queue[t], early[t], heard[t], result[t], outcome[t]>>,
         t \in registered' <=> t \in registered, threadError => threadError'
  PROVE  StageInv(t)'
BY DEF StageInv

LEMMA StageListen ==
  ASSUME TypeInv, ListsInv, Listen, NEW t \in Turns, StageInv(t)
  PROVE  StageInv(t)'
<1> DEFINE m == Head(incoming)
<1>1. UNCHANGED <<status, heard, registered, result, outcome, threadError>>
  BY DEF Listen, turnVars, serverVars, history
<1>2. UNCHANGED <<queue, early>> \/ handle_event(m)
  BY DEF Listen
<1>3. /\ t \notin registered => queue'[t] = queue[t]
      /\ t \in registered => early'[t] = early[t]
  <2>1. m.of = t => Route(m) = t
    BY NoTurnIsNoTurn DEF Route
  <2> HIDE DEF m
  <2>2. CASE Route(m) \in registered /\ handle_event(m)
    <3>1. queue' = [queue EXCEPT ![Route(m)] = Append(@, Event(m))] /\ UNCHANGED early
      BY <2>2 DEF handle_event
    <3> QED BY <2>2, <3>1 DEF ListsInv
  <2>3. CASE Route(m) \notin registered /\ handle_event(m)
    <3>1. early' = [early EXCEPT ![m.of] = Append(@, Event(m))] /\ UNCHANGED queue
      BY <2>3 DEF handle_event
    <3> QED BY <2>1, <2>3, <3>1 DEF ListsInv
  <2> QED BY <1>2, <2>2, <2>3
<1> QED BY <1>1, <1>3 DEF StageInv

LEMMA StageDecides ==
  ASSUME TypeInv, NEW u \in Turns, Decides(u), NEW t \in Turns, StageInv(t)
  PROVE  StageInv(t)'
<1>1. UNCHANGED <<queue, early, registered, heard, threadError, outcome>>
  BY QuietKeeps DEF Quiet
<1>2. UNCHANGED result
  BY DEF Decides, StartTurn, WriteRaises, TurnRefused, Answer, AnswerUnsupported, Stop, Stopped,
         turnVars, vars
<1>3. \/ status'[t] = status[t]
      \/ status[t] = "none" /\ status'[t] = "starting"
      \/ status[t] = "starting" /\ status'[t] = "raised"
      \/ status[t] = "paused" /\ status'[t] \in {"open", "left"}
  <2>1. CASE StartTurn(u) \/ WriteRaises(u) \/ TurnRefused(u)
    BY <2>1 DEF StartTurn, WriteRaises, TurnRefused, TypeInv
  <2>2. CASE Answer(u) \/ AnswerUnsupported(u)
    BY <2>2 DEF Answer, AnswerUnsupported, vars, turnVars, TypeInv
  <2>3. CASE Stop(u, "owner") \/ Stop(u, "idle")
    BY <2>3 DEF Stop
  <2>4. CASE Stopped(u, TRUE) \/ Stopped(u, FALSE)
    BY <2>4 DEF Stopped, TypeInv
  <2> QED BY <2>1, <2>2, <2>3, <2>4 DEF Decides
<1> QED BY <1>1, <1>2, <1>3 DEF StageInv

LEMMA StageTakes ==
  ASSUME TypeInv, ListsInv, NEW t \in Turns, SentInv(t), WayInv(t), StageInv(t),
         TakeEvent(t) \/ TakeTerminal(t)
  PROVE  StageInv(t)'
<1> DEFINE e == Head(queue[t])
<1>1. /\ UNCHANGED <<early, outcome, threadError>> /\ Len(heard[t]) \in Nat
      /\ \/ e.of = NoTurn /\ UNCHANGED heard
         \/ /\ e.of = t /\ e.nr \in 1 .. Len(sent[t]) /\ e = sent[t][e.nr]
            /\ Len(heard'[t]) = Len(heard[t]) + 1 /\ heard'[t][Len(heard[t]) + 1] = e
            /\ \A i \in 1 .. Len(heard[t]) : heard'[t][i] = heard[t][i]
  BY Taken, FirstOfQueue DEF TakeEvent, TakeTerminal
<1>2. IsKnown(e)
  BY FirstOfQueue DEF TakeEvent, TakeTerminal
<1> HIDE DEF e
<1>3. CASE TakeEvent(t)
  <2>1. /\ status[t] = "open" /\ status'[t] \in {"left", "paused", "open"}
        /\ UNCHANGED <<registered, result>> /\ e.kind \notin TerminalKinds
    BY <1>3 DEF TakeEvent, AfterYield, TypeInv, e
  <2>2. \A i \in 1 .. Len(heard'[t]) : heard'[t][i].kind \notin TerminalKinds
    <3> SUFFICES ASSUME NEW i \in 1 .. Len(heard'[t]) PROVE heard'[t][i].kind \notin TerminalKinds
      OBVIOUS
    <3>1. CASE i \in 1 .. Len(heard[t])
      BY <1>1, <2>1, <3>1 DEF StageInv
    <3>2. CASE i \notin 1 .. Len(heard[t])
      BY <1>1, <2>1, <3>2
    <3> QED BY <3>1, <3>2
  <2> QED BY <1>1, <2>1, <2>2 DEF StageInv
<1>4. CASE TakeTerminal(t)
  <2>1. /\ status'[t] = "closed" /\ t \notin registered' /\ result'[t] = e.kind
        /\ e.kind \in TerminalKinds
    BY <1>4 DEF TakeTerminal, unregister, TypeInv, e
  <2>2. e.of = t => e.kind = outcome[t]
    BY <1>1, <2>1, NoTurnIsNoTurn DEF SentInv
  <2>3. e.of = NoTurn => e.kind = "failed" /\ threadError
    BY <1>2, <2>1 DEF IsKnown, TerminalKinds
  <2> QED BY <1>1, <2>1, <2>2, <2>3 DEF StageInv
<1> QED BY <1>3, <1>4

LEMMA StageStep == Inv /\ [Next]_vars => \A t \in Turns : StageInv(t)'
<1> SUFFICES ASSUME Inv, [Next]_vars, NEW t \in Turns PROVE StageInv(t)'
  OBVIOUS
<1>0. /\ TypeInv /\ ListsInv /\ StageInv(t) /\ SentInv(t) /\ \A u \in Turns : SentInv(u) /\ WayInv(u)
  BY DEF Inv
<1>1. CASE Read
  BY <1>0, <1>1, StageKept DEF Read, routerVars, turnVars, history
<1>2. CASE Listen
  BY <1>0, <1>2, StageListen
<1>3. CASE ReadEnd \/ ServerExits
  <2>1. UNCHANGED <<status, queue, early, heard, result, outcome, registered, threadError>>
    BY <1>3 DEF ReadEnd, ServerExits, routerVars, turnVars, serverVars, history
  <2> QED BY <1>0, <2>1, StageKept
<1>4. ASSUME NEW u \in Turns, Decides(u) PROVE StageInv(t)'
  BY <1>0, <1>4, StageDecides
<1>5. CASE Announces
  BY <1>0, <1>5, Announced, StageKept
<1>6. ASSUME NEW u \in Turns, TurnStarted(u) PROVE StageInv(t)'
  <2>1. /\ registered' = registered \union {u} /\ status[u] = "starting"
        /\ status' = [status EXCEPT ![u] = "open"]
        /\ queue' = [queue EXCEPT ![u] = early[u] \o early[NoTurn]]
        /\ early' = [early EXCEPT ![u] = <<>>, ![NoTurn] = <<>>]
        /\ UNCHANGED <<heard, result, outcome, threadError>>
    BY <1>6 DEF TurnStarted, register, serverVars, history
  <2>2. CASE u = t
    <3>1. heard[t] = <<>> /\ Len(heard[t]) = 0
      BY <1>0, <2>1, <2>2 DEF StageInv
    <3>2. early'[t] = <<>> /\ status'[t] = "open" /\ t \in registered'
      BY <1>0, <2>1, <2>2, NoTurnIsNoTurn DEF ListsInv, TypeInv
    <3> QED BY <1>0, <2>1, <3>1, <3>2 DEF StageInv
  <2>3. CASE u # t
    <3>1. UNCHANGED <<status[t], queue[t], early[t], heard[t], result[t], outcome[t]>>
          /\ (t \in registered' <=> t \in registered)
      BY <1>0, <2>1, <2>3, NoTurnIsNoTurn DEF ListsInv, TypeInv
    <3> QED BY <1>0, <2>1, <3>1, StageKept
  <2> QED BY <2>2, <2>3
<1>7. ASSUME NEW u \in Turns, TakeEvent(u) \/ TakeTerminal(u) PROVE StageInv(t)'
  <2>1. CASE u = t
    BY <1>0, <1>7, <2>1, StageTakes
  <2>2. CASE u # t
    <3>1. /\ UNCHANGED <<queue[t], early, heard[t], status[t], result[t], outcome, threadError>>
      BY <1>0, <1>7, <2>2, Taken
    <3>2. t \in registered' <=> t \in registered
      BY <1>7, <2>2 DEF TakeEvent, TakeTerminal, unregister
    <3> QED BY <1>0, <3>1, <3>2, StageKept
  <2> QED BY <2>1, <2>2
<1>8. ASSUME NEW u \in Turns, Sends(u) PROVE StageInv(t)'
  <2>1. UNCHANGED <<status, queue, early, heard, result, registered, threadError>>
    BY <1>8 DEF Sends, ServerWrites, ServerAsks, ServerEnds, Send, clientVars, routerVars, turnVars
  <2>2. \/ outcome' = outcome
        \/ u \in running /\ \E how \in TerminalKinds : outcome' = [outcome EXCEPT ![u] = how]
    BY <1>0, <1>8, Sent
  <2>3. outcome'[t] = outcome[t] \/ outcome[t] = "none"
    BY <1>0, <2>2 DEF SentInv, TypeInv
  <2> QED BY <1>0, <2>1, <2>3 DEF StageInv
<1>9. CASE UNCHANGED vars
  BY <1>0, <1>9, StageKept DEF vars, routerVars, turnVars, serverVars, history
<1> QED BY <1>1, <1>2, <1>3, <1>4, <1>5, <1>6, <1>7, <1>8, <1>9, StepKinds DEF Quiet

-----------------------------------------------------------------------------
(* The request table.                                                      *)

LEMMA Removal ==
  ASSUME TypeInv, NEW i \in 1 .. Len(requests), requests' = RemoveAt(requests, i)
  PROVE  /\ \A j \in 1 .. Len(requests') :
              \E k \in 1 .. Len(requests) : k # i /\ requests'[j] = requests[k]
         /\ \A k \in 1 .. Len(requests) : k # i => \E j \in 1 .. Len(requests') : requests'[j] = requests[k]
         /\ \A j1, j2 \in 1 .. Len(requests') : j1 < j2 =>
              \E k1, k2 \in 1 .. Len(requests) :
                k1 < k2 /\ requests'[j1] = requests[k1] /\ requests'[j2] = requests[k2]
<1> DEFINE s == requests
           r == requests'
<1>1. /\ Len(r) = Len(s) - 1 /\ Len(s) \in Nat /\ i \in 1 .. Len(s)
      /\ \A j \in 1 .. Len(s) - 1 : r[j] = IF j < i THEN s[j] ELSE s[j + 1]
  <2>1. s \in Seq([name : Requests, kind : RequestKinds])
    BY DEF TypeInv
  <2> QED BY <2>1, RemoveRequest, LenProperties
<1> HIDE DEF s, r
<1> DEFINE at(j) == IF j < i THEN j ELSE j + 1
<1>2. \A j \in 1 .. Len(r) : at(j) \in 1 .. Len(s) /\ at(j) # i /\ r[j] = s[at(j)]
  BY <1>1
<1>3. \A j1, j2 \in 1 .. Len(r) : j1 < j2 => at(j1) < at(j2)
  BY <1>1
<1>4. ASSUME NEW k \in 1 .. Len(s), k # i PROVE \E j \in 1 .. Len(r) : r[j] = s[k]
  <2>1. CASE k < i
    <3>1. k \in 1 .. Len(r) /\ r[k] = s[k]
      BY <1>1, <2>1
    <3> QED BY <3>1
  <2>2. CASE ~(k < i)
    <3>1. k - 1 \in 1 .. Len(r) /\ ~(k - 1 < i) /\ (k - 1) + 1 = k
      BY <1>1, <1>4, <2>2
    <3>2. r[k - 1] = s[k]
      BY <1>1, <3>1
    <3> QED BY <3>1, <3>2
  <2> QED BY <2>1, <2>2
<1> HIDE DEF at
<1> QED BY <1>2, <1>3, <1>4 DEF s, r

LEMMA TableTypes ==
  ASSUME TypeInv
  PROVE  /\ Len(requests) \in Nat
         /\ \A i \in 1 .. Len(requests) :
              /\ requests[i] \in [name : Requests, kind : RequestKinds]
              /\ requests[i].name[1] \in Turns /\ requests[i].name[2] \in Nat
<1>1. requests \in Seq([name : Requests, kind : RequestKinds])
  BY DEF TypeInv
<1>2. Len(requests) \in Nat
  BY <1>1, LenProperties
<1>3. \A i \in 1 .. Len(requests) : requests[i] \in [name : Requests, kind : RequestKinds]
  BY <1>1, ElementOfSeq
<1>4. \A r \in Requests : r[1] \in Turns /\ r[2] \in Nat
  BY DEF Requests
<1> QED BY <1>2, <1>3, <1>4

\* The table keeps what it says of a turn when it is the same, the turn's
\* account grows at its end only, and so does what is still to be routed.
LEMMA TableKept ==
  ASSUME NEW t \in Turns, TableInv(t), UNCHANGED requests, SentGrows,
         \A n \in Nrs(incoming', t) \union Nrs(wire', t) :
           n \in Nrs(incoming, t) \union Nrs(wire, t) \/ (n \in Nat /\ n > Len(sent[t]))
  PROVE  TableInv(t)'
<1>1. /\ Len(sent[t]) \in Nat /\ Len(sent'[t]) \in Nat /\ Len(sent[t]) <= Len(sent'[t])
      /\ \A n \in 1 .. Len(sent[t]) : sent'[t][n] = sent[t][n]
  BY DEF SentGrows
<1>2. ASSUME NEW r, Routed(r, t) PROVE Routed(r, t)'
  <2> DEFINE n == r.name[2]
  <2>1. /\ n \in 1 .. Len(sent[t]) /\ r = RequestOf(t, n)
        /\ Below({n}, Nrs(incoming, t) \union Nrs(wire, t))
    BY <1>2 DEF Routed
  <2>2. n \in 1 .. Len(sent'[t])
    BY <1>1, <2>1
  <2>3. r = RequestOf(t, n)'
    BY <1>1, <2>1 DEF RequestOf
  <2> HIDE DEF n
  <2>4. ASSUME NEW k \in Nrs(incoming', t) \union Nrs(wire', t) PROVE n < k
    <3>1. CASE k \in Nrs(incoming, t) \union Nrs(wire, t)
      BY <2>1, <3>1 DEF Below
    <3>2. CASE k \in Nat /\ k > Len(sent[t])
      BY <1>1, <2>1, <3>2
    <3> QED BY <2>4, <3>1, <3>2
  <2>5. Below({n}, Nrs(incoming', t) \union Nrs(wire', t))
    BY <2>4 DEF Below
  <2> QED BY <2>2, <2>3, <2>5 DEF Routed, n
<1> QED BY <1>2 DEF TableInv

LEMMA TableListen ==
  ASSUME TypeInv, ListsInv, \A u \in Turns : SentInv(u), Listen,
         NEW t \in Turns, TableInv(t), WayInv(t)
  PROVE  TableInv(t)'
<1> DEFINE m == Head(incoming)
           e == Event(m)
           q == [name |-> <<m.of, m.nr>>, kind |-> EventKind(m)]
<1>1. incoming # <<>> /\ incoming \in Seq(Messages) /\ m \in Messages /\ incoming' = Tail(incoming)
  BY ListTypes, HeadTailProperties DEF Listen
<1>2. /\ Nrs(incoming, t) = One(m, t) \union Nrs(incoming', t)
      /\ Below(One(m, t), Nrs(incoming', t))
  BY <1>1, TailList DEF WayInv, InOrder
<1>3. UNCHANGED <<wire, sent, threadError>> /\ SentGrows
  BY SentKept DEF Listen, serverVars, history
<1>4. Below(Nrs(incoming, t), Nrs(wire, t))
  BY DEF WayInv, InOrder, Below
<1>5. CASE UNCHANGED requests
  BY <1>2, <1>3, <1>5, TableKept
<1>6. CASE requests' # requests
  <2>1. /\ m.kind \notin {"malformed", "retrying"} /\ EventKind(m) \in RequestKinds
        /\ requests' = Append(requests, q)
    BY <1>6 DEF Listen, Translated, handle_event
  <2>2. /\ m.kind \notin Silent /\ e.kind = EventKind(m) /\ e.of = m.of /\ e.nr = m.nr
        /\ m.of # NoTurn => m.nr \in 1 .. Len(sent[m.of]) /\ e = sent[m.of][m.nr]
        /\ m.of # NoTurn /\ m.of \in Turns /\ <<m.of, m.nr>> \in Requests
    BY <1>1, <2>1, FirstListened, EventOfMessage
  <2>3. q \in [name : Requests, kind : RequestKinds] /\ q.name[1] = m.of /\ q.name[2] = m.nr
        /\ q.kind = EventKind(m)
    BY <2>1, <2>2
  <2>4. requests \in Seq([name : Requests, kind : RequestKinds])
    BY DEF TypeInv
  <2> DEFINE new == requests'
  <2>5. /\ Len(new) = Len(requests) + 1 /\ Len(requests) \in Nat /\ new[Len(requests) + 1] = q
        /\ \A i \in 1 .. Len(requests) : new[i] = requests[i]
    <3> HIDE DEF q
    <3> QED BY <2>1, <2>3, <2>4, AppendProperties, LenProperties
  <2>6. \A i \in 1 .. Len(new) : i \in 1 .. Len(requests) \/ i = Len(requests) + 1
    BY <2>5
  <2>7. m.of = t => One(m, t) = {m.nr} /\ q = RequestOf(t, m.nr) /\ m.nr \in 1 .. Len(sent[t])
    BY <2>2 DEF One, Concerns, RequestOf
  <2> HIDE DEF m, e, q, new
  <2>8. ASSUME NEW r, Routed(r, t)
        PROVE  Routed(r, t)' /\ (m.of = t => r.name[2] < m.nr)
    <3> DEFINE n == r.name[2]
    <3>1. /\ n \in 1 .. Len(sent[t]) /\ r = RequestOf(t, n)
          /\ Below({n}, Nrs(incoming, t) \union Nrs(wire, t))
      BY <2>8 DEF Routed
    <3>2. r = RequestOf(t, n)' /\ n \in 1 .. Len(sent'[t])
      BY <1>3, <3>1 DEF RequestOf
    <3> HIDE DEF n
    <3>3. Below({n}, Nrs(incoming', t) \union Nrs(wire', t)) /\ (m.of = t => n < m.nr)
      BY <1>2, <1>3, <2>7, <3>1 DEF Below
    <3> QED BY <3>2, <3>3 DEF n, Routed
  <2>9. ASSUME m.of = t, NEW r, r = q PROVE Routed(r, t)'
    <3>1. m.nr \in 1 .. Len(sent'[t]) /\ r = RequestOf(t, m.nr) /\ r.name[2] = m.nr
      BY <1>3, <2>3, <2>7, <2>9
    <3>2. RequestOf(t, m.nr) = [name |-> <<t, m.nr>>, kind |-> sent'[t][m.nr].kind]
      BY <1>3 DEF RequestOf
    <3>3. m.nr \in One(m, t)
      BY <2>7, <2>9
    <3>4. Below({m.nr}, Nrs(incoming', t) \union Nrs(wire', t))
      <4>1. m.nr \in Nrs(incoming, t)
        BY <1>2, <3>3
      <4> QED BY <1>2, <1>3, <1>4, <3>3, <4>1 DEF Below
    <3> DEFINE n == m.nr
    <3> HIDE DEF n
    <3>5. r.name[2] = n /\ n \in 1 .. Len(sent'[t]) /\ Below({n}, Nrs(incoming', t) \union Nrs(wire', t))
          /\ r = [name |-> <<t, n>>, kind |-> sent'[t][n].kind]
      BY <3>1, <3>2, <3>4 DEF n
    <3> QED BY <3>5 DEF Routed, RequestOf
  <2>10. ASSUME NEW i \in 1 .. Len(new), NEW r, r = new[i], r.name[1] = t
         PROVE  Routed(r, t)'
    <3>1. CASE i \in 1 .. Len(requests)
      <4>1. r = requests[i]
        BY <2>5, <2>10, <3>1
      <4>2. Routed(r, t)
        BY <2>10, <3>1, <4>1 DEF TableInv
      <4> QED BY <2>8, <4>2
    <3>2. CASE i = Len(requests) + 1
      <4>1. m.of = t /\ r = q
        BY <2>3, <2>5, <2>10, <3>2
      <4> QED BY <2>9, <4>1
    <3> QED BY <2>6, <2>10, <3>1, <3>2
  <2>11. ASSUME NEW i \in 1 .. Len(new), NEW j \in 1 .. Len(new), i < j,
                new[i].name[1] = t, new[j].name[1] = t
         PROVE  new[i].name[2] < new[j].name[2]
    <3>1. i \in 1 .. Len(requests)
      BY <2>5, <2>6, <2>11
    <3>2. CASE j \in 1 .. Len(requests)
      BY <2>5, <2>11, <3>1, <3>2 DEF TableInv
    <3>3. CASE j = Len(requests) + 1
      <4>1. m.of = t /\ new[j].name[2] = m.nr
        BY <2>3, <2>5, <2>11, <3>3
      <4>2. Routed(requests[i], t) /\ new[i] = requests[i]
        BY <2>5, <2>11, <3>1 DEF TableInv
      <4>3. requests[i].name[2] < m.nr
        BY <2>8, <4>1, <4>2
      <4> QED BY <4>1, <4>2, <4>3
    <3> QED BY <2>6, <3>2, <3>3
  <2>12. \A i \in 1 .. Len(requests') : requests'[i].name[1] = t => Routed(requests[i], t)'
    BY <2>10 DEF new, Routed, RequestOf
  <2> QED BY <2>11, <2>12 DEF TableInv, new
<1> QED BY <1>5, <1>6

\* The request that an answer takes from the table is the one its owner was
\* shown, unless the server is gone.
LEMMA AnswerTakes ==
  ASSUME TypeInv, NEW t \in Turns, TableInv(t), AskingInv(t), Answer(t)
  PROVE  \E i \in 1 .. Len(requests) :
           /\ requests' = RemoveAt(requests, i) /\ requests[i].name[1] = t
           /\ asked' = [asked EXCEPT ![requests[i].name] = IF alive /\ @ = "open" THEN "answered" ELSE @]
           /\ alive => requests[i] = shown[t]
           /\ \A j \in 1 .. Len(requests) : requests[j] = shown[t] => j = i
<1>1. PICK i \in Accepts(t, shown[t]) :
        /\ \A j \in Accepts(t, shown[t]) : i <= j
        /\ requests' = RemoveAt(requests, i)
        /\ asked' = [asked EXCEPT ![requests[i].name] = IF alive /\ @ = "open" THEN "answered" ELSE @]
  BY DEF Answer
<1>2. i \in 1 .. Len(requests) /\ requests[i].name[1] = t
  BY DEF Accepts
<1>3. status[t] = "paused" /\ Asking(t)
  BY DEF Answer, Asking
<1>4. Len(heard[t]) \in Nat /\ shown[t] = RequestOf(t, Len(heard[t]))
  BY <1>3, LenProperties DEF AskingInv, ShownInv, LaterInv, KeptInv, TypeInv
<1>5. ASSUME NEW j \in 1 .. Len(requests), requests[j] = shown[t] PROVE j = i
  <2>1. requests[j].name[1] = t /\ requests[j].name[2] = Len(heard[t])
    BY <1>4, <1>5 DEF RequestOf
  <2>2. j \in Accepts(t, shown[t])
    BY <1>5, <2>1 DEF Accepts
  <2>3. i <= j
    BY <1>1, <2>2
  <2>4. ASSUME i < j PROVE FALSE
    <3>1. requests[i].name[2] < Len(heard[t])
      BY <1>2, <2>1, <2>4 DEF TableInv
    <3>2. requests[i].name[2] > Len(heard[t]) \/ requests[i] = shown[t]
      BY <1>2, <1>3 DEF AskingInv, ShownInv, LaterInv, KeptInv
    <3>3. requests[i].name[2] \in Nat
      BY <1>2, TableTypes
    <3>4. requests[i] = shown[t] => requests[i].name[2] = Len(heard[t])
      BY <1>4 DEF RequestOf
    <3> QED BY <1>4, <3>1, <3>2, <3>3, <3>4
  <2>5. i \in Nat /\ j \in Nat
    BY <1>2, <1>5, TableTypes
  <2> QED BY <2>3, <2>4, <2>5
<1>6. alive => requests[i] = shown[t]
  BY <1>3, <1>5 DEF AskingInv, ShownInv, LaterInv, KeptInv
<1> QED BY <1>1, <1>2, <1>5, <1>6

LEMMA TableAnswer ==
  ASSUME TypeInv, NEW u \in Turns, TableInv(u), AskingInv(u), Answer(u), NEW t \in Turns, TableInv(t)
  PROVE  TableInv(t)'
<1>1. PICK i \in 1 .. Len(requests) : requests' = RemoveAt(requests, i)
  BY AnswerTakes
<1>2. UNCHANGED <<sent, incoming, wire>>
  BY DEF Answer, clientVars, history
<1>4. /\ \A j \in 1 .. Len(requests') : \E k \in 1 .. Len(requests) : k # i /\ requests'[j] = requests[k]
      /\ \A j1, j2 \in 1 .. Len(requests') : j1 < j2 =>
           \E k1, k2 \in 1 .. Len(requests) :
             k1 < k2 /\ requests'[j1] = requests[k1] /\ requests'[j2] = requests[k2]
  BY <1>1, Removal
<1>5. \A r : Routed(r, t)' <=> Routed(r, t)
  BY <1>2 DEF Routed, RequestOf
<1>6. ASSUME NEW j \in 1 .. Len(requests'), requests'[j].name[1] = t
      PROVE  Routed(requests[j], t)'
  <2>1. PICK k \in 1 .. Len(requests) : requests'[j] = requests[k]
    BY <1>4
  <2>2. Routed(requests[k], t)
    BY <1>6, <2>1 DEF TableInv
  <2> QED BY <1>5, <2>1, <2>2 DEF Routed, RequestOf
<1>7. ASSUME NEW j1 \in 1 .. Len(requests'), NEW j2 \in 1 .. Len(requests'), j1 < j2,
             requests'[j1].name[1] = t, requests'[j2].name[1] = t
      PROVE  requests'[j1].name[2] < requests'[j2].name[2]
  <2>1. PICK k1 \in 1 .. Len(requests), k2 \in 1 .. Len(requests) :
          k1 < k2 /\ requests'[j1] = requests[k1] /\ requests'[j2] = requests[k2]
    BY <1>4, <1>7
  <2> QED BY <1>7, <2>1 DEF TableInv
<1> QED BY <1>6, <1>7 DEF TableInv

LEMMA TableStep == Inv /\ [Next]_vars => \A t \in Turns : TableInv(t)'
<1> SUFFICES ASSUME Inv, [Next]_vars, NEW t \in Turns PROVE TableInv(t)'
  OBVIOUS
<1>0. /\ TypeInv /\ ListsInv /\ WayInv(t) /\ TableInv(t)
      /\ \A u \in Turns : SentInv(u) /\ WayInv(u) /\ TableInv(u) /\ AskingInv(u)
  BY DEF Inv
<1>a. SentGrows
  BY <1>0, TypeStep, AccountsGrow
<1>b. ASSUME UNCHANGED <<requests, incoming, wire>> PROVE TableInv(t)'
  BY <1>0, <1>a, <1>b, TableKept
<1>1. CASE Read
  <2>1. wire # <<>> /\ wire \in Seq(Messages) /\ incoming \in Seq(Messages) /\ Head(wire) \in Messages
    BY <1>0, <1>1, ListTypes, HeadTailProperties DEF Read
  <2>2. Nrs(wire, t) = One(Head(wire), t) \union Nrs(wire', t)
    BY <1>1, <2>1, TailList DEF Read
  <2>3. incoming' = incoming \/ incoming' = Append(incoming, Head(wire))
    BY <1>1 DEF Read
  <2>4. Nrs(incoming', t) \subseteq Nrs(incoming, t) \union One(Head(wire), t)
    <3>1. Nrs(Append(incoming, Head(wire)), t) = Nrs(incoming, t) \union One(Head(wire), t)
      BY <2>1, AppendList
    <3>2. CASE incoming' = incoming
      BY <3>2
    <3>3. CASE incoming' = Append(incoming, Head(wire))
      BY <3>1, <3>3
    <3> QED BY <2>3, <3>2, <3>3
  <2>5. UNCHANGED requests
    BY <1>1 DEF Read, routerVars
  <2> QED BY <1>0, <1>a, <2>2, <2>4, <2>5, TableKept
<1>2. CASE Listen
  BY <1>0, <1>2, TableListen
<1>3. CASE ReadEnd \/ ServerExits
  BY <1>3, <1>b DEF ReadEnd, ServerExits, clientVars, routerVars, serverVars
<1>4. ASSUME NEW u \in Turns, Decides(u), ~Answer(u) PROVE TableInv(t)'
  <2>1. UNCHANGED <<incoming, wire>>
    BY <1>4, QuietKeeps DEF Quiet
  <2>2. UNCHANGED requests
    BY <1>4 DEF Decides, StartTurn, WriteRaises, TurnRefused, AnswerUnsupported, Stop, Stopped,
                routerVars, vars
  <2> QED BY <1>b, <2>1, <2>2
<1>5. ASSUME NEW u \in Turns, Answer(u) PROVE TableInv(t)'
  BY <1>0, <1>5, TableAnswer
<1>6. CASE Announces
  BY <1>0, <1>a, <1>6, Announced, WayAnnounced, TableKept
<1>7. ASSUME NEW u \in Turns, TurnStarted(u) \/ TakeEvent(u) \/ TakeTerminal(u) PROVE TableInv(t)'
  BY <1>7, <1>b DEF TurnStarted, TakeEvent, TakeTerminal, Returns, clientVars, serverVars
<1>8. ASSUME NEW u \in Turns, Sends(u) PROVE TableInv(t)'
  <2>1. PICK messages : AreNext(u, messages) /\ Send(u, messages)
    BY <1>0, <1>8, Sent
  <2>2. UNCHANGED <<requests, incoming>>
    BY <1>8 DEF Sends, ServerWrites, ServerAsks, ServerEnds, clientVars, routerVars
  <2>3. \A n \in Nrs(wire', t) : n \in Nrs(wire, t) \/ (t = u /\ n \in (Len(sent[u]) + 1) .. Len(sent'[u]))
    BY <1>0, <2>1, Wired
  <2>4. Len(sent[u]) \in Nat /\ Len(sent'[u]) \in Nat
    BY <1>a DEF SentGrows
  <2>5. \A n \in Nrs(wire', t) : n \in Nrs(wire, t) \/ (n \in Nat /\ n > Len(sent[t]))
    BY <2>3, <2>4
  <2> QED BY <1>0, <1>a, <2>2, <2>5, TableKept
<1>9. CASE UNCHANGED vars
  BY <1>9, <1>b DEF vars, clientVars, routerVars, serverVars
<1> QED BY <1>1, <1>2, <1>3, <1>4, <1>5, <1>6, <1>7, <1>8, <1>9, StepKinds DEF Quiet

-----------------------------------------------------------------------------
(* Requests and their owners.                                              *)

\* What is on its way to the consumer has been sent and not heard.
LEMMA Waiting ==
  ASSUME TypeInv, NEW t \in Turns, WayInv(t)
  PROVE  /\ Len(heard[t]) \in Nat /\ Len(sent[t]) \in Nat /\ Len(heard[t]) <= Len(sent[t])
         /\ \A n \in OnWay(t) : n \in 1 .. Len(sent[t]) /\ n > Len(heard[t])
<1>1. Len(heard[t]) \in Nat /\ Len(sent[t]) \in Nat
  BY LenProperties DEF TypeInv
<1>2. OnWay(t) = (Len(heard[t]) + 1) .. Len(sent[t]) /\ Len(heard[t]) <= Len(sent[t])
  BY DEF WayInv
<1> QED BY <1>1, <1>2

\* A request keeps its name and kind.
LEMMA RequestStays ==
  ASSUME SentGrows, NEW t \in Turns, NEW n \in 1 .. Len(sent[t])
  PROVE  sent'[t][n] = sent[t][n] /\ RequestOf(t, n)' = RequestOf(t, n)
BY DEF SentGrows, RequestOf

LEMMA AskingKept ==
  ASSUME TypeInv, NEW t \in Turns, AskingInv(t), WayInv(t), SentGrows,
         UNCHANGED <<requests, heard[t], shown[t]>>, alive' => alive, Asking(t)' => Asking(t),
         status'[t] = "paused" => status[t] = "paused",
         Asking(t)' /\ status[t] = "paused" => status'[t] = "paused",
         Nrs(queue'[t], t) \union Nrs(early'[t], t) \subseteq Nrs(queue[t], t) \union Nrs(early[t], t)
  PROVE  AskingInv(t)'
<1>1. /\ Len(heard[t]) \in Nat /\ Len(sent[t]) \in Nat /\ Len(heard[t]) <= Len(sent[t])
      /\ \A n \in OnWay(t) : n \in 1 .. Len(sent[t])
  BY Waiting
<1>2. \A n \in 1 .. Len(sent[t]) : sent'[t][n] = sent[t][n] /\ RequestOf(t, n)' = RequestOf(t, n)
  BY RequestStays
<1>3. ShownInv(t)'
  <2> SUFFICES ASSUME status'[t] = "paused"
               PROVE  Len(heard'[t]) > 0 /\ shown'[t] = RequestOf(t, Len(heard[t]))'
    BY DEF ShownInv
  <2>1. Len(heard[t]) > 0 /\ shown[t] = RequestOf(t, Len(heard[t]))
    BY DEF AskingInv, ShownInv
  <2>2. Len(heard[t]) \in 1 .. Len(sent[t])
    BY <1>1, <2>1
  <2> QED BY <1>2, <2>1, <2>2 DEF RequestOf
<1>4. LaterInv(t)'
  BY DEF AskingInv, LaterInv
<1>5. KeptInv(t)'
  <2> SUFFICES ASSUME alive' PROVE KeptInv(t)'
    BY DEF KeptInv
  <2>1. ASSUME NEW n \in Nrs(queue'[t], t) \union Nrs(early'[t], t), sent'[t][n].kind \in RequestKinds
        PROVE  \E i \in 1 .. Len(requests) : requests[i] = [name |-> <<t, n>>, kind |-> sent'[t][n].kind]
    <3>1. n \in Nrs(queue[t], t) \union Nrs(early[t], t) /\ n \in 1 .. Len(sent[t])
      BY <1>1, <2>1 DEF OnWay
    <3>2. sent'[t][n] = sent[t][n]
      BY <1>2, <3>1
    <3> QED BY <2>1, <3>1, <3>2 DEF AskingInv, KeptInv, RequestOf
  <2>2. status'[t] = "paused" => \E i \in 1 .. Len(requests) : requests[i] = shown[t]
    BY DEF AskingInv, KeptInv
  <2> QED BY <2>1, <2>2 DEF KeptInv, RequestOf
<1> QED BY <1>3, <1>4, <1>5 DEF AskingInv

LEMMA AskingListen ==
  ASSUME TypeInv, ListsInv, \A u \in Turns : SentInv(u), Listen,
         NEW t \in Turns, WayInv(t), StageInv(t), AskingInv(t)
  PROVE  AskingInv(t)'
<1> DEFINE m == Head(incoming)
           q == [name |-> <<m.of, m.nr>>, kind |-> EventKind(m)]
<1>1. /\ UNCHANGED <<sent, heard, status, stopped, shown, alive>>
      /\ incoming # <<>> /\ incoming \in Seq(Messages) /\ m \in Messages
  BY ListTypes, HeadTailProperties DEF Listen, turnVars, serverVars, history
<1>2. Nrs(queue'[t], t) \union Nrs(early'[t], t)
        \subseteq Nrs(queue[t], t) \union Nrs(early[t], t) \union One(m, t)
  BY WayListen
<1>3. \/ /\ UNCHANGED requests
         /\ m.kind \in {"malformed", "retrying"} \/ EventKind(m) \notin RequestKinds
      \/ /\ m.kind \notin {"malformed", "retrying"} /\ EventKind(m) \in RequestKinds
         /\ requests' = Append(requests, q)
  BY DEF Listen, Translated, handle_event
<1>4. m.kind \notin {"malformed", "retrying"} /\ m.of = t =>
        One(m, t) = {m.nr} /\ m.nr \in 1 .. Len(sent[t]) /\ sent[t][m.nr].kind = EventKind(m)
  BY <1>1, FirstListened, EventOfMessage, NoTurnIsNoTurn DEF One, Concerns
<1>5. m.kind \in {"malformed", "retrying"} \/ m.of # t => One(m, t) = {}
  BY DEF One, Concerns, Silent
<1>6. One(m, t) \subseteq OnWay(t)
  BY <1>1, TailList DEF OnWay
<1>7. /\ Len(requests) \in Nat /\ Len(requests) <= Len(requests')
      /\ \A i \in 1 .. Len(requests) : i \in 1 .. Len(requests') /\ requests'[i] = requests[i]
      /\ \A i \in 1 .. Len(requests') : i \in 1 .. Len(requests) \/
           (requests'[i] = q /\ m.kind \notin {"malformed", "retrying"} /\ EventKind(m) \in RequestKinds)
      /\ m.kind \notin {"malformed", "retrying"} /\ EventKind(m) \in RequestKinds =>
           \E i \in 1 .. Len(requests') : requests'[i] = q
  <2>1. Len(requests) \in Nat
    BY TableTypes
  <2>2. CASE UNCHANGED requests /\ (m.kind \in {"malformed", "retrying"} \/ EventKind(m) \notin RequestKinds)
    BY <2>1, <2>2
  <2>3. CASE requests' = Append(requests, q) /\ m.kind \notin {"malformed", "retrying"}
             /\ EventKind(m) \in RequestKinds
    <3>1. q \in [name : Requests, kind : RequestKinds]
      BY <1>1, <2>3, FirstListened, EventOfMessage
    <3>2. requests \in Seq([name : Requests, kind : RequestKinds])
      BY DEF TypeInv
    <3> HIDE DEF q, m
    <3>3. /\ Len(requests') = Len(requests) + 1 /\ requests'[Len(requests) + 1] = q
          /\ \A i \in 1 .. Len(requests) : requests'[i] = requests[i]
      BY <2>3, <3>1, <3>2, AppendProperties
    <3>4. Len(requests) + 1 \in 1 .. Len(requests') /\ Len(requests) <= Len(requests')
      BY <2>1, <3>3
    <3>5. \A i \in 1 .. Len(requests) : i \in 1 .. Len(requests')
      BY <2>1, <3>3
    <3>6. \A i \in 1 .. Len(requests') : i \in 1 .. Len(requests) \/ i = Len(requests) + 1
      BY <2>1, <3>3
    <3>7. \A i \in 1 .. Len(requests') : i \in 1 .. Len(requests) \/
            (requests'[i] = q /\ m.kind \notin {"malformed", "retrying"} /\ EventKind(m) \in RequestKinds)
      BY <2>3, <3>3, <3>6
    <3>8. \E i \in 1 .. Len(requests') : requests'[i] = q
      BY <3>3, <3>4
    <3>9. \A i \in 1 .. Len(requests) : i \in 1 .. Len(requests') /\ requests'[i] = requests[i]
      BY <3>3, <3>5
    <3>10. Len(requests) \in Nat /\ Len(requests) <= Len(requests')
      BY <2>1, <3>4
    <3> QED BY <3>7, <3>8, <3>9, <3>10
  <2> QED BY <1>3, <2>2, <2>3
<1>8. Len(heard[t]) \in Nat /\ \A n \in OnWay(t) : n \in 1 .. Len(sent[t]) /\ n > Len(heard[t])
  BY Waiting
<1>q. q.name[1] = m.of /\ q.name[2] = m.nr /\ q.kind = EventKind(m) /\ q = [name |-> <<m.of, m.nr>>, kind |-> EventKind(m)]
  OBVIOUS
<1> HIDE DEF m, q
<1>9. ShownInv(t)'
  BY <1>1 DEF AskingInv, ShownInv, RequestOf
<1>10. LaterInv(t)'
  <2> SUFFICES ASSUME Asking(t)', NEW i \in 1 .. Len(requests'), requests'[i].name[1] = t
               PROVE  requests'[i].name[2] > Len(heard[t])
                      \/ (status[t] = "paused" /\ requests'[i] = shown[t])
    BY <1>1 DEF LaterInv
  <2>1. CASE i \in 1 .. Len(requests)
    BY <1>1, <1>7, <2>1 DEF AskingInv, LaterInv, Asking
  <2>2. CASE requests'[i] = q /\ m.kind \notin {"malformed", "retrying"}
    BY <1>4, <1>6, <1>8, <1>q, <2>2
  <2> QED BY <1>7, <2>1, <2>2
<1>11. KeptInv(t)'
  <2> SUFFICES ASSUME alive PROVE KeptInv(t)'
    BY <1>1 DEF KeptInv
  <2>1. ASSUME NEW n \in Nrs(queue'[t], t) \union Nrs(early'[t], t), sent[t][n].kind \in RequestKinds
        PROVE  \E i \in 1 .. Len(requests') : requests'[i] = RequestOf(t, n)
    <3>1. CASE n \in Nrs(queue[t], t) \union Nrs(early[t], t)
      <4>1. PICK i \in 1 .. Len(requests) : requests[i] = RequestOf(t, n)
        BY <2>1, <3>1 DEF AskingInv, KeptInv
      <4> QED BY <1>7, <4>1
    <3>2. CASE n \in One(m, t)
      <4>1. m.of = t /\ m.kind \notin {"malformed", "retrying"}
        BY <1>5, <3>2
      <4>2. n = m.nr /\ EventKind(m) \in RequestKinds /\ q = RequestOf(t, n)
        BY <1>4, <1>q, <2>1, <3>2, <4>1 DEF RequestOf
      <4>3. \E i \in 1 .. Len(requests') : requests'[i] = q
        BY <1>7, <4>1, <4>2
      <4> QED BY <4>2, <4>3
    <3> QED BY <1>2, <2>1, <3>1, <3>2
  <2>2. status[t] = "paused" => \E i \in 1 .. Len(requests') : requests'[i] = shown[t]
    <3> SUFFICES ASSUME status[t] = "paused" PROVE \E i \in 1 .. Len(requests') : requests'[i] = shown[t]
      OBVIOUS
    <3>1. PICK i \in 1 .. Len(requests) : requests[i] = shown[t]
      BY DEF AskingInv, KeptInv
    <3> QED BY <1>7, <3>1
  <2> QED BY <1>1, <2>1, <2>2 DEF KeptInv, RequestOf
<1> QED BY <1>9, <1>10, <1>11 DEF AskingInv

LEMMA AskingTakes ==
  ASSUME TypeInv, ListsInv, NEW t \in Turns, SentInv(t), WayInv(t), TableInv(t), AskingInv(t),
         TakeEvent(t) \/ TakeTerminal(t)
  PROVE  AskingInv(t)'
<1> DEFINE e == Head(queue[t])
<1>1. /\ UNCHANGED <<early, sent, alive, requests, stopped>> /\ queue'[t] = Tail(queue[t])
      /\ Len(heard[t]) \in Nat /\ Len(sent[t]) \in Nat
      /\ \/ /\ e.of = NoTurn /\ UNCHANGED heard /\ e.kind \notin RequestKinds
            /\ Nrs(queue[t], t) = Nrs(queue'[t], t)
         \/ /\ e.of = t /\ e.nr = Len(heard[t]) + 1 /\ e.nr <= Len(sent[t]) /\ e = sent[t][e.nr]
            /\ Nrs(queue[t], t) = {e.nr} \union Nrs(queue'[t], t)
            /\ Len(heard'[t]) = Len(heard[t]) + 1
  <2>1. queue'[t] = Tail(queue[t])
    BY Taken DEF ListsInv
  <2> QED BY <2>1, Taken
<1>2. /\ status[t] = "open" /\ status'[t] \in {"closed", "left", "paused", "open"}
      /\ status'[t] = "open" => e.kind \notin RequestKinds \/ stopped[t] # "no"
      /\ status'[t] = "paused" =>
           /\ e.kind \in RequestKinds /\ stopped[t] = "no"
           /\ shown'[t] = [name |-> <<e.of, e.nr>>, kind |-> e.kind]
  <2>1. shown[t] \in [name : Requests, kind : RequestKinds] \union {NoRequest}
        /\ shown \in [Turns -> [name : Requests, kind : RequestKinds] \union {NoRequest}]
        /\ status \in [Turns -> Statuses] /\ stopped[t] \in {"no", "owner", "idle"}
    BY DEF TypeInv
  <2>2. CASE TakeTerminal(t)
    BY <2>1, <2>2 DEF TakeTerminal
  <2>3. CASE TakeEvent(t)
    BY <2>1, <2>3 DEF TakeEvent, AfterYield
  <2> QED BY <2>2, <2>3
<1>3. \A n \in OnWay(t) : n \in 1 .. Len(sent[t]) /\ n > Len(heard[t])
  BY Waiting
<1>4. \A i \in 1 .. Len(requests) :
        /\ requests[i] \in [name : Requests, kind : RequestKinds] /\ requests[i].name[2] \in Nat
        /\ requests[i].name[1] = t => requests[i] = RequestOf(t, requests[i].name[2])
  BY TableTypes DEF TableInv, Routed
<1> HIDE DEF e
<1>5. ShownInv(t)'
  BY <1>1, <1>2 DEF ShownInv, RequestOf
<1>6. LaterInv(t)'
  <2> SUFFICES ASSUME Asking(t)', NEW i \in 1 .. Len(requests), requests[i].name[1] = t
               PROVE  requests[i].name[2] > Len(heard'[t])
                      \/ (status'[t] = "paused" /\ requests[i] = shown'[t])
    BY <1>1 DEF LaterInv
  <2>1. Asking(t)
    BY <1>1, <1>2 DEF Asking
  <2>2. requests[i].name[2] > Len(heard[t]) /\ requests[i].name[2] \in Nat
    BY <1>2, <1>4, <2>1 DEF AskingInv, LaterInv
  <2>3. CASE e.of = NoTurn /\ UNCHANGED heard
    BY <2>2, <2>3
  <2>4. CASE /\ e.of = t /\ e.nr = Len(heard[t]) + 1 /\ e = sent[t][e.nr]
             /\ Len(heard'[t]) = Len(heard[t]) + 1
    <3>1. CASE requests[i].name[2] = e.nr
      <4>1. requests[i] = RequestOf(t, e.nr) /\ requests[i].kind \in RequestKinds
        BY <1>4, <3>1
      <4>2. e.kind \in RequestKinds /\ requests[i] = [name |-> <<t, e.nr>>, kind |-> e.kind]
        BY <2>4, <4>1 DEF RequestOf
      <4>3. status'[t] = "paused"
        BY <1>1, <1>2, <4>2 DEF Asking
      <4> QED BY <1>2, <2>4, <4>2, <4>3
    <3>2. CASE requests[i].name[2] # e.nr
      BY <1>1, <2>2, <2>4, <3>2
    <3> QED BY <3>1, <3>2
  <2> QED BY <1>1, <2>3, <2>4
<1>7. KeptInv(t)'
  <2> SUFFICES ASSUME alive PROVE KeptInv(t)'
    BY <1>1 DEF KeptInv
  <2>1. ASSUME NEW n \in Nrs(queue'[t], t) \union Nrs(early'[t], t), sent[t][n].kind \in RequestKinds
        PROVE  \E i \in 1 .. Len(requests) : requests[i] = RequestOf(t, n)
    <3>1. n \in Nrs(queue[t], t) \union Nrs(early[t], t)
      BY <1>1, <2>1
    <3> QED BY <2>1, <3>1 DEF AskingInv, KeptInv
  <2>2. ASSUME status'[t] = "paused" PROVE \E i \in 1 .. Len(requests) : requests[i] = shown'[t]
    <3>1. /\ e.kind \in RequestKinds /\ e.of = t /\ e = sent[t][e.nr] /\ e.nr \in Nrs(queue[t], t)
          /\ shown'[t] = [name |-> <<e.of, e.nr>>, kind |-> e.kind]
      BY <1>1, <1>2, <2>2
    <3>2. \E i \in 1 .. Len(requests) : requests[i] = RequestOf(t, e.nr)
      BY <3>1 DEF AskingInv, KeptInv
    <3> QED BY <3>1, <3>2 DEF RequestOf
  <2> QED BY <1>1, <2>1, <2>2 DEF KeptInv, RequestOf
<1> QED BY <1>5, <1>6, <1>7 DEF AskingInv

LEMMA AskingAnswer ==
  ASSUME TypeInv, NEW u \in Turns, TableInv(u), AskingInv(u), Answer(u),
         NEW t \in Turns, WayInv(t), AskingInv(t)
  PROVE  AskingInv(t)'
<1>1. PICK i \in 1 .. Len(requests) :
        /\ requests' = RemoveAt(requests, i) /\ requests[i].name[1] = u
        /\ alive => requests[i] = shown[u]
        /\ \A j \in 1 .. Len(requests) : requests[j] = shown[u] => j = i
  BY AnswerTakes
<1>2. /\ UNCHANGED <<sent, heard, queue, early, alive, stopped>> /\ status[u] = "paused"
      /\ \/ status' = [status EXCEPT ![u] = "open"] /\ shown' = [shown EXCEPT ![u] = NoRequest]
         \/ ~alive /\ UNCHANGED <<status, shown>>
  BY DEF Answer, history
<1>3. /\ \A j \in 1 .. Len(requests') :
           \E k \in 1 .. Len(requests) : k # i /\ requests'[j] = requests[k]
      /\ \A k \in 1 .. Len(requests) : k # i => \E j \in 1 .. Len(requests') : requests'[j] = requests[k]
  BY <1>1, Removal
<1>4. status \in [Turns -> Statuses]
      /\ shown \in [Turns -> [name : Requests, kind : RequestKinds] \union {NoRequest}]
  BY DEF TypeInv
<1>5. \/ t = u /\ status'[t] = "open"
      \/ UNCHANGED <<status[t], shown[t]>> /\ (t # u \/ ~alive)
  BY <1>2, <1>4
<1>6. ShownInv(t)'
  BY <1>2, <1>5 DEF AskingInv, ShownInv, RequestOf
<1>7. LaterInv(t)'
  <2> SUFFICES ASSUME Asking(t)', NEW j \in 1 .. Len(requests'), requests'[j].name[1] = t
               PROVE  requests'[j].name[2] > Len(heard[t])
                      \/ (status'[t] = "paused" /\ requests'[j] = shown'[t])
    BY <1>2 DEF LaterInv
  <2>1. PICK k \in 1 .. Len(requests) : k # i /\ requests'[j] = requests[k]
    BY <1>3
  <2>2. Asking(t)
    BY <1>2, <1>5 DEF Asking
  <2>3. requests[k].name[2] > Len(heard[t]) \/ (status[t] = "paused" /\ requests[k] = shown[t])
    BY <2>1, <2>2 DEF AskingInv, LaterInv
  <2>4. t = u => requests[k] # shown[t]
    BY <1>1, <2>1
  <2> QED BY <1>5, <2>1, <2>3, <2>4
<1>8. KeptInv(t)'
  <2> SUFFICES ASSUME alive PROVE KeptInv(t)'
    BY <1>2 DEF KeptInv
  <2>1. requests[i] = RequestOf(u, Len(heard[u])) /\ requests[i].name = <<u, Len(heard[u])>>
    BY <1>1, <1>2 DEF AskingInv, ShownInv, RequestOf
  <2>2. ASSUME NEW n \in Nrs(queue[t], t) \union Nrs(early[t], t), sent[t][n].kind \in RequestKinds
        PROVE  \E j \in 1 .. Len(requests') : requests'[j] = RequestOf(t, n)
    <3>1. PICK k \in 1 .. Len(requests) : requests[k] = RequestOf(t, n)
      BY <2>2 DEF AskingInv, KeptInv
    <3>2. n > Len(heard[t]) /\ n \in Nat /\ Len(heard[t]) \in Nat
      BY <2>2, Waiting DEF OnWay
    <3>3. k # i
      <4>1. requests[k].name[1] = t /\ requests[k].name[2] = n
        BY <3>1 DEF RequestOf
      <4>2. requests[i].name[1] = u /\ requests[i].name[2] = Len(heard[u])
        BY <2>1
      <4> QED BY <3>2, <4>1, <4>2
    <3> QED BY <1>3, <3>1, <3>3
  <2>3. ASSUME status'[t] = "paused" PROVE \E j \in 1 .. Len(requests') : requests'[j] = shown'[t]
    <3>1. t # u /\ UNCHANGED <<status[t], shown[t]>>
      BY <1>5, <2>3
    <3>2. PICK k \in 1 .. Len(requests) : requests[k] = shown[t]
      BY <2>3, <3>1 DEF AskingInv, KeptInv
    <3>3. requests[k].name[1] = t
      BY <2>3, <3>1, <3>2 DEF AskingInv, ShownInv, RequestOf
    <3>4. k # i
      BY <1>1, <3>1, <3>3
    <3> QED BY <1>3, <3>1, <3>2, <3>4
  <2> QED BY <1>2, <2>2, <2>3 DEF KeptInv, RequestOf
<1> QED BY <1>6, <1>7, <1>8 DEF AskingInv

LEMMA AskingStep == Inv /\ [Next]_vars => \A t \in Turns : AskingInv(t)'
<1> SUFFICES ASSUME Inv, [Next]_vars, NEW t \in Turns PROVE AskingInv(t)'
  OBVIOUS
<1>0. /\ TypeInv /\ ListsInv /\ WayInv(t) /\ TableInv(t) /\ StageInv(t) /\ AskingInv(t) /\ SentInv(t)
      /\ \A u \in Turns : SentInv(u) /\ WayInv(u) /\ TableInv(u) /\ AskingInv(u)
  BY DEF Inv
<1>a. SentGrows
  BY <1>0, TypeStep, AccountsGrow
<1>b. ASSUME UNCHANGED <<requests, heard[t], shown[t], queue[t], early[t], status[t], stopped[t]>>,
             alive' => alive
      PROVE  AskingInv(t)'
  BY <1>0, <1>a, <1>b, AskingKept DEF Asking
<1>1. CASE Read
  BY <1>1, <1>b DEF Read, routerVars, turnVars, history
<1>2. CASE Listen
  BY <1>0, <1>2, AskingListen
<1>3. CASE ReadEnd \/ ServerExits
  <2>1. UNCHANGED <<requests, heard, shown, queue, early, status, stopped>>
    BY <1>3 DEF ReadEnd, ServerExits, routerVars, turnVars, serverVars, history
  <2>2. UNCHANGED alive \/ alive' = FALSE
    BY <1>3 DEF ReadEnd, ServerExits, serverVars
  <2> QED BY <1>b, <2>1, <2>2
<1>4. ASSUME NEW u \in Turns, Decides(u), ~Answer(u) PROVE AskingInv(t)'
  <2>1. UNCHANGED <<heard, queue, early>>
    BY <1>4, QuietKeeps DEF Quiet
  <2>2. UNCHANGED <<requests, shown, alive>>
    BY <1>4 DEF Decides, StartTurn, WriteRaises, TurnRefused, AnswerUnsupported, Stop, Stopped,
                routerVars, serverVars, turnVars, vars
  <2>3. /\ Asking(t)' => Asking(t)
        /\ status'[t] = "paused" => status[t] = "paused"
        /\ Asking(t)' /\ status[t] = "paused" => status'[t] = "paused"
    <3>0. status \in [Turns -> Statuses] /\ stopped \in [Turns -> {"no", "owner", "idle"}]
      BY <1>0 DEF TypeInv
    <3>1. CASE StartTurn(u) \/ WriteRaises(u) \/ TurnRefused(u)
      BY <3>0, <3>1 DEF StartTurn, WriteRaises, TurnRefused, Asking
    <3>2. CASE AnswerUnsupported(u)
      BY <3>2 DEF AnswerUnsupported, vars, turnVars, Asking
    <3>3. CASE Stop(u, "owner") \/ Stop(u, "idle")
      BY <3>0, <3>3 DEF Stop, Asking
    <3>4. CASE Stopped(u, TRUE) \/ Stopped(u, FALSE)
      BY <3>0, <3>4 DEF Stopped, Asking
    <3> QED BY <1>4, <3>1, <3>2, <3>3, <3>4 DEF Decides
  <2> QED BY <1>0, <1>a, <2>1, <2>2, <2>3, AskingKept
<1>5. ASSUME NEW u \in Turns, Answer(u) PROVE AskingInv(t)'
  BY <1>0, <1>5, AskingAnswer
<1>6. CASE Announces
  BY <1>0, <1>6, <1>b, Announced
<1>7. ASSUME NEW u \in Turns, TurnStarted(u) PROVE AskingInv(t)'
  <2>1. Nrs(queue'[t], t) \union Nrs(early'[t], t) = Nrs(queue[t], t) \union Nrs(early[t], t)
    BY <1>0, <1>7, WayStarted
  <2>2. /\ UNCHANGED <<requests, heard, shown, stopped, alive>> /\ status[u] = "starting"
        /\ status' = [status EXCEPT ![u] = "open"]
    BY <1>7 DEF TurnStarted, serverVars, history
  <2>3. /\ Asking(t)' => Asking(t)
        /\ status'[t] = "paused" => status[t] = "paused"
        /\ Asking(t)' /\ status[t] = "paused" => status'[t] = "paused"
    BY <1>0, <2>2 DEF Asking, TypeInv
  <2> QED BY <1>0, <1>a, <2>1, <2>2, <2>3, AskingKept
<1>8. ASSUME NEW u \in Turns, TakeEvent(u) \/ TakeTerminal(u) PROVE AskingInv(t)'
  <2>1. CASE u = t
    BY <1>0, <1>8, <2>1, AskingTakes
  <2>2. CASE u # t
    <3>1. UNCHANGED <<requests, heard[t], shown[t], queue[t], early, status[t], stopped, alive>>
      BY <1>0, <1>8, <2>2, Taken
    <3> QED BY <1>b, <3>1
  <2> QED BY <2>1, <2>2
<1>9. ASSUME NEW u \in Turns, Sends(u) PROVE AskingInv(t)'
  <2>1. UNCHANGED <<requests, heard, shown, queue, early, status, stopped, alive>>
    BY <1>9 DEF Sends, ServerWrites, ServerAsks, ServerEnds, Send, routerVars, turnVars
  <2> QED BY <1>b, <2>1
<1>10. CASE UNCHANGED vars
  BY <1>10, <1>b DEF vars, routerVars, turnVars, serverVars, history
<1> QED BY <1>1, <1>2, <1>3, <1>4, <1>5, <1>6, <1>7, <1>8, <1>9, <1>10, StepKinds DEF Quiet

-----------------------------------------------------------------------------
(* The invariant and what follows from it.                                 *)

LEMMA Invariant == Spec => []Inv
<1>1. Inv /\ [Next]_vars => Inv'
  BY TypeStep, ListsStep, SentStep, WayStep, StageStep, TableStep, AskingStep DEF Inv
<1> QED BY InitInv, <1>1, PTL DEF Spec

\* Every variable keeps its type: what the adapter hands on are events of the
\* turns, whatever mixture of messages the listener of runtime.py is given.
THEOREM CodexTypeCorrect == Spec => []TypeOK
<1>1. Inv => TypeOK
  <2> SUFFICES ASSUME Inv PROVE TypeOK
    OBVIOUS
  <2>1. TypeInv /\ ListsInv
    BY DEF Inv
  <2>2. Listened \subseteq Messages /\ Notices \subseteq Messages
    BY DEF Listened, Notices
  <2>3. incoming \in Seq(Messages) /\ wire \in Seq(Messages)
    BY <2>1, <2>2, SeqMonotonic DEF ListsInv
  <2> QED BY <2>1, <2>3 DEF TypeInv, ListsInv, TypeOK
<1> QED BY <1>1, Invariant, PTL

\* A turn's result, the kind of the event that ended CodexTurnStream, is how
\* the server ended it, unless an error that names no turn made it fail.
THEOREM ResultsAreServers == Spec => []ResultIsServers
<1>1. Inv => ResultIsServers
  BY DEF Inv, StageInv, ResultIsServers
<1> QED BY <1>1, Invariant, PTL

\* The request a paused run has shown its owner is in the router's _requests
\* while the server runs, so that take_request finds it.
THEOREM RequestsAreKept == Spec => []PausedRequestIsKept
<1>1. Inv => PausedRequestIsKept
  BY DEF Inv, AskingInv, KeptInv, PausedRequestIsKept
<1> QED BY <1>1, Invariant, PTL

\* With nothing left on the way, no consumer waits in CodexTurnStream for the
\* end of a turn that the server has ended.
THEOREM NoStreamIsLeft == Spec => []NoStreamLeftWaiting
<1>1. Inv => NoStreamLeftWaiting
  <2> SUFFICES ASSUME Inv, NEW t \in Turns, wire = <<>>, incoming = <<>>, status[t] = "open",
                      queue[t] = <<>>, outcome[t] # "none"
               PROVE  FALSE
    BY DEF NoStreamLeftWaiting
  <2>1. TypeInv /\ SentInv(t) /\ WayInv(t) /\ StageInv(t)
    BY DEF Inv
  <2>2. early[t] = <<>>
    BY <2>1 DEF StageInv
  <2>3. OnWay(t) = {}
    BY <2>2, EmptyList DEF OnWay
  <2>4. Len(heard[t]) \in Nat /\ Len(sent[t]) \in Nat /\ Len(heard[t]) <= Len(sent[t])
        /\ OnWay(t) = (Len(heard[t]) + 1) .. Len(sent[t])
    BY <2>1, Waiting DEF WayInv
  <2>5. Len(heard[t]) = Len(sent[t])
    <3>1. Len(sent[t]) \notin (Len(heard[t]) + 1) .. Len(sent[t])
      BY <2>3, <2>4
    <3> QED BY <2>4, <3>1
  <2>6. Len(sent[t]) > 0 /\ sent[t][Len(sent[t])].kind \in TerminalKinds
    BY <2>1 DEF SentInv
  <2>7. heard[t][Len(heard[t])] = sent[t][Len(sent[t])]
    BY <2>1, <2>4, <2>5, <2>6 DEF WayInv
  <2>8. heard[t][Len(heard[t])].kind \notin TerminalKinds
    BY <2>1, <2>4, <2>5, <2>6 DEF StageInv
  <2> QED BY <2>6, <2>7, <2>8
<1> QED BY <1>1, Invariant, PTL

\* Only an answer takes a paused turn further.
LEMMA OnlyAnswers ==
  ASSUME TypeInv, ListsInv, \A u \in Turns : SentInv(u) /\ WayInv(u), [Next]_vars,
         NEW t \in Turns, status[t] = "paused", status'[t] = "open"
  PROVE  Answer(t)
<1>0. status \in [Turns -> Statuses]
  BY DEF TypeInv
<1>1. status # status'
  OBVIOUS
<1>2. ASSUME NEW u \in Turns, Decides(u) PROVE Answer(t)
  <2>1. CASE StartTurn(u) \/ WriteRaises(u) \/ TurnRefused(u)
    BY <1>0, <2>1 DEF StartTurn, WriteRaises, TurnRefused
  <2>2. CASE AnswerUnsupported(u)
    BY <1>1, <2>2 DEF AnswerUnsupported, vars, turnVars
  <2>3. CASE Stop(u, "owner") \/ Stop(u, "idle")
    BY <1>1, <2>3 DEF Stop
  <2>4. CASE Stopped(u, TRUE) \/ Stopped(u, FALSE)
    BY <1>0, <2>4 DEF Stopped
  <2>5. CASE Answer(u)
    <3>1. u # t => status'[t] = status[t]
      BY <1>0, <2>5 DEF Answer
    <3> QED BY <2>5, <3>1
  <2> QED BY <1>2, <2>1, <2>2, <2>3, <2>4, <2>5 DEF Decides
<1>3. ASSUME NEW u \in Turns, TurnStarted(u) PROVE FALSE
  BY <1>0, <1>3 DEF TurnStarted
<1>4. ASSUME NEW u \in Turns, TakeEvent(u) \/ TakeTerminal(u) PROVE FALSE
  <2>1. status[u] = "open"
    BY <1>4 DEF TakeEvent, TakeTerminal
  <2>2. status'[t] = status[t]
    BY <1>4, <2>1, Taken
  <2> QED BY <2>2
<1>5. ASSUME NEW u \in Turns, Sends(u) PROVE FALSE
  BY <1>1, <1>5 DEF Sends, ServerWrites, ServerAsks, ServerEnds, turnVars
<1>6. CASE Read \/ Listen \/ ReadEnd \/ ServerExits
  BY <1>1, <1>6 DEF Read, Listen, ReadEnd, ServerExits, turnVars
<1>7. CASE Announces
  BY <1>1, <1>7, Announced
<1>8. CASE UNCHANGED vars
  BY <1>1, <1>8 DEF vars, turnVars
<1> QED BY <1>2, <1>3, <1>4, <1>5, <1>6, <1>7, <1>8, StepKinds DEF Quiet

\* A run goes on only when the server has been given the owner's answer to the
\* request that was shown: take_request of answer_user_input, which asks for the
\* oldest request of its turn, takes no older one.
THEOREM AnswersAreShown == Spec => AnswersShownRequest
<1> DEFINE Shows ==
      \A t \in Turns :
        alive /\ status[t] = "paused" /\ status'[t] = "open"
          => asked' = [asked EXCEPT ![shown[t].name] = IF @ = "open" THEN "answered" ELSE @]
<1>1. Inv /\ [Next]_vars => [Shows]_vars
  <2> SUFFICES ASSUME Inv, [Next]_vars, NEW t \in Turns, alive, status[t] = "paused", status'[t] = "open"
               PROVE  asked' = [asked EXCEPT ![shown[t].name] = IF @ = "open" THEN "answered" ELSE @]
    OBVIOUS
  <2>1. /\ TypeInv /\ ListsInv /\ TableInv(t) /\ AskingInv(t) /\ \A u \in Turns : SentInv(u) /\ WayInv(u)
    BY DEF Inv
  <2>2. Answer(t)
    BY <2>1, OnlyAnswers
  <2>3. PICK i \in 1 .. Len(requests) :
          /\ asked' = [asked EXCEPT ![requests[i].name] = IF alive /\ @ = "open" THEN "answered" ELSE @]
          /\ alive => requests[i] = shown[t]
    BY <2>1, <2>2, AnswerTakes
  <2> DEFINE n == shown[t].name
  <2>4. requests[i].name = n
    BY <2>3
  <2>5. asked' = [asked EXCEPT ![n] = IF asked[n] = "open" THEN "answered" ELSE asked[n]]
    <3>1. alive = TRUE
      BY <2>1 DEF TypeInv
    <3> QED BY <2>3, <2>4, <3>1
  <2> QED BY <2>5
<1>2. [][Shows]_vars => AnswersShownRequest
  BY DEF AnswersShownRequest
<1> HIDE DEF Shows
<1> QED BY <1>1, <1>2, Invariant, PTL DEF Spec

\* Sending and hearing, as EventDelivery has them.
LEMMA SendsDeliver ==
  ASSUME TypeInv, NEW t \in Turns, Sends(t)
  PROVE  Delivery!Send(t)
<1>1. PICK messages : AreNext(t, messages) /\ Send(t, messages)
  BY Sent
<1> DEFINE s == sent[t]
           r == sent'[t]
<1>2. /\ sent' \in [Turns -> Seq(AgentEvents)] /\ \A u \in Turns : u # t => sent'[u] = sent[u]
      /\ Len(r) = Len(s) + Len(messages) /\ Len(messages) \in Nat \ {0} /\ Len(s) \in Nat
      /\ \A n \in 1 .. Len(s) : r[n] = s[n]
  BY <1>1, Sending
<1>3. s \in Seq(AgentEvents) /\ r \in Seq(AgentEvents)
  BY <1>2 DEF TypeInv
<1>4. sent' = [sent EXCEPT ![t] = sent'[t]]
  BY <1>2 DEF TypeInv
<1> HIDE DEF s, r
<1>5. SubSeq(s, 1, Len(s)) = s
  BY <1>3, SubSeqFull
<1>6. SubSeq(r, 1, Len(s)) = s
  <2>0. \A i \in 1 .. Len(s) : r[i] \in AgentEvents
    BY <1>2, <1>3, ElementOfSeq
  <2>1. /\ SubSeq(r, 1, Len(s)) \in Seq(AgentEvents)
        /\ Len(SubSeq(r, 1, Len(s))) = IF 1 <= Len(s) THEN Len(s) - 1 + 1 ELSE 0
        /\ \A i \in 1 .. Len(s) - 1 + 1 : SubSeq(r, 1, Len(s))[i] = r[1 + i - 1]
    BY <1>2, <1>3, <2>0, SubSeqProperties
  <2>2. Len(SubSeq(r, 1, Len(s))) = Len(s)
    BY <1>2, <2>1
  <2>3. \A i \in 1 .. Len(s) : SubSeq(r, 1, Len(s))[i] = s[i]
    BY <1>2, <2>1
  <2> QED BY <1>3, <2>1, <2>2, <2>3, SeqEqual
<1>7. Len(s) <= Len(r) /\ s # r
  BY <1>2
<1>8. Delivery!IsStrictPrefix(s, r)
  BY <1>5, <1>6, <1>7 DEF Delivery!IsStrictPrefix, Delivery!IsPrefix
<1>9. UNCHANGED heard
  BY <1>1 DEF Send
<1> QED BY <1>3, <1>4, <1>8, <1>9 DEF Delivery!Send, s, r

LEMMA TakesDeliver ==
  ASSUME TypeInv, ListsInv, NEW t \in Turns, SentInv(t), WayInv(t), StageInv(t),
         TakeEvent(t) \/ TakeTerminal(t)
  PROVE  Delivery!Hear(t) \/ UNCHANGED <<sent, heard>>
<1> DEFINE e == Head(queue[t])
<1>1. /\ UNCHANGED sent /\ Len(heard[t]) \in Nat /\ Len(sent[t]) \in Nat
      /\ \/ UNCHANGED heard
         \/ /\ e.nr = Len(heard[t]) + 1 /\ e.nr <= Len(sent[t]) /\ e = sent[t][e.nr]
            /\ heard'[t] = Append(heard[t], e)
  BY Taken
<1>2. \A u \in Turns : u # t => heard'[u] = heard[u]
  BY Taken
<1>3. heard \in [Turns -> Seq(AgentEvents)] /\ (heard' = heard \/ heard' = [heard EXCEPT ![t] = Append(@, e)])
  BY DEF TypeInv, TakeEvent, TakeTerminal, Hears
<1>4. status[t] = "open"
  BY DEF TakeEvent, TakeTerminal
<1>5. ~Delivery!IsOver(t)
  <2> SUFFICES ASSUME heard[t] # <<>> PROVE heard[t][Len(heard[t])].kind \notin TerminalKinds
    BY DEF Delivery!IsOver
  <2>1. Len(heard[t]) \in 1 .. Len(heard[t])
    BY <1>1, <1>3, EmptySeq
  <2> QED BY <1>4, <2>1 DEF StageInv
<1> HIDE DEF e
<1>6. CASE UNCHANGED heard
  BY <1>1, <1>6
<1>7. CASE heard' # heard
  <2>1. heard' = [heard EXCEPT ![t] = Append(heard[t], sent[t][Len(heard[t]) + 1])]
    BY <1>1, <1>3, <1>7
  <2>2. Len(heard[t]) < Len(sent[t])
    BY <1>1, <1>7
  <2> QED BY <1>1, <1>5, <2>1, <2>2 DEF Delivery!Hear
<1> QED BY <1>6, <1>7

\* The adapter implements EventDelivery: the events the server sent about a turn
\* reach the consumer of its CodexTurnStream once and in order, whichever of
\* _events, _early_events and _queues each of them went through.
THEOREM EventsAreDelivered == Spec => DeliversInOrder
<1>1. Init => Delivery!Init
  BY DEF Init, Delivery!Init
<1>2. Inv /\ [Next]_vars => [Delivery!Next]_<<sent, heard>>
  <2> SUFFICES ASSUME Inv, [Next]_vars, ~UNCHANGED <<sent, heard>>
               PROVE  \E t \in Turns : Delivery!Send(t) \/ Delivery!Hear(t)
    BY DEF Delivery!Next
  <2>1. /\ TypeInv /\ ListsInv /\ \A t \in Turns : SentInv(t) /\ WayInv(t) /\ StageInv(t)
    BY DEF Inv
  <2>2. CASE Read \/ Listen
    BY <2>2 DEF Read, Listen, history
  <2>3. CASE Quiet
    BY <2>3, QuietKeeps
  <2>4. CASE Announces
    BY <2>1, <2>4, Announced
  <2>5. ASSUME NEW t \in Turns, TurnStarted(t) PROVE FALSE
    BY <2>5 DEF TurnStarted, history
  <2>6. ASSUME NEW t \in Turns, TakeEvent(t) \/ TakeTerminal(t) PROVE Delivery!Hear(t)
    BY <2>1, <2>6, TakesDeliver
  <2>7. ASSUME NEW t \in Turns, Sends(t) PROVE Delivery!Send(t)
    BY <2>1, <2>7, SendsDeliver
  <2>8. CASE UNCHANGED vars
    BY <2>8 DEF vars, history
  <2> QED BY <2>2, <2>3, <2>4, <2>5, <2>6, <2>7, <2>8, StepKinds
<1> QED BY <1>1, <1>2, Invariant, PTL DEF Spec, DeliversInOrder, Delivery!Spec

=============================================================================
