------------------------- MODULE RunViewCardsProofs -------------------------
(***************************************************************************)
(* Theorems about RunViewCards, for any number of runs, views and faults:  *)
(* all the properties that the run `cards` checks.                         *)
(*                                                                         *)
(* The three tasks share the card of a run and the sink's table.  The      *)
(* invariant says which of them may be publishing what: the first view is  *)
(* published alone, a request only by the consumer, and once some task     *)
(* publishes a last view no other kind of view is taken up.  What remains  *)
(* are updates that were under way by then, and their sequence numbers are *)
(* too low for Feishu to take them after the last view.                    *)
(***************************************************************************)
EXTENDS RunViewCards, SequenceTheorems, TLAPS

----------------------------------------------------------------------------
(* What a task is doing.                                                   *)

Busy(p) == call[p].pc # "idle"

\* It publishes a last view.
Ends(p) == Busy(p) /\ Final(call[p].view)

\* It makes a card; it awaits a call about a card that was sent to the chat.
MakesCard(p) == call[p].pc \in {"create", "send"}
OnCard(p) == call[p].pc \in {"update", "close", "finalText"}

\* Another view than a last one may yet be published: the run has a request, or
\* its stream is read and no /stop has published a last view.
Live == pending \/ (reader # "none" /\ stopping # "done")

\* The owner was sent the last view in a text message, or some text was lost.
Told(r) == <<r, "final">> \in texts \/ r \in textFailed

----------------------------------------------------------------------------
(* The inductive invariant, in named parts.                                *)

CardRecords == [run : Runs, view : Views, sequence : Nat, sent : BOOLEAN, streaming : BOOLEAN]
Calls(ids) ==
  [pc : {"idle", "create", "send", "update", "close", "finalText", "text"},
   view : Views, card : {NoCard} \union ids, sequence : Nat, aged : BOOLEAN]

\* Before the first run nothing happens, and what is about a card has one.
TypeInv ==
  /\ TypeOK
  /\ run = 0 => ~Live /\ reader = "none" /\ stopping = "no" /\ \A p \in Publishers : ~Busy(p)
  /\ \A p \in Publishers : call[p].pc = "send" \/ OnCard(p) => call[p].card \in CardIds

\* Only runs that have begun are known; all but the last have had a last view
\* or lost a text.
RunsInv ==
  /\ \A c \in CardIds : cards[c].run <= run
  /\ \A r \in Runs : r \in textRuns \union pendingTexts \union over => r <= run
  /\ \A r \in Runs : r < run => r \in over \union textFailed

\* The sink's card of a run is a card of that run that was sent to the chat.
CardOfInv ==
  \A r \in Runs : cardOf[r] # NoCard => cards[cardOf[r]].run = r /\ cards[cardOf[r]].sent

\* Feishu's number of a card is never behind the one the StreamCard has stored.
NumbersInv ==
  \A c \in CardIds : cards[c].sequence >= 1 /\ sequence[c] <= cards[c].sequence

\* A call is about a card of the current run.  An update under way is at most
\* one number ahead of the card, and one of an earlier view is not ahead of a
\* card that shows the last view.
CallInv(p) ==
  LET c == call[p].card IN
  /\ call[p].pc = "send" \/ OnCard(p) => cards[c].run = run
  /\ OnCard(p) => cards[c].sent
  /\ call[p].pc = "update" => call[p].sequence <= cards[c].sequence + 1
  /\ call[p].pc = "update" /\ ~Final(call[p].view) /\ Final(cards[c].view)
       => ~Accepted(c, call[p].sequence)
  /\ call[p].pc = "close" => Final(cards[c].view)
  /\ call[p].pc \in {"close", "finalText"} => Final(call[p].view)

\* Once a last view is published, shown or over, no other kind is taken up.
EndsInv ==
  \/ \E p \in Publishers : Ends(p)
  \/ \E c \in CardIds : cards[c].run = run /\ Final(cards[c].view)
  \/ run \in over
  => ~Live

\* A card is made for a last view, or for the first, with nobody else publishing.
OpeningInv ==
  \A p \in Publishers : MakesCard(p) /\ ~Ends(p) =>
    /\ p = "consumer" /\ reader = "consumer" /\ ~asked
    /\ run \notin over /\ run \notin textRuns /\ cardOf[run] = NoCard
    /\ \A q \in Publishers : q # p => ~Busy(q)
    /\ \A c \in CardIds : cards[c].run = run => ~cards[c].sent

\* A run that goes on is shown on its card or in text messages, not both.
ShownInv ==
  Live => /\ run \in textRuns \/ cardOf[run] # NoCard \/ MakesCard("consumer")
          /\ run \in textRuns => cardOf[run] = NoCard

\* A run has one request, and whoever answers or stops it publishes after it;
\* while it is open, only its own view is being published.
AskedInv ==
  ~asked => /\ ~pending /\ reader # "answer" /\ stopping \in {"no", "running"}
            /\ run \notin pendingTexts /\ ~Busy("answer") /\ ~Busy("stop")
PendingInv ==
  pending => /\ reader = "none" /\ stopping # "done" /\ ~Busy("answer") /\ ~Busy("stop")
             /\ Busy("consumer") => call["consumer"].view = "pending"
             /\ run \in textRuns /\ run \notin textFailed
                  => call["consumer"].pc = "text" \/ <<run, "pending">> \in texts

\* A closed card shows the last view and has stopped streaming, or the last view
\* was sent as text.
ClosedInv ==
  \A c \in closed :
    \/ <<cards[c].run, "final">> \in texts
    \/ Final(cards[c].view) /\ cards[c].sent /\ ~cards[c].streaming

\* A card that still streams, of a run not told, has a last view being published
\* on it, or it is the sink's card of the current run, of which no last view has
\* been taken up.
StreamingInv ==
  \A c \in CardIds : cards[c].sent /\ cards[c].streaming /\ ~Told(cards[c].run) =>
    \/ \E p \in Publishers : OnCard(p) /\ Ends(p) /\ call[p].card = c
    \/ /\ cards[c].run = run /\ cardOf[run] = c /\ run \notin over
       /\ \A p \in Publishers : ~Ends(p)

Inv ==
  /\ TypeInv /\ RunsInv /\ CardOfInv /\ NumbersInv /\ EndsInv /\ OpeningInv /\ ShownInv
  /\ AskedInv /\ PendingInv /\ ClosedInv /\ StreamingInv /\ LastViewIsShown
  /\ \A p \in Publishers : CallInv(p)

----------------------------------------------------------------------------
(* Types, and what publishing does to the calls.                           *)

LEMMA IdleCall == \A ids : Idle \in Calls(ids)
BY DEF Idle, Calls, Views, NoCard

\* Cards and their numbers are kept in sequences of one length.
LEMMA CardTypes ==
  ASSUME TypeOK
  PROVE  /\ Len(cards) \in Nat
         /\ cards \in [CardIds -> CardRecords] /\ DOMAIN cards = CardIds
         /\ sequence \in [CardIds -> Nat] /\ recent \in [CardIds -> BOOLEAN]
         /\ call \in [Publishers -> Calls(CardIds)]
         /\ NoCard \notin CardIds /\ \A c \in CardIds : c \in Nat
<1>1. cards \in Seq(CardRecords) /\ sequence \in Seq(Nat) /\ recent \in Seq(BOOLEAN)
  BY DEF TypeOK, CardRecords
<1>2. Len(sequence) = Len(cards) /\ Len(recent) = Len(cards)
  BY DEF TypeOK
<1>3. /\ Len(cards) \in Nat
      /\ cards \in [CardIds -> CardRecords] /\ DOMAIN cards = CardIds
      /\ sequence \in [CardIds -> Nat] /\ recent \in [CardIds -> BOOLEAN]
  BY <1>1, <1>2, LenProperties DEF CardIds
<1>4. call \in [Publishers -> Calls(CardIds)]
  BY DEF TypeOK, Calls
<1> QED BY <1>3, <1>4 DEF CardIds, NoCard

LEMMA RunStarted ==
  ASSUME TypeInv, run # 0
  PROVE  run \in Runs
BY DEF TypeInv, TypeOK

LEMMA Awaited ==
  ASSUME TypeOK, NEW p \in Publishers, NEW pc, NEW view, NEW c, NEW s, Await(p, pc, view, c, s)
  PROVE  /\ call'[p] = [pc |-> pc, view |-> view, card |-> c, sequence |-> s, aged |-> FALSE]
         /\ \A q \in Publishers : q # p => call'[q] = call[q]
BY CardTypes DEF Await

LEMMA Returned ==
  ASSUME TypeOK, NEW p \in Publishers, NEW view, Return(p, view)
  PROVE  /\ call'[p] = Idle
         /\ \A q \in Publishers : q # p => call'[q] = call[q]
BY CardTypes DEF Return

LEMMA CallsTyped ==
  ASSUME TypeOK, NEW p \in Publishers, CardIds \subseteq CardIds',
         call' = [call EXCEPT ![p] = call'[p]], call'[p] \in Calls(CardIds')
  PROVE  call' \in [Publishers -> Calls(CardIds')]
<1>1. \A ids : CardIds \subseteq ids => Calls(CardIds) \subseteq Calls(ids)
  BY DEF Calls
<1> QED BY <1>1, CardTypes

----------------------------------------------------------------------------
(* The ways a publish goes, up to its first await.                         *)

\* As text, for want of a card.
Texts(p, view) ==
  /\ call'[p] = [pc |-> "text", view |-> view, card |-> NoCard, sequence |-> 0, aged |-> FALSE]
  /\ run \in textRuns' /\ UNCHANGED <<cardOf, over>>
  /\ view # "pending" => UNCHANGED pendingTexts
\* Not at all, in a run that is shown in text messages.
Omits(p, view) ==
  /\ call'[p] = Idle /\ ~Final(view)
  /\ view = "pending" => run \in pendingTexts
  /\ run \in textRuns /\ UNCHANGED <<textRuns, pendingTexts, cardOf, over>>
Opens(p, view) ==
  /\ call'[p] = [pc |-> "create", view |-> view, card |-> NoCard, sequence |-> 0, aged |-> FALSE]
  /\ cardOf[run] = NoCard /\ run \notin textRuns
  /\ UNCHANGED <<textRuns, pendingTexts, cardOf, over>>
Updates(p, view) ==
  /\ cardOf[run] # NoCard
  /\ call'[p] = [pc |-> "update", view |-> view, card |-> cardOf[run],
                 sequence |-> sequence[cardOf[run]] + 1, aged |-> FALSE]
  /\ UNCHANGED <<textRuns, pendingTexts, cardOf, over>>
\* Not at all, the card being closed or the view throttled.
Drops(p, view) ==
  /\ cardOf[run] # NoCard
  /\ call'[p] = Idle /\ UNCHANGED <<textRuns, pendingTexts>>
  /\ IF Final(view) THEN /\ cardOf[run] \in closed /\ over' = over \union {run}
                         /\ cardOf' = [cardOf EXCEPT ![run] = NoCard]
                    ELSE UNCHANGED <<cardOf, over>>

\* What is published as text makes the run one that is shown in text messages.
OnlyRunAdded ==
  /\ textRuns' \in {textRuns, textRuns \union {run}}
  /\ pendingTexts' \in {pendingTexts, pendingTexts \union {run}}

LEMMA FallsBack ==
  ASSUME TypeOK, NEW p \in Publishers, NEW view \in Views, NEW first \in BOOLEAN,
         _publish_text_fallback(p, view, first)
  PROVE  /\ OnlyRunAdded /\ UNCHANGED cardOf => Texts(p, view) \/ (~first /\ Omits(p, view))
         /\ OnlyRunAdded
         /\ \A q \in Publishers : q # p => call'[q] = call[q]
         /\ call' = [call EXCEPT ![p] = call'[p]]
<1> DEFINE opens == first \/ run \notin textRuns
           asks == ~opens /\ view = "pending" /\ run \notin pendingTexts
<1>1. CASE opens \/ asks \/ Final(view)
  <2>1. Await(p, "text", view, NoCard, 0) /\ UNCHANGED over
    BY <1>1 DEF _publish_text_fallback
  <2>2. run \in textRuns'
    BY <1>1 DEF _publish_text_fallback
  <2>3. OnlyRunAdded /\ (view # "pending" => UNCHANGED pendingTexts)
    BY DEF _publish_text_fallback, OnlyRunAdded
  <2>4. call' = [call EXCEPT ![p] = call'[p]]
    BY <2>1, CardTypes DEF Await
  <2> QED BY <2>1, <2>2, <2>3, <2>4, Awaited DEF Texts
<1>2. CASE ~(opens \/ asks \/ Final(view))
  <2>1. Return(p, view)
    BY <1>2 DEF _publish_text_fallback
  <2>2. UNCHANGED <<textRuns, pendingTexts>> /\ run \in textRuns /\ ~first
    BY <1>2 DEF _publish_text_fallback
  <2>3. UNCHANGED over
    BY <1>2, <2>1 DEF Return
  <2>4. call' = [call EXCEPT ![p] = call'[p]]
    BY <2>1, CardTypes DEF Return
  <2>5. view = "pending" => run \in pendingTexts
    BY <1>2
  <2> QED BY <1>2, <2>1, <2>2, <2>3, <2>4, <2>5, Returned DEF Omits, OnlyRunAdded
<1> QED BY <1>1, <1>2

LEMMA Publishing ==
  ASSUME TypeOK, NEW p \in Publishers, NEW view \in Views, publish(p, view)
  PROVE  /\ call[p] = Idle
         /\ UNCHANGED <<disabled, streamVars, feishuVars, textFailed, faults>>
         /\ OnlyRunAdded
         /\ \A q \in Publishers : q # p => call'[q] = call[q]
         /\ call' = [call EXCEPT ![p] = call'[p]]
         /\ \/ cardOf[run] = NoCard /\ (Texts(p, view) \/ Omits(p, view) \/ Opens(p, view))
            \/ Updates(p, view) \/ Drops(p, view)
<1>1. call[p] = Idle /\ UNCHANGED <<disabled, streamVars, feishuVars, textFailed, faults>>
  BY DEF publish
<1>2. CASE /\ cardOf[run] = NoCard /\ (disabled \/ run \in textRuns)
           /\ _publish_text_fallback(p, view, FALSE)
           /\ UNCHANGED cardOf
  BY <1>1, <1>2, FallsBack
<1>3. CASE /\ cardOf[run] = NoCard /\ ~disabled /\ run \notin textRuns
           /\ Await(p, "create", view, NoCard, 0)
           /\ UNCHANGED <<cardOf, textRuns, pendingTexts, over>>
  <2>1. call' = [call EXCEPT ![p] = call'[p]]
    BY <1>3, CardTypes DEF Await
  <2> QED BY <1>1, <1>3, <2>1, Awaited DEF Opens, OnlyRunAdded
<1>4. CASE cardOf[run] # NoCard /\ update(p, cardOf[run], view) /\ UNCHANGED <<textRuns, pendingTexts>>
  <2>1. CASE cardOf[run] \in closed \/ Throttled(cardOf[run], view)
    <3>1. Return(p, view) /\ cardOf' = [cardOf EXCEPT ![run] = IF Final(view) THEN NoCard ELSE @]
      BY <1>4, <2>1 DEF update
    <3>2. call' = [call EXCEPT ![p] = call'[p]]
      BY <3>1, CardTypes DEF Return
    <3>3. over' = IF Final(view) THEN over \union {run} ELSE over
      BY <3>1 DEF Return
    <3>4. Final(view) => cardOf[run] \in closed
      BY <2>1 DEF Throttled
    <3>5. ~Final(view) => UNCHANGED cardOf
      BY <3>1 DEF TypeOK
    <3> QED BY <1>1, <1>4, <3>1, <3>2, <3>3, <3>4, <3>5, Returned DEF Drops, OnlyRunAdded
  <2>2. CASE ~(cardOf[run] \in closed \/ Throttled(cardOf[run], view))
    <3>1. Await(p, "update", view, cardOf[run], sequence[cardOf[run]] + 1) /\ UNCHANGED <<cardOf, over>>
      BY <1>4, <2>2 DEF update
    <3>2. call' = [call EXCEPT ![p] = call'[p]]
      BY <3>1, CardTypes DEF Await
    <3> QED BY <1>1, <1>4, <3>1, <3>2, Awaited DEF Updates, OnlyRunAdded
  <2> QED BY <2>1, <2>2
<1> QED BY <1>1, <1>2, <1>3, <1>4 DEF publish

----------------------------------------------------------------------------
(* Type correctness.                                                       *)

\* The tasks' publishes, of the current run.
Publishes(p, view) ==
  \/ PublishEvent(p) /\ view = "event"
  \/ PublishPending(p) /\ view = "pending"
  \/ PublishFinal(p) /\ view = "final"
  \/ Answer /\ p = "answer" /\ view = "resumed"
  \/ StopPublishes /\ p = "stop" /\ view = "final"

LEMMA PublishesRun ==
  ASSUME TypeInv, NEW p \in Publishers, NEW view, Publishes(p, view)
  PROVE  /\ run \in Runs /\ view \in Views /\ publish(p, view)
         /\ run' = run /\ asked' \in BOOLEAN /\ pending' \in BOOLEAN
         /\ reader' \in {"none", "consumer", "answer"} /\ events' \in 0 .. MaxEvents
         /\ stopping' \in {"no", "paused", "running", "done"}
<1>1. run # 0
  BY DEF TypeInv, Publishes, PublishEvent, PublishPending, PublishFinal, Answer, StopPublishes, Reads, Live,
         Publishers
<1>2. MaxEvents \in Nat
  BY RunViewCardsAssumption
<1>3. view \in Views /\ publish(p, view) /\ run' = run
  BY DEF Publishes, PublishEvent, PublishPending, PublishFinal, Answer, StopPublishes, Views
<1>4. /\ asked' \in BOOLEAN /\ pending' \in BOOLEAN
      /\ reader' \in {"none", "consumer", "answer"} /\ stopping' \in {"no", "paused", "running", "done"}
  BY DEF Publishes, PublishEvent, PublishPending, PublishFinal, Answer, StopPublishes, TypeInv, TypeOK
<1>5. events' \in 0 .. MaxEvents
  BY <1>2 DEF Publishes, PublishEvent, PublishPending, PublishFinal, Answer, StopPublishes, TypeInv, TypeOK
<1> QED BY <1>1, <1>3, <1>4, <1>5, RunStarted

\* What holds of the types when the cards are not touched.
LEMMA PublishTypes ==
  ASSUME TypeInv, run \in Runs, NEW p \in Publishers, NEW view \in Views, publish(p, view)
  PROVE  /\ cardOf' \in [Runs -> {NoCard} \union CardIds]
         /\ textRuns' \subseteq Runs /\ pendingTexts' \subseteq Runs /\ over' \subseteq Runs
         /\ call' \in [Publishers -> Calls(CardIds)]
         /\ call'[p].pc = "send" \/ OnCard(p)' => call'[p].card \in CardIds
<1>1. /\ cardOf \in [Runs -> {NoCard} \union CardIds] /\ over \subseteq Runs
      /\ textRuns \subseteq Runs /\ pendingTexts \subseteq Runs
  BY DEF TypeInv, TypeOK
<1>2. TypeOK /\ CardIds' = CardIds
  BY DEF TypeInv, publish, feishuVars, CardIds
<1>3. textRuns' \subseteq Runs /\ pendingTexts' \subseteq Runs
  BY <1>1, <1>2, Publishing DEF OnlyRunAdded
<1>4. cardOf' \in [Runs -> {NoCard} \union CardIds] /\ over' \subseteq Runs
  BY <1>1, <1>2, Publishing DEF Texts, Omits, Opens, Updates, Drops
<1>5. CASE cardOf[run] = NoCard /\ (Texts(p, view) \/ Omits(p, view) \/ Opens(p, view))
  <2>1. call'[p] \in Calls(CardIds)
    <3>1. CASE Omits(p, view)
      BY <3>1, IdleCall DEF Omits
    <3>2. CASE Texts(p, view) \/ Opens(p, view)
      <4>1. PICK pc \in {"text", "create"} :
              call'[p] = [pc |-> pc, view |-> view, card |-> NoCard, sequence |-> 0, aged |-> FALSE]
        BY <3>2 DEF Texts, Opens
      <4> QED BY <4>1 DEF Calls
    <3> QED BY <1>5, <3>1, <3>2
  <2>2. call'[p].pc \in {"text", "create", "idle"}
    BY <1>5 DEF Texts, Omits, Opens, Idle
  <2> QED BY <1>2, <1>3, <1>4, <2>1, <2>2, CallsTyped, Publishing DEF OnCard
<1>6. CASE Updates(p, view)
  <2>1. cardOf[run] \in CardIds /\ sequence[cardOf[run]] \in Nat
    BY <1>1, <1>2, <1>6, CardTypes DEF Updates
  <2>2. call'[p] \in Calls(CardIds) /\ call'[p].card \in CardIds
    BY <1>6, <2>1 DEF Updates, Calls
  <2> QED BY <1>2, <1>3, <1>4, <2>2, CallsTyped, Publishing
<1>7. CASE Drops(p, view)
  <2>1. call'[p] = Idle
    BY <1>7 DEF Drops
  <2>2. call'[p] \in Calls(CardIds)
    BY <2>1, IdleCall
  <2>3. call'[p].pc = "idle"
    BY <2>1 DEF Idle
  <2> QED BY <1>2, <1>3, <1>4, <2>2, <2>3, CallsTyped, Publishing DEF OnCard
<1> QED BY <1>2, <1>5, <1>6, <1>7, Publishing

\* A type step that touches no card.
LEMMA SameCardTypes ==
  ASSUME TypeOK, UNCHANGED cards,
         run' \in {0} \union Runs /\ reader' \in {"none", "consumer", "answer"} /\ events' \in 0 .. MaxEvents,
         asked' \in BOOLEAN /\ pending' \in BOOLEAN /\ stopping' \in {"no", "paused", "running", "done"},
         cardOf' \in [Runs -> {NoCard} \union CardIds],
         textRuns' \subseteq Runs /\ pendingTexts' \subseteq Runs /\ disabled' \in BOOLEAN,
         UNCHANGED sequence, recent' \in Seq(BOOLEAN) /\ Len(recent') = Len(recent),
         closed' \subseteq CardIds, call' \in [Publishers -> Calls(CardIds)],
         texts' \subseteq Runs \X Views, over' \subseteq Runs /\ textFailed' \subseteq Runs,
         faults' \in 0 .. MaxFaults
  PROVE  TypeOK'
<1>1. CardIds' = CardIds
  BY DEF CardIds
<1>2. cards' \in Seq(CardRecords) /\ sequence' \in Seq(Nat)
      /\ Len(sequence') = Len(cards') /\ Len(recent') = Len(cards')
  BY DEF TypeOK, CardRecords
<1> QED BY <1>1, <1>2 DEF TypeOK, Calls, CardRecords

LEMMA BusyRun ==
  ASSUME TypeInv, NEW p \in Publishers, Busy(p)
  PROVE  run \in Runs
BY RunStarted DEF TypeInv

LEMMA TypeInvFrom ==
  ASSUME TypeInv, TypeOK', run' # 0, NEW p \in Publishers, CardIds \subseteq CardIds',
         \A q \in Publishers : q # p => call'[q] = call[q],
         call'[p].pc = "send" \/ OnCard(p)' => call'[p].card \in CardIds'
  PROVE  TypeInv'
<1>1. ASSUME NEW q \in Publishers, call'[q].pc = "send" \/ OnCard(q)'
      PROVE  call'[q].card \in CardIds'
  <2>1. CASE q = p
    BY <1>1, <2>1
  <2>2. CASE q # p
    <3>1. call'[q] = call[q]
      BY <2>2
    <3>2. call[q].pc = "send" \/ OnCard(q) => call[q].card \in CardIds
      BY DEF TypeInv
    <3> QED BY <1>1, <3>1, <3>2 DEF OnCard
  <2> QED BY <2>1, <2>2
<1> QED BY <1>1 DEF TypeInv

LEMMA PublishKeepsTypes ==
  ASSUME TypeInv, NEW p \in Publishers, NEW view, Publishes(p, view)
  PROVE  TypeInv'
<1>1. run \in Runs /\ view \in Views /\ publish(p, view)
  BY PublishesRun
<1>2. TypeOK
  BY DEF TypeInv
<1>3. UNCHANGED <<disabled, streamVars, feishuVars, textFailed, faults>>
  BY <1>1, <1>2, Publishing
<1>4. CardIds' = CardIds
  BY <1>3 DEF CardIds, feishuVars
<1>5. TypeOK'
  <2>1. /\ disabled' \in BOOLEAN /\ recent' \in Seq(BOOLEAN) /\ Len(recent') = Len(recent)
        /\ closed' \subseteq CardIds /\ texts' \subseteq Runs \X Views /\ textFailed' \subseteq Runs
        /\ faults' \in 0 .. MaxFaults /\ UNCHANGED cards /\ UNCHANGED sequence /\ run' \in {0} \union Runs
    BY <1>1, <1>2, <1>3, PublishesRun DEF TypeOK, streamVars, feishuVars
  <2> QED BY <1>1, <1>2, <2>1, PublishTypes, PublishesRun, SameCardTypes
<1>6. run' # 0
  BY <1>1, PublishesRun DEF Runs
<1>7. call'[p].pc = "send" \/ OnCard(p)' => call'[p].card \in CardIds'
  BY <1>1, <1>4, PublishTypes
<1>8. \A q \in Publishers : q # p => call'[q] = call[q]
  BY <1>1, <1>2, Publishing
<1> QED BY <1>4, <1>5, <1>6, <1>7, <1>8, TypeInvFrom

LEMMA StartKeepsTypes ==
  ASSUME TypeInv, StartRun
  PROVE  TypeInv'
<1>1. TypeOK /\ UNCHANGED cards /\ CardIds' = CardIds
  BY DEF TypeInv, StartRun, feishuVars, CardIds
<1>2. run' \in Runs /\ run' # 0 /\ MaxEvents \in Nat
  BY <1>1, RunViewCardsAssumption DEF TypeOK, StartRun, Runs
<1>3. "consumer" \in Publishers
  BY DEF Publishers
<1>4. PICK pc \in {"text", "create"} : Await("consumer", pc, "initial", NoCard, 0)
  BY DEF StartRun
<1>5. /\ call'["consumer"] = [pc |-> pc, view |-> "initial", card |-> NoCard, sequence |-> 0, aged |-> FALSE]
      /\ \A q \in Publishers : q # "consumer" => call'[q] = call[q]
  BY <1>1, <1>3, <1>4, Awaited
<1>6. call'["consumer"] \in Calls(CardIds) /\ ~OnCard("consumer")' /\ call'["consumer"].pc # "send"
  <2>1. "initial" \in Views
    BY DEF Views
  <2>2. call'["consumer"] \in Calls(CardIds)
    BY <1>5, <2>1 DEF Calls
  <2> QED BY <1>5, <2>2 DEF OnCard
<1>7. call' \in [Publishers -> Calls(CardIds)]
  <2>1. call' = [call EXCEPT !["consumer"] = call'["consumer"]]
    BY <1>1, <1>3, <1>4, CardTypes DEF Await
  <2> QED BY <1>1, <1>3, <1>6, <2>1, CallsTyped
<1>8. TypeOK'
  <2>1. /\ run' \in {0} \union Runs /\ reader' \in {"none", "consumer", "answer"} /\ events' \in 0 .. MaxEvents
        /\ asked' \in BOOLEAN /\ pending' \in BOOLEAN /\ stopping' \in {"no", "paused", "running", "done"}
    <3>1. events' = 0 /\ 0 \in 0 .. MaxEvents
      BY <1>2 DEF StartRun
    <3>2. reader' = "consumer" /\ asked' = FALSE /\ pending' = FALSE /\ stopping' = "no"
      BY DEF StartRun
    <3> QED BY <1>2, <3>1, <3>2
  <2>2. /\ cardOf' \in [Runs -> {NoCard} \union CardIds] /\ textRuns' \subseteq Runs
        /\ pendingTexts' \subseteq Runs /\ disabled' \in BOOLEAN
    BY <1>1, <1>2 DEF StartRun, TypeOK
  <2>3. /\ UNCHANGED sequence /\ recent' \in Seq(BOOLEAN) /\ Len(recent') = Len(recent)
        /\ closed' \subseteq CardIds /\ texts' \subseteq Runs \X Views /\ over' \subseteq Runs
        /\ textFailed' \subseteq Runs /\ faults' \in 0 .. MaxFaults
    BY <1>1 DEF StartRun, TypeOK, streamVars, feishuVars, history
  <2> QED BY <1>1, <1>7, <2>1, <2>2, <2>3, SameCardTypes
<1> QED BY <1>1, <1>2, <1>3, <1>5, <1>6, <1>8, TypeInvFrom

LEMMA CreatedKeepsTypes ==
  ASSUME TypeInv, NEW p \in Publishers, CardCreated(p)
  PROVE  /\ TypeInv' /\ Len(cards') = Len(cards) + 1 /\ CardIds \subseteq CardIds'
         /\ \A c \in CardIds : cards'[c] = cards[c] /\ sequence'[c] = sequence[c]
         /\ cards'[Len(cards) + 1] = [run |-> run, view |-> call[p].view, sequence |-> 1,
                                      sent |-> FALSE, streaming |-> TRUE]
         /\ sequence'[Len(cards) + 1] = 0
<1> DEFINE new == [run |-> run, view |-> call[p].view, sequence |-> 1, sent |-> FALSE, streaming |-> TRUE]
<1>1. TypeOK /\ run \in Runs /\ run' = run /\ call[p] \in Calls(CardIds)
  BY BusyRun, CardTypes DEF TypeInv, CardCreated, Busy, controllerVars
<1>2. /\ cards \in Seq(CardRecords) /\ sequence \in Seq(Nat) /\ recent \in Seq(BOOLEAN)
      /\ Len(sequence) = Len(cards) /\ Len(recent) = Len(cards)
  BY <1>1 DEF TypeOK, CardRecords
<1>3. new \in CardRecords
  BY <1>1 DEF CardRecords, Calls
<1>4. cards' = Append(cards, new) /\ sequence' = Append(sequence, 0) /\ recent' = Append(recent, FALSE)
  BY DEF CardCreated
<1> HIDE DEF new
<1>5. /\ cards' \in Seq(CardRecords) /\ sequence' \in Seq(Nat) /\ recent' \in Seq(BOOLEAN)
      /\ Len(cards') = Len(cards) + 1 /\ Len(sequence') = Len(cards') /\ Len(recent') = Len(cards')
  BY <1>2, <1>3, <1>4, AppendProperties
<1>6. /\ \A c \in CardIds : cards'[c] = cards[c] /\ sequence'[c] = sequence[c]
      /\ cards'[Len(cards) + 1] = new /\ sequence'[Len(cards) + 1] = 0
  BY <1>2, <1>3, <1>4, AppendProperties DEF CardIds
<1>7. CardIds \subseteq CardIds' /\ Len(cards') \in CardIds'
  BY <1>1, <1>5, CardTypes DEF CardIds
<1>8. Await(p, "send", call[p].view, Len(cards'), 0)
  BY DEF CardCreated
<1>9. /\ call'[p] = [pc |-> "send", view |-> call[p].view, card |-> Len(cards'), sequence |-> 0, aged |-> FALSE]
      /\ \A q \in Publishers : q # p => call'[q] = call[q]
  BY <1>1, <1>8, Awaited
<1>10. call'[p] \in Calls(CardIds')
  BY <1>1, <1>7, <1>9 DEF Calls
<1>11. call' \in [Publishers -> Calls(CardIds')]
  <2>1. call' = [call EXCEPT ![p] = call'[p]]
    BY <1>1, <1>8, CardTypes DEF Await
  <2> QED BY <1>1, <1>7, <1>10, <2>1, CallsTyped
<1>12. TypeOK'
  <2>1. UNCHANGED <<controllerVars, sinkVars, closed, texts, history>>
    BY DEF CardCreated
  <2>2. cardOf' \in [Runs -> {NoCard} \union CardIds'] /\ closed' \subseteq CardIds'
    BY <1>1, <1>7, <2>1 DEF TypeOK, sinkVars
  <2> QED BY <1>1, <1>5, <1>11, <2>1, <2>2
       DEF TypeOK, CardRecords, Calls, controllerVars, sinkVars, history
<1>13. TypeInv'
  <2>1. run' # 0 /\ call'[p].card \in CardIds'
    BY <1>1, <1>7, <1>9 DEF Runs
  <2> QED BY <1>7, <1>9, <1>12, <2>1, TypeInvFrom
<1> QED BY <1>5, <1>6, <1>7, <1>13 DEF new

\* A call about a card sets some fields of it.
Sets(c, view, number, sent, streaming) ==
  \A d \in CardIds :
    cards'[d] = IF d = c THEN [run |-> cards[c].run, view |-> view, sequence |-> number,
                               sent |-> sent, streaming |-> streaming]
                         ELSE cards[d]

LEMMA SetTypes ==
  ASSUME TypeOK, NEW c \in CardIds, NEW e \in CardRecords, cards' = [cards EXCEPT ![c] = e]
  PROVE  /\ cards' \in Seq(CardRecords) /\ Len(cards') = Len(cards) /\ CardIds' = CardIds
         /\ \A d \in CardIds : cards'[d] = IF d = c THEN e ELSE cards[d]
<1>1. cards \in Seq(CardRecords) /\ c \in 1 .. Len(cards)
  BY DEF TypeOK, CardRecords, CardIds
<1> QED BY <1>1, ExceptSeq DEF CardIds

LEMMA CardFields ==
  ASSUME TypeOK, NEW c \in CardIds
  PROVE  /\ cards[c] \in CardRecords
         /\ cards[c].run \in Runs /\ cards[c].view \in Views /\ cards[c].sequence \in Nat
         /\ cards[c].sent \in BOOLEAN /\ cards[c].streaming \in BOOLEAN
         /\ cards[c] = [run |-> cards[c].run, view |-> cards[c].view, sequence |-> cards[c].sequence,
                        sent |-> cards[c].sent, streaming |-> cards[c].streaming]
<1>1. cards[c] \in CardRecords
  BY CardTypes
<1> QED BY <1>1 DEF CardRecords

LEMMA CardRuns ==
  ASSUME TypeOK, NEW c \in CardIds
  PROVE  cards[c].run \in Nat /\ cards[c].run # 0
<1>1. cards[c].run \in 1 .. MaxRuns /\ MaxRuns \in Nat
  BY CardFields, RunViewCardsAssumption DEF Runs
<1> QED BY <1>1

LEMMA CallFields ==
  ASSUME TypeOK, NEW p \in Publishers
  PROVE  /\ call[p] \in Calls(CardIds) /\ call[p].view \in Views /\ call[p].sequence \in Nat
         /\ call[p].pc \in {"idle", "create", "send", "update", "close", "finalText", "text"}
         /\ call[p].aged \in BOOLEAN
<1>1. call[p] \in Calls(CardIds)
  BY CardTypes
<1> QED BY <1>1 DEF Calls

\* A card's number is stored, its time noted.
LEMMA NumberStored ==
  ASSUME TypeOK, NEW c \in CardIds, NEW n \in Nat, sequence' = [sequence EXCEPT ![c] = n]
  PROVE  /\ sequence' \in Seq(Nat) /\ Len(sequence') = Len(cards)
         /\ \A d \in CardIds : sequence'[d] = IF d = c THEN n ELSE sequence[d]
<1>1. sequence \in Seq(Nat) /\ Len(sequence) = Len(cards) /\ c \in 1 .. Len(sequence)
  BY DEF TypeOK, CardIds
<1>2. /\ [sequence EXCEPT ![c] = n] \in Seq(Nat) /\ Len([sequence EXCEPT ![c] = n]) = Len(sequence)
      /\ \A d \in 1 .. Len(sequence) : [sequence EXCEPT ![c] = n][d] = IF d = c THEN n ELSE sequence[d]
  BY <1>1, ExceptSeq
<1> QED BY <1>1, <1>2 DEF CardIds

LEMMA TimeNoted ==
  ASSUME TypeOK, NEW c \in CardIds, NEW b \in BOOLEAN, recent' = [recent EXCEPT ![c] = b]
  PROVE  recent' \in Seq(BOOLEAN) /\ Len(recent') = Len(cards)
<1>1. recent \in Seq(BOOLEAN) /\ Len(recent) = Len(cards) /\ c \in 1 .. Len(recent)
  BY DEF TypeOK, CardIds
<1>2. [recent EXCEPT ![c] = b] \in Seq(BOOLEAN) /\ Len([recent EXCEPT ![c] = b]) = Len(recent)
  BY <1>1, ExceptSeq
<1> QED BY <1>1, <1>2

\* A step of a call about a card that exists.
LEMMA CardStepTypes ==
  ASSUME TypeInv, NEW p \in Publishers, Busy(p), UNCHANGED controllerVars,
         cards' \in Seq(CardRecords), Len(cards') = Len(cards), CardIds' = CardIds,
         sequence' \in Seq(Nat) /\ Len(sequence') = Len(cards),
         recent' \in Seq(BOOLEAN) /\ Len(recent') = Len(cards),
         UNCHANGED <<textRuns, pendingTexts, disabled>>,
         cardOf' \in [Runs -> {NoCard} \union CardIds], closed' \subseteq CardIds, over' \subseteq Runs,
         texts' \subseteq Runs \X Views, textFailed' \subseteq Runs, faults' \in 0 .. MaxFaults,
         call' = [call EXCEPT ![p] = call'[p]], call'[p] \in Calls(CardIds),
         \A q \in Publishers : q # p => call'[q] = call[q],
         call'[p].pc = "send" \/ OnCard(p)' => call'[p].card \in CardIds
  PROVE  TypeInv'
<1>1. TypeOK
  BY DEF TypeInv
<1>2. call' \in [Publishers -> Calls(CardIds')]
  BY <1>1, CallsTyped
<1>3. TypeOK'
  BY <1>1, <1>2 DEF TypeOK, controllerVars, CardRecords, Calls
<1>4. run' # 0
  BY BusyRun DEF controllerVars, Runs
<1> QED BY <1>3, <1>4, TypeInvFrom

LEMMA CallStepAwaits ==
  ASSUME TypeOK, NEW p \in Publishers, NEW pc, NEW view, NEW c, NEW s, Await(p, pc, view, c, s)
  PROVE  call' = [call EXCEPT ![p] = call'[p]]
BY CardTypes DEF Await

LEMMA CallStepReturns ==
  ASSUME TypeOK, NEW p \in Publishers, NEW view, Return(p, view), run \in Runs
  PROVE  /\ call' = [call EXCEPT ![p] = call'[p]] /\ call'[p] = Idle /\ call'[p] \in Calls(CardIds)
         /\ call'[p].pc = "idle" /\ over' \subseteq Runs
<1>1. call'[p] = Idle /\ call'[p] \in Calls(CardIds)
  BY Returned, IdleCall
<1>2. call' = [call EXCEPT ![p] = call'[p]]
  BY CardTypes DEF Return
<1>3. call'[p].pc = "idle"
  BY <1>1 DEF Idle
<1>4. over' \subseteq Runs
  BY DEF Return, TypeOK
<1> QED BY <1>1, <1>2, <1>3, <1>4

\* Setting one field of a card.
LEMMA SetView ==
  ASSUME NEW D, NEW f \in [D -> CardRecords], NEW c \in D, NEW v \in Views
  PROVE  LET g == [f EXCEPT ![c].view = v] IN
         /\ g \in [D -> CardRecords]
         /\ \A d \in D : d # c => g[d] = f[d]
         /\ g[c] = [run |-> f[c].run, view |-> v, sequence |-> f[c].sequence,
                    sent |-> f[c].sent, streaming |-> f[c].streaming]
<1>1. f[c] \in CardRecords
  OBVIOUS
<1> DEFINE r == [f[c] EXCEPT !.view = v]
<1>2. r = [run |-> f[c].run, view |-> v, sequence |-> f[c].sequence,
           sent |-> f[c].sent, streaming |-> f[c].streaming]
  BY <1>1 DEF CardRecords
<1>3. r \in CardRecords
  BY <1>1 DEF CardRecords
<1>4. [f EXCEPT ![c].view = v] = [f EXCEPT ![c] = r]
  OBVIOUS
<1> HIDE DEF r
<1> QED BY <1>2, <1>3, <1>4

LEMMA SetSequence ==
  ASSUME NEW D, NEW f \in [D -> CardRecords], NEW c \in D, NEW n \in Nat
  PROVE  LET g == [f EXCEPT ![c].sequence = n] IN
         /\ g \in [D -> CardRecords]
         /\ \A d \in D : d # c => g[d] = f[d]
         /\ g[c] = [run |-> f[c].run, view |-> f[c].view, sequence |-> n,
                    sent |-> f[c].sent, streaming |-> f[c].streaming]
<1>1. f[c] \in CardRecords
  OBVIOUS
<1> DEFINE r == [f[c] EXCEPT !.sequence = n]
<1>2. r = [run |-> f[c].run, view |-> f[c].view, sequence |-> n,
           sent |-> f[c].sent, streaming |-> f[c].streaming]
  BY <1>1 DEF CardRecords
<1>3. r \in CardRecords
  BY <1>1 DEF CardRecords
<1>4. [f EXCEPT ![c].sequence = n] = [f EXCEPT ![c] = r]
  OBVIOUS
<1> HIDE DEF r
<1> QED BY <1>2, <1>3, <1>4

LEMMA SetSent ==
  ASSUME NEW D, NEW f \in [D -> CardRecords], NEW c \in D, NEW b \in BOOLEAN
  PROVE  LET g == [f EXCEPT ![c].sent = b] IN
         /\ g \in [D -> CardRecords]
         /\ \A d \in D : d # c => g[d] = f[d]
         /\ g[c] = [run |-> f[c].run, view |-> f[c].view, sequence |-> f[c].sequence,
                    sent |-> b, streaming |-> f[c].streaming]
<1>1. f[c] \in CardRecords
  OBVIOUS
<1> DEFINE r == [f[c] EXCEPT !.sent = b]
<1>2. r = [run |-> f[c].run, view |-> f[c].view, sequence |-> f[c].sequence,
           sent |-> b, streaming |-> f[c].streaming]
  BY <1>1 DEF CardRecords
<1>3. r \in CardRecords
  BY <1>1 DEF CardRecords
<1>4. [f EXCEPT ![c].sent = b] = [f EXCEPT ![c] = r]
  OBVIOUS
<1> HIDE DEF r
<1> QED BY <1>2, <1>3, <1>4

LEMMA SetStreaming ==
  ASSUME NEW D, NEW f \in [D -> CardRecords], NEW c \in D, NEW b \in BOOLEAN
  PROVE  LET g == [f EXCEPT ![c].streaming = b] IN
         /\ g \in [D -> CardRecords]
         /\ \A d \in D : d # c => g[d] = f[d]
         /\ g[c] = [run |-> f[c].run, view |-> f[c].view, sequence |-> f[c].sequence,
                    sent |-> f[c].sent, streaming |-> b]
<1>1. f[c] \in CardRecords
  OBVIOUS
<1> DEFINE r == [f[c] EXCEPT !.streaming = b]
<1>2. r = [run |-> f[c].run, view |-> f[c].view, sequence |-> f[c].sequence,
           sent |-> f[c].sent, streaming |-> b]
  BY <1>1 DEF CardRecords
<1>3. r \in CardRecords
  BY <1>1 DEF CardRecords
<1>4. [f EXCEPT ![c].streaming = b] = [f EXCEPT ![c] = r]
  OBVIOUS
<1> HIDE DEF r
<1> QED BY <1>2, <1>3, <1>4

\* A table of as many cards is one of the same type.
LEMMA SameLength ==
  ASSUME TypeOK, NEW f \in [CardIds -> CardRecords], cards' = f
  PROVE  cards' \in Seq(CardRecords) /\ Len(cards') = Len(cards) /\ CardIds' = CardIds
<1>1. Len(cards) \in Nat
  BY CardTypes
<1>2. cards' \in [1 .. Len(cards) -> CardRecords]
  BY DEF CardIds
<1>3. cards' \in Seq(CardRecords)
  BY <1>1, <1>2, SeqDef
<1>4. DOMAIN cards' = 1 .. Len(cards)
  BY <1>2
<1>5. Len(cards') = Len(cards)
  BY <1>1, <1>3, <1>4, LenProperties
<1> QED BY <1>3, <1>5 DEF CardIds

LEMMA SentKeepsTypes ==
  ASSUME TypeInv, NEW p \in Publishers, CardSent(p)
  PROVE  LET c == call[p].card IN
         /\ TypeInv' /\ c \in CardIds /\ run \in Runs /\ Len(cards') = Len(cards) /\ CardIds' = CardIds
         /\ Sets(c, cards[c].view, cards[c].sequence, TRUE, cards[c].streaming)
         /\ \A d \in CardIds : sequence'[d] = IF d = c THEN 1 ELSE sequence[d]
         /\ \A q \in Publishers : q # p => call'[q] = call[q]
         /\ over' = over
         /\ IF Final(call[p].view)
              THEN call'[p] = [pc |-> "update", view |-> call[p].view, card |-> c, sequence |-> 2, aged |-> FALSE]
              ELSE call'[p] = Idle
<1>0. TypeOK /\ call[p].card \in CardIds /\ run \in Runs
  BY BusyRun DEF TypeInv, CardSent, UpdateReturns, Busy, OnCard
<1>1. PICK c \in CardIds : c = call[p].card
  BY <1>0
<1> DEFINE e == [run |-> cards[c].run, view |-> cards[c].view, sequence |-> cards[c].sequence,
                sent |-> TRUE, streaming |-> cards[c].streaming]
<1>2. cards \in [CardIds -> CardRecords]
  BY <1>0, <1>1, CardTypes
<1>2a. PICK b \in BOOLEAN : b = TRUE
  OBVIOUS
<1> DEFINE f == [cards EXCEPT ![c].sent = b]
<1>2b. /\ f \in [CardIds -> CardRecords] /\ \A d \in CardIds : d # c => f[d] = cards[d]
       /\ f[c] = [run |-> cards[c].run, view |-> cards[c].view, sequence |-> cards[c].sequence,
                  sent |-> b, streaming |-> cards[c].streaming]
  BY <1>0, <1>1, <1>2, SetSent
<1>2c. cards' = f
  BY <1>1, <1>2a DEF CardSent
<1> HIDE DEF f
<1>5. /\ cards' \in [CardIds -> CardRecords]
      /\ \A d \in CardIds : d # c => cards'[d] = cards[d]
      /\ cards'[c] = e
  BY <1>2a, <1>2b, <1>2c
<1>5a. cards' \in Seq(CardRecords) /\ Len(cards') = Len(cards) /\ CardIds' = CardIds
  BY <1>0, <1>1, <1>5, SameLength
<1>3. sequence' = [sequence EXCEPT ![c] = 1] /\ recent' = [recent EXCEPT ![c] = TRUE]
  BY <1>1 DEF CardSent
<1>4. /\ sequence' \in Seq(Nat) /\ Len(sequence') = Len(cards)
      /\ recent' \in Seq(BOOLEAN) /\ Len(recent') = Len(cards)
      /\ \A d \in CardIds : sequence'[d] = IF d = c THEN 1 ELSE sequence[d]
  <2>1. 1 \in Nat /\ TRUE \in BOOLEAN
    OBVIOUS
  <2>2. sequence' \in Seq(Nat) /\ Len(sequence') = Len(cards)
        /\ \A d \in CardIds : sequence'[d] = IF d = c THEN 1 ELSE sequence[d]
    BY <1>0, <1>3, <2>1, NumberStored
  <2>3. recent' \in Seq(BOOLEAN) /\ Len(recent') = Len(cards)
    BY <1>0, <1>3, <2>1, TimeNoted
  <2> QED BY <2>2, <2>3
<1> HIDE DEF e
<1>6. Busy(p) /\ UNCHANGED <<controllerVars, textRuns, pendingTexts, disabled, closed, texts, textFailed, faults>>
  BY DEF CardSent, Busy
<1>7. cardOf' \in [Runs -> {NoCard} \union CardIds]
  BY <1>0, <1>1 DEF CardSent, TypeOK
<1>8. /\ call' = [call EXCEPT ![p] = call'[p]] /\ call'[p] \in Calls(CardIds) /\ over' = over
      /\ \A q \in Publishers : q # p => call'[q] = call[q]
      /\ call'[p].pc = "send" \/ OnCard(p)' => call'[p].card \in CardIds
      /\ IF Final(call[p].view)
           THEN call'[p] = [pc |-> "update", view |-> call[p].view, card |-> c, sequence |-> 2, aged |-> FALSE]
           ELSE call'[p] = Idle
  <2>1. CASE Final(call[p].view)
    <3>1. Await(p, "update", call[p].view, c, 2) /\ UNCHANGED over
      BY <1>1, <2>1 DEF CardSent
    <3>2. /\ call'[p] = [pc |-> "update", view |-> call[p].view, card |-> c, sequence |-> 2, aged |-> FALSE]
          /\ \A q \in Publishers : q # p => call'[q] = call[q]
      BY <1>0, <1>1, <3>1, Awaited
    <3>3. call'[p] \in Calls(CardIds)
      BY <1>0, <1>1, <3>2, CallFields DEF Calls
    <3>4. call' = [call EXCEPT ![p] = call'[p]]
      BY <1>0, <1>1, <3>1, CallStepAwaits
    <3> QED BY <1>0, <1>1, <2>1, <3>1, <3>2, <3>3, <3>4
  <2>2. CASE ~Final(call[p].view)
    <3>1. Return(p, call[p].view)
      BY <2>2 DEF CardSent
    <3>2. over' = over
      BY <2>2, <3>1 DEF Return
    <3> QED BY <1>0, <1>1, <2>2, <3>1, <3>2, CallStepReturns, Returned DEF OnCard
  <2> QED BY <2>1, <2>2
<1>9. closed' \subseteq CardIds /\ over' \subseteq Runs /\ texts' \subseteq Runs \X Views
      /\ textFailed' \subseteq Runs /\ faults' \in 0 .. MaxFaults
  BY <1>0, <1>1, <1>6, <1>8 DEF TypeOK
<1>10. TypeInv'
  BY <1>4, <1>5a, <1>6, <1>7, <1>8, <1>9, CardStepTypes
<1> QED BY <1>0, <1>1, <1>4, <1>5, <1>5a, <1>8, <1>10 DEF Sets, e

LEMMA UpdatedKeepsTypes ==
  ASSUME TypeInv, NEW p \in Publishers, UpdateReturns(p)
  PROVE  LET c == call[p].card IN
         /\ TypeInv' /\ c \in CardIds /\ run \in Runs /\ Len(cards') = Len(cards) /\ CardIds' = CardIds
         /\ Sets(c, call[p].view, call[p].sequence, cards[c].sent, cards[c].streaming)
         /\ \A d \in CardIds : sequence'[d] = IF d = c THEN call[p].sequence ELSE sequence[d]
         /\ \A q \in Publishers : q # p => call'[q] = call[q]
         /\ over' = over
         /\ IF Final(call[p].view)
              THEN call'[p] = [pc |-> "close", view |-> call[p].view, card |-> c,
                               sequence |-> call[p].sequence + 1, aged |-> FALSE]
              ELSE call'[p] = Idle
<1>0. TypeOK /\ call[p].card \in CardIds /\ run \in Runs
  BY BusyRun DEF TypeInv, CardSent, UpdateReturns, Busy, OnCard
<1>1. PICK c \in CardIds : c = call[p].card
  BY <1>0
<1> DEFINE e == [run |-> cards[c].run, view |-> call[p].view, sequence |-> call[p].sequence,
                sent |-> cards[c].sent, streaming |-> cards[c].streaming]
<1> DEFINE f == [cards EXCEPT ![c].sequence = call[p].sequence]
<1>2. cards \in [CardIds -> CardRecords] /\ call[p].sequence \in Nat /\ call[p].view \in Views
  BY <1>0, <1>1, CardTypes, CallFields
<1>2a. /\ f \in [CardIds -> CardRecords]
       /\ \A d \in CardIds : d # c => f[d] = cards[d]
       /\ f[c] = [run |-> cards[c].run, view |-> cards[c].view, sequence |-> call[p].sequence,
                  sent |-> cards[c].sent, streaming |-> cards[c].streaming]
  BY <1>0, <1>1, <1>2, SetSequence
<1> DEFINE g == [f EXCEPT ![c].view = call[p].view]
<1>2b. cards' = g
  BY <1>0, <1>1, <1>2 DEF UpdateReturns
<1> HIDE DEF f
<1>2c. /\ g \in [CardIds -> CardRecords]
       /\ \A d \in CardIds : d # c => g[d] = f[d]
       /\ g[c] = [run |-> f[c].run, view |-> call[p].view, sequence |-> f[c].sequence,
                  sent |-> f[c].sent, streaming |-> f[c].streaming]
  BY <1>0, <1>1, <1>2, <1>2a, SetView
<1> HIDE DEF g
<1>5. /\ cards' \in [CardIds -> CardRecords]
      /\ \A d \in CardIds : d # c => cards'[d] = f[d]
      /\ cards'[c] = [run |-> f[c].run, view |-> call[p].view, sequence |-> f[c].sequence,
                      sent |-> f[c].sent, streaming |-> f[c].streaming]
  BY <1>2b, <1>2c
<1>5a. cards'[c] = e /\ \A d \in CardIds : d # c => cards'[d] = cards[d]
  BY <1>2a, <1>5
<1>5b. cards' \in Seq(CardRecords) /\ Len(cards') = Len(cards) /\ CardIds' = CardIds
  BY <1>0, <1>1, <1>5, SameLength
<1>3. sequence' = [sequence EXCEPT ![c] = call[p].sequence] /\ recent' = [recent EXCEPT ![c] = ~call[p].aged]
  BY <1>1 DEF UpdateReturns
<1>4. /\ sequence' \in Seq(Nat) /\ Len(sequence') = Len(cards)
      /\ recent' \in Seq(BOOLEAN) /\ Len(recent') = Len(cards)
      /\ \A d \in CardIds : sequence'[d] = IF d = c THEN call[p].sequence ELSE sequence[d]
  <2>1. PICK b \in BOOLEAN : b = ~call[p].aged
    OBVIOUS
  <2>2. recent' = [recent EXCEPT ![c] = b]
    BY <1>3, <2>1
  <2>3. sequence' \in Seq(Nat) /\ Len(sequence') = Len(cards)
        /\ \A d \in CardIds : sequence'[d] = IF d = c THEN call[p].sequence ELSE sequence[d]
    BY <1>0, <1>2, <1>3, NumberStored
  <2>4. recent' \in Seq(BOOLEAN) /\ Len(recent') = Len(cards)
    BY <1>0, <2>2, TimeNoted
  <2> QED BY <2>3, <2>4
<1> HIDE DEF e
<1>6. Busy(p) /\ UNCHANGED <<controllerVars, sinkVars, closed, texts, textFailed, faults>>
  BY DEF UpdateReturns, Busy
<1>7. /\ call' = [call EXCEPT ![p] = call'[p]] /\ call'[p] \in Calls(CardIds) /\ over' = over
      /\ \A q \in Publishers : q # p => call'[q] = call[q]
      /\ call'[p].pc = "send" \/ OnCard(p)' => call'[p].card \in CardIds
      /\ IF Final(call[p].view)
           THEN call'[p] = [pc |-> "close", view |-> call[p].view, card |-> c,
                            sequence |-> call[p].sequence + 1, aged |-> FALSE]
           ELSE call'[p] = Idle
  <2>1. CASE Final(call[p].view)
    <3>1. Await(p, "close", call[p].view, c, call[p].sequence + 1) /\ UNCHANGED over
      BY <1>1, <2>1 DEF UpdateReturns
    <3>2. /\ call'[p] = [pc |-> "close", view |-> call[p].view, card |-> c,
                         sequence |-> call[p].sequence + 1, aged |-> FALSE]
          /\ \A q \in Publishers : q # p => call'[q] = call[q]
      BY <1>0, <1>1, <3>1, Awaited
    <3>3. call'[p] \in Calls(CardIds)
      BY <1>0, <1>1, <3>2, CallFields DEF Calls
    <3>4. call' = [call EXCEPT ![p] = call'[p]]
      BY <1>0, <1>1, <3>1, CallStepAwaits
    <3> QED BY <1>0, <1>1, <2>1, <3>1, <3>2, <3>3, <3>4
  <2>2. CASE ~Final(call[p].view)
    <3>1. Return(p, call[p].view)
      BY <2>2 DEF UpdateReturns
    <3>2. over' = over
      BY <2>2, <3>1 DEF Return
    <3> QED BY <1>0, <1>1, <2>2, <3>1, <3>2, CallStepReturns, Returned DEF OnCard
  <2> QED BY <2>1, <2>2
<1>8. /\ closed' \subseteq CardIds /\ over' \subseteq Runs /\ texts' \subseteq Runs \X Views
      /\ textFailed' \subseteq Runs /\ faults' \in 0 .. MaxFaults
      /\ cardOf' \in [Runs -> {NoCard} \union CardIds] /\ UNCHANGED <<textRuns, pendingTexts, disabled>>
  BY <1>0, <1>1, <1>6, <1>7 DEF TypeOK, sinkVars
<1>9. TypeInv'
  BY <1>4, <1>5b, <1>6, <1>7, <1>8, CardStepTypes
<1> QED BY <1>0, <1>1, <1>4, <1>5a, <1>5b, <1>7, <1>9 DEF Sets, e

LEMMA FaultTypes ==
  ASSUME TypeOK, NEW kind, Fault(kind)
  PROVE  faults' \in 0 .. MaxFaults
<1>1. MaxFaults \in Nat
  BY RunViewCardsAssumption
<1> QED BY <1>1 DEF TypeOK, Fault

LEMMA CardFailsKeepsTypes ==
  ASSUME TypeInv, NEW p \in Publishers, NEW kind, CardFails(p, kind)
  PROVE  /\ TypeInv' /\ run \in Runs /\ MakesCard(p) /\ OnlyRunAdded
         /\ Texts(p, call[p].view) /\ UNCHANGED pendingTexts
         /\ \A q \in Publishers : q # p => call'[q] = call[q]
         /\ UNCHANGED <<controllerVars, cardOf, closed, sequence, cards, texts, textFailed>>
<1>1. TypeOK /\ MakesCard(p) /\ Busy(p) /\ run \in Runs
  BY BusyRun DEF TypeInv, CardFails, MakesCard, Busy
<1>2. UNCHANGED <<controllerVars, cardOf, closed, sequence, recent, cards, texts, textFailed>>
  BY DEF CardFails, streamVars, feishuVars
<1>3. PICK view \in Views : view = call[p].view
  BY <1>1, CallFields
<1>4. _publish_text_fallback(p, view, TRUE) /\ TRUE \in BOOLEAN
  BY <1>3 DEF CardFails
<1>4a. UNCHANGED pendingTexts
  BY <1>4 DEF _publish_text_fallback
<1>5. /\ OnlyRunAdded /\ Texts(p, view) /\ call' = [call EXCEPT ![p] = call'[p]]
      /\ \A q \in Publishers : q # p => call'[q] = call[q]
  BY <1>1, <1>2, <1>4, FallsBack
<1>6. call'[p] \in Calls(CardIds) /\ call'[p].pc = "text"
  BY <1>5 DEF Texts, Calls
<1>7. call' \in [Publishers -> Calls(CardIds)]
  <2>1. CardIds' = CardIds
    BY <1>2 DEF CardIds
  <2> QED BY <1>1, <1>5, <1>6, <2>1, CallsTyped
<1>8. TypeOK'
  <2>1. /\ disabled' \in BOOLEAN /\ faults' \in 0 .. MaxFaults
    BY <1>1, FaultTypes DEF CardFails, TypeOK
  <2>2. textRuns' \subseteq Runs /\ pendingTexts' \subseteq Runs /\ over' = over
    BY <1>1, <1>5 DEF OnlyRunAdded, Texts, TypeOK
  <2>3. UNCHANGED <<run, reader, asked, pending, stopping, events>>
    BY <1>2 DEF controllerVars
  <2>4. UNCHANGED cards /\ CardIds' = CardIds
    BY <1>2 DEF CardIds
  <2> QED BY <1>1, <1>2, <1>7, <2>1, <2>2, <2>3, <2>4 DEF TypeOK, Calls
<1>9. CardIds' = CardIds /\ run' # 0
  BY <1>1, <1>2 DEF CardIds, controllerVars, Runs
<1>10. TypeInv'
  BY <1>5, <1>6, <1>8, <1>9, TypeInvFrom DEF OnCard
<1> QED BY <1>1, <1>2, <1>3, <1>4a, <1>5, <1>10

LEMMA ClosedKeepsTypes ==
  ASSUME TypeInv, NEW p \in Publishers, CloseReturns(p)
  PROVE  LET c == call[p].card IN
         /\ TypeInv' /\ c \in CardIds /\ run \in Runs /\ Len(cards') = Len(cards) /\ CardIds' = CardIds
         /\ Sets(c, cards[c].view, call[p].sequence, cards[c].sent, FALSE)
         /\ \A q \in Publishers : q # p => call'[q] = call[q]
         /\ call'[p] = Idle
<1>0. TypeOK /\ call[p].card \in CardIds /\ run \in Runs
  BY BusyRun DEF TypeInv, CloseReturns, Busy, OnCard
<1>1. PICK c \in CardIds : c = call[p].card
  BY <1>0
<1>2. cards \in [CardIds -> CardRecords] /\ call[p].sequence \in Nat
  BY <1>0, CardTypes, CallFields
<1>3. PICK b \in BOOLEAN : b = FALSE
  OBVIOUS
<1> DEFINE f == [cards EXCEPT ![c].sequence = call[p].sequence]
           g == [f EXCEPT ![c].streaming = b]
<1>4. /\ f \in [CardIds -> CardRecords]
      /\ \A d \in CardIds : d # c => f[d] = cards[d]
      /\ f[c] = [run |-> cards[c].run, view |-> cards[c].view, sequence |-> call[p].sequence,
                 sent |-> cards[c].sent, streaming |-> cards[c].streaming]
  BY <1>2, SetSequence
<1>5. cards' = g
  BY <1>0, <1>1, <1>2, <1>3 DEF CloseReturns
<1> HIDE DEF f
<1>6. /\ g \in [CardIds -> CardRecords]
      /\ \A d \in CardIds : d # c => g[d] = f[d]
      /\ g[c] = [run |-> f[c].run, view |-> f[c].view, sequence |-> f[c].sequence,
                 sent |-> f[c].sent, streaming |-> b]
  BY <1>4, SetStreaming
<1> HIDE DEF g
<1>7. /\ cards' \in [CardIds -> CardRecords]
      /\ Sets(c, cards[c].view, call[p].sequence, cards[c].sent, FALSE)
  BY <1>3, <1>4, <1>5, <1>6 DEF Sets
<1>8. cards' \in Seq(CardRecords) /\ Len(cards') = Len(cards) /\ CardIds' = CardIds
  BY <1>0, <1>7, SameLength
<1>9. /\ Busy(p) /\ UNCHANGED <<controllerVars, textRuns, pendingTexts, disabled, sequence, recent, texts,
                                textFailed, faults>>
      /\ closed' = closed \union {c} /\ cardOf' = [cardOf EXCEPT ![run] = NoCard]
  BY <1>1 DEF CloseReturns, Busy
<1>10. /\ call' = [call EXCEPT ![p] = call'[p]] /\ call'[p] = Idle /\ call'[p] \in Calls(CardIds)
       /\ call'[p].pc = "idle" /\ over' \subseteq Runs /\ \A q \in Publishers : q # p => call'[q] = call[q]
  <2>1. Return(p, call[p].view)
    BY DEF CloseReturns
  <2> QED BY <1>0, <2>1, CallStepReturns, Returned
<1>11. /\ cardOf' \in [Runs -> {NoCard} \union CardIds] /\ closed' \subseteq CardIds
       /\ sequence' \in Seq(Nat) /\ Len(sequence') = Len(cards) /\ recent' \in Seq(BOOLEAN)
       /\ Len(recent') = Len(cards)
       /\ texts' \subseteq Runs \X Views /\ textFailed' \subseteq Runs /\ faults' \in 0 .. MaxFaults
  BY <1>0, <1>9 DEF TypeOK
<1>12. TypeInv'
  BY <1>8, <1>9, <1>10, <1>11, CardStepTypes DEF OnCard
<1> QED BY <1>0, <1>1, <1>7, <1>8, <1>10, <1>12

LEMMA CallFailsKeepsTypes ==
  ASSUME TypeInv, NEW p \in Publishers, CallFails(p)
  PROVE  LET c == call[p].card IN
         /\ TypeInv' /\ c \in CardIds /\ run \in Runs /\ Len(cards') = Len(cards) /\ CardIds' = CardIds
         /\ \/ UNCHANGED cards
            \/ /\ Accepted(c, call[p].sequence)
               /\ \E view \in Views, streaming \in BOOLEAN :
                    /\ Sets(c, view, call[p].sequence, cards[c].sent, streaming)
                    /\ view = IF call[p].pc = "update" THEN call[p].view ELSE cards[c].view
                    /\ streaming => cards[c].streaming
         /\ \A q \in Publishers : q # p => call'[q] = call[q]
         /\ over' = over
         /\ IF Final(call[p].view)
              THEN call'[p] = [pc |-> "finalText", view |-> call[p].view, card |-> c, sequence |-> 0, aged |-> FALSE]
              ELSE call'[p] = Idle
<1>0. TypeOK /\ call[p].card \in CardIds /\ run \in Runs
  BY BusyRun DEF TypeInv, CallFails, Busy, OnCard
<1>1. PICK c \in CardIds : c = call[p].card
  BY <1>0
<1>2. cards \in [CardIds -> CardRecords] /\ call[p].sequence \in Nat /\ call[p].view \in Views /\ cards[c].view \in Views
  BY <1>0, CardTypes, CallFields, CardFields
<1>3. PICK view \in Views : view = IF call[p].pc = "update" THEN call[p].view ELSE cards[c].view
  BY <1>2
<1>4. PICK b \in BOOLEAN : b = (cards[c].streaming /\ call[p].pc = "update")
  OBVIOUS
<1> DEFINE done == [cards EXCEPT ![c].sequence = call[p].sequence,
                                 ![c].view = IF call[p].pc = "update" THEN call[p].view ELSE @,
                                 ![c].streaming = @ /\ call[p].pc = "update"]
           f == [cards EXCEPT ![c].sequence = call[p].sequence]
           g == [f EXCEPT ![c].view = view]
           h == [g EXCEPT ![c].streaming = b]
<1>5. /\ f \in [CardIds -> CardRecords]
      /\ \A d \in CardIds : d # c => f[d] = cards[d]
      /\ f[c] = [run |-> cards[c].run, view |-> cards[c].view, sequence |-> call[p].sequence,
                 sent |-> cards[c].sent, streaming |-> cards[c].streaming]
  BY <1>2, SetSequence
<1>6. done = [[f EXCEPT ![c].view = IF call[p].pc = "update" THEN call[p].view ELSE @]
                 EXCEPT ![c].streaming = @ /\ call[p].pc = "update"]
  BY <1>2
<1>7. \/ UNCHANGED cards
      \/ Accepted(c, call[p].sequence) /\ cards' = done
  BY <1>1 DEF CallFails
<1> HIDE DEF f, done
<1>8. [f EXCEPT ![c].view = IF call[p].pc = "update" THEN call[p].view ELSE @] = g
  <2>1. f[c].view = cards[c].view
    BY <1>5
  <2> QED BY <1>3, <1>5, <2>1
<1>9. /\ g \in [CardIds -> CardRecords]
      /\ \A d \in CardIds : d # c => g[d] = f[d]
      /\ g[c] = [run |-> f[c].run, view |-> view, sequence |-> f[c].sequence,
                 sent |-> f[c].sent, streaming |-> f[c].streaming]
  BY <1>5, SetView
<1> HIDE DEF g
<1>10. done = h
  <2>1. done = [g EXCEPT ![c].streaming = @ /\ call[p].pc = "update"]
    BY <1>6, <1>8
  <2>2. g[c].streaming = cards[c].streaming
    BY <1>5, <1>9
  <2>3. (g[c].streaming /\ call[p].pc = "update") = b
    BY <1>4, <2>2
  <2> QED BY <1>9, <2>1, <2>3
<1>11. /\ h \in [CardIds -> CardRecords]
       /\ \A d \in CardIds : d # c => h[d] = g[d]
       /\ h[c] = [run |-> g[c].run, view |-> g[c].view, sequence |-> g[c].sequence,
                  sent |-> g[c].sent, streaming |-> b]
  BY <1>9, SetStreaming
<1> HIDE DEF h
<1>13. /\ cards' \in Seq(CardRecords) /\ Len(cards') = Len(cards) /\ CardIds' = CardIds
       /\ UNCHANGED cards \/ (Accepted(c, call[p].sequence) /\ Sets(c, view, call[p].sequence, cards[c].sent, b))
  <2>1. CASE UNCHANGED cards
    <3>1. cards \in Seq(CardRecords)
      BY <1>0 DEF TypeOK, CardRecords
    <3> QED BY <2>1, <3>1 DEF CardIds
  <2>2. CASE Accepted(c, call[p].sequence) /\ cards' = done
    <3>1. cards' \in [CardIds -> CardRecords] /\ Sets(c, view, call[p].sequence, cards[c].sent, b)
      BY <1>5, <1>9, <1>10, <1>11, <2>2 DEF Sets
    <3> QED BY <1>0, <2>2, <3>1, SameLength
  <2> QED BY <1>7, <2>1, <2>2
<1>14. Busy(p) /\ UNCHANGED <<controllerVars, sinkVars, sequence, recent, closed, texts, textFailed>>
  BY DEF CallFails, Busy, streamVars
<1>15. faults' \in 0 .. MaxFaults
  BY <1>0, FaultTypes DEF CallFails, TypeOK
<1>16. /\ call' = [call EXCEPT ![p] = call'[p]] /\ call'[p] \in Calls(CardIds) /\ over' = over
       /\ \A q \in Publishers : q # p => call'[q] = call[q]
       /\ call'[p].pc = "send" \/ OnCard(p)' => call'[p].card \in CardIds
       /\ IF Final(call[p].view)
            THEN call'[p] = [pc |-> "finalText", view |-> call[p].view, card |-> c, sequence |-> 0, aged |-> FALSE]
            ELSE call'[p] = Idle
  <2>1. CASE Final(call[p].view)
    <3>1. Await(p, "finalText", call[p].view, c, 0) /\ UNCHANGED over
      BY <1>1, <2>1 DEF CallFails, Raises
    <3>2. /\ call'[p] = [pc |-> "finalText", view |-> call[p].view, card |-> c, sequence |-> 0, aged |-> FALSE]
          /\ \A q \in Publishers : q # p => call'[q] = call[q]
      BY <1>0, <3>1, Awaited
    <3>3. call'[p] \in Calls(CardIds)
      BY <1>2, <3>2 DEF Calls
    <3>4. call' = [call EXCEPT ![p] = call'[p]]
      BY <1>0, <3>1, CallStepAwaits
    <3> QED BY <2>1, <3>1, <3>2, <3>3, <3>4
  <2>2. CASE ~Final(call[p].view)
    <3>1. Return(p, call[p].view)
      BY <2>2 DEF CallFails, Raises
    <3>2. over' = over
      BY <2>2, <3>1 DEF Return
    <3> QED BY <1>0, <2>2, <3>1, <3>2, CallStepReturns, Returned DEF OnCard
  <2> QED BY <2>1, <2>2
<1>17. /\ closed' \subseteq CardIds /\ over' \subseteq Runs /\ texts' \subseteq Runs \X Views
       /\ textFailed' \subseteq Runs /\ cardOf' \in [Runs -> {NoCard} \union CardIds]
       /\ UNCHANGED <<textRuns, pendingTexts, disabled>>
       /\ sequence' \in Seq(Nat) /\ Len(sequence') = Len(cards) /\ recent' \in Seq(BOOLEAN)
       /\ Len(recent') = Len(cards)
  BY <1>0, <1>14, <1>16 DEF TypeOK, sinkVars
<1>18. TypeInv'
  BY <1>13, <1>14, <1>15, <1>16, <1>17, CardStepTypes
<1>19. b => cards[c].streaming
  BY <1>4
<1> QED BY <1>0, <1>1, <1>3, <1>13, <1>16, <1>18, <1>19

\* A step that leaves the cards and their numbers alone.
LEMMA TextStepTypes ==
  ASSUME TypeInv, NEW p \in Publishers, Busy(p),
         UNCHANGED <<run, asked, pending, stopping, events, sinkVars, sequence, recent, cards>>,
         reader' \in {"none", "consumer", "answer"},
         closed' \subseteq CardIds, over' \subseteq Runs,
         texts' \subseteq Runs \X Views, textFailed' \subseteq Runs, faults' \in 0 .. MaxFaults,
         call' = [call EXCEPT ![p] = call'[p]], call'[p] = Idle,
         \A q \in Publishers : q # p => call'[q] = call[q]
  PROVE  TypeInv'
<1>1. TypeOK /\ CardIds' = CardIds
  BY DEF TypeInv, CardIds
<1>2. call'[p] \in Calls(CardIds) /\ call'[p].pc = "idle"
  <2>1. Idle.pc = "idle"
    BY DEF Idle
  <2> QED BY <2>1, IdleCall
<1>3. call' \in [Publishers -> Calls(CardIds)]
  BY <1>1, <1>2, CallsTyped
<1>4. TypeOK'
  BY <1>1, <1>3 DEF TypeOK, sinkVars, Calls
<1>5. run' # 0
  BY BusyRun DEF Runs
<1> QED BY <1>1, <1>2, <1>4, <1>5, TypeInvFrom DEF OnCard

LEMMA TextSentKeepsTypes ==
  ASSUME TypeInv, NEW p \in Publishers, TextSent(p)
  PROVE  /\ TypeInv' /\ run \in Runs
         /\ call'[p] = Idle /\ \A q \in Publishers : q # p => call'[q] = call[q]
<1>1. TypeOK /\ run \in Runs /\ Busy(p)
  BY BusyRun DEF TypeInv, TextSent, Busy
<1>2. Return(p, call[p].view)
  BY DEF TextSent
<1>3. /\ call' = [call EXCEPT ![p] = call'[p]] /\ call'[p] = Idle /\ over' \subseteq Runs
      /\ \A q \in Publishers : q # p => call'[q] = call[q]
  BY <1>1, <1>2, CallStepReturns, Returned
<1>4. UNCHANGED <<controllerVars, sinkVars, sequence, recent, cards, textFailed, faults>>
  BY DEF TextSent
<1>5. call[p].pc = "finalText" => call[p].card \in CardIds
  BY DEF TypeInv, OnCard
<1>6. /\ closed' \subseteq CardIds /\ texts' \subseteq Runs \X Views
      /\ textFailed' \subseteq Runs /\ faults' \in 0 .. MaxFaults
      /\ reader' \in {"none", "consumer", "answer"}
  BY <1>1, <1>4, <1>5, CallFields DEF TextSent, TypeOK, controllerVars
<1>7. TypeInv'
  BY <1>1, <1>3, <1>4, <1>6, TextStepTypes DEF controllerVars
<1> QED BY <1>1, <1>3, <1>7

LEMMA TextFailsKeepsTypes ==
  ASSUME TypeInv, NEW p \in Publishers, TextFails(p)
  PROVE  /\ TypeInv' /\ run \in Runs
         /\ call'[p] = Idle /\ \A q \in Publishers : q # p => call'[q] = call[q]
<1>1. TypeOK /\ run \in Runs /\ Busy(p)
  BY BusyRun DEF TypeInv, TextFails, Busy
<1>2. Return(p, IF call[p].pc = "text" THEN "event" ELSE call[p].view)
  BY DEF TextFails
<1>3. /\ call' = [call EXCEPT ![p] = call'[p]] /\ call'[p] = Idle /\ over' \subseteq Runs
      /\ \A q \in Publishers : q # p => call'[q] = call[q]
  BY <1>1, <1>2, CallStepReturns, Returned
<1>4. UNCHANGED <<run, asked, pending, stopping, events, sinkVars, streamVars, feishuVars>>
  BY DEF TextFails
<1>5. faults' \in 0 .. MaxFaults
  BY <1>1, FaultTypes DEF TextFails
<1>6. /\ closed' \subseteq CardIds /\ texts' \subseteq Runs \X Views
      /\ textFailed' \subseteq Runs /\ reader' \in {"none", "consumer", "answer"}
  BY <1>1, <1>4 DEF TextFails, TypeOK, streamVars, feishuVars
<1>7. TypeInv'
  BY <1>1, <1>3, <1>4, <1>5, <1>6, TextStepTypes DEF streamVars, feishuVars
<1> QED BY <1>1, <1>3, <1>7

\* The interval concerns no view and no number.
LEMMA ElapseKeepsTypes ==
  ASSUME TypeInv, Elapse
  PROVE  /\ TypeInv'
         /\ \A p \in Publishers :
              /\ call'[p].pc = call[p].pc /\ call'[p].view = call[p].view
              /\ call'[p].card = call[p].card /\ call'[p].sequence = call[p].sequence
<1>1. TypeOK /\ CardIds' = CardIds
  BY DEF TypeInv, Elapse, feishuVars, CardIds
<1>2. ASSUME NEW p \in Publishers
      PROVE  /\ call'[p] \in Calls(CardIds)
             /\ call'[p].pc = call[p].pc /\ call'[p].view = call[p].view
             /\ call'[p].card = call[p].card /\ call'[p].sequence = call[p].sequence
  <2>1. call'[p] = [call[p] EXCEPT !.aged = call[p].pc = "update"] /\ call[p] \in Calls(CardIds)
    BY <1>1, CardTypes DEF Elapse
  <2>2. PICK b \in BOOLEAN : b = (call[p].pc = "update")
    OBVIOUS
  <2>3. call'[p] = [call[p] EXCEPT !.aged = b]
    BY <2>1, <2>2
  <2> QED BY <2>1, <2>3 DEF Calls
<1>3. call' \in [Publishers -> Calls(CardIds)]
  BY <1>2 DEF Elapse
<1>4. recent' \in Seq(BOOLEAN) /\ Len(recent') = Len(recent)
  <2>1. Len(cards) \in Nat /\ recent' \in [1 .. Len(cards) -> BOOLEAN] /\ Len(recent) = Len(cards)
    BY <1>1, CardTypes DEF Elapse, CardIds, TypeOK
  <2>2. recent' \in Seq(BOOLEAN)
    BY <2>1, SeqDef
  <2>3. DOMAIN recent' = 1 .. Len(cards)
    BY <2>1
  <2> QED BY <2>1, <2>2, <2>3, LenProperties
<1>5. UNCHANGED <<controllerVars, sinkVars, sequence, closed, feishuVars, history>>
  BY DEF Elapse
<1>6. TypeOK'
  BY <1>1, <1>3, <1>4, <1>5 DEF TypeOK, controllerVars, sinkVars, feishuVars, history, Calls
<1>7. TypeInv'
  BY <1>1, <1>2, <1>5, <1>6 DEF TypeInv, controllerVars, Live, Busy, OnCard
<1> QED BY <1>2, <1>7

LEMMA StopKeepsTypes ==
  ASSUME TypeInv, Stop
  PROVE  TypeInv'
<1>1. UNCHANGED <<run, reader, asked, pending, events, sinkVars, streamVars, call, feishuVars, history>>
  BY DEF Stop
<1>2. stopping' \in {"paused", "running"} /\ run # 0 /\ CardIds' = CardIds
  BY <1>1 DEF Stop, TypeInv, feishuVars, CardIds, Live
<1>3. TypeOK'
  BY <1>1, <1>2 DEF TypeInv, TypeOK, sinkVars, streamVars, feishuVars, history
<1> QED BY <1>1, <1>2, <1>3 DEF TypeInv, OnCard

\* The steps there are.
LEMMA StepKinds ==
  ASSUME Next
  PROVE  \/ StartRun \/ Stop \/ Elapse
         \/ \E p \in Publishers : \E view \in Views : Publishes(p, view)
         \/ \E p \in Publishers :
              \/ CardCreated(p) \/ CardSent(p) \/ \E kind \in AllFaults : CardFails(p, kind)
              \/ UpdateReturns(p) \/ CloseReturns(p) \/ CallFails(p) \/ TextSent(p) \/ TextFails(p)
<1>1. CASE Answer
  BY <1>1 DEF Publishes, Publishers, Views
<1>2. CASE StopPublishes
  BY <1>2 DEF Publishes, Publishers, Views
<1>3. ASSUME NEW p \in Publishers, PublishEvent(p) \/ PublishPending(p) \/ PublishFinal(p)
      PROVE  \E view \in Views : Publishes(p, view)
  BY <1>3 DEF Publishes, Views
<1>4. "create" \in AllFaults /\ "permission" \in AllFaults
  BY DEF AllFaults
<1> QED BY <1>1, <1>2, <1>3, <1>4 DEF Next

LEMMA UnchangedTypes ==
  ASSUME TypeInv, UNCHANGED vars
  PROVE  TypeInv'
<1>1. TypeOK'
  BY DEF TypeInv, TypeOK, vars, controllerVars, sinkVars, streamVars, feishuVars, history, CardIds
<1> QED BY <1>1 DEF TypeInv, vars, controllerVars, sinkVars, streamVars, feishuVars, history, CardIds,
                    Live, Busy, OnCard

LEMMA TypeStep ==
  ASSUME TypeInv, [Next]_vars
  PROVE  TypeInv'
<1>1. CASE UNCHANGED vars
  BY <1>1, UnchangedTypes
<1>2. CASE Next
  <2>1. CASE StartRun \/ Stop \/ Elapse
    BY <2>1, StartKeepsTypes, StopKeepsTypes, ElapseKeepsTypes
  <2>2. ASSUME NEW p \in Publishers, NEW view \in Views, Publishes(p, view) PROVE TypeInv'
    BY <2>2, PublishKeepsTypes
  <2>3. ASSUME NEW p \in Publishers, CardCreated(p) PROVE TypeInv'
    BY <2>3, CreatedKeepsTypes
  <2>4. ASSUME NEW p \in Publishers, CardSent(p) PROVE TypeInv'
    BY <2>4, SentKeepsTypes
  <2>5. ASSUME NEW p \in Publishers, NEW kind, CardFails(p, kind) PROVE TypeInv'
    BY <2>5, CardFailsKeepsTypes
  <2>6. ASSUME NEW p \in Publishers, UpdateReturns(p) PROVE TypeInv'
    BY <2>6, UpdatedKeepsTypes
  <2>7. ASSUME NEW p \in Publishers, CloseReturns(p) PROVE TypeInv'
    BY <2>7, ClosedKeepsTypes
  <2>8. ASSUME NEW p \in Publishers, CallFails(p) PROVE TypeInv'
    BY <2>8, CallFailsKeepsTypes
  <2>9. ASSUME NEW p \in Publishers, TextSent(p) \/ TextFails(p) PROVE TypeInv'
    BY <2>9, TextSentKeepsTypes, TextFailsKeepsTypes
  <2> QED BY <1>2, <2>1, <2>2, <2>3, <2>4, <2>5, <2>6, <2>7, <2>8, <2>9, StepKinds
<1> QED BY <1>1, <1>2

LEMMA InitTypes ==
  ASSUME Init
  PROVE  TypeInv
<1>1. CardIds = {} /\ cards \in Seq(CardRecords) /\ sequence \in Seq(Nat) /\ recent \in Seq(BOOLEAN)
  BY EmptySeq DEF Init, CardIds
<1>2. Len(cards) = 0 /\ Len(sequence) = 0 /\ Len(recent) = 0
  BY EmptySeq DEF Init
<1>3. call \in [Publishers -> Calls(CardIds)] /\ \A p \in Publishers : ~Busy(p) /\ call[p].pc # "send" /\ ~OnCard(p)
  <2>1. Idle \in Calls(CardIds)
    BY IdleCall
  <2>2. Idle.pc = "idle"
    BY DEF Idle
  <2> QED BY <2>1, <2>2 DEF Init, Busy, OnCard
<1>4. MaxEvents \in Nat /\ MaxFaults \in Nat
  BY RunViewCardsAssumption
<1>5. TypeOK
  <2>1. /\ run \in {0} \union Runs /\ reader \in {"none", "consumer", "answer"} /\ events \in 0 .. MaxEvents
        /\ faults \in 0 .. MaxFaults
    BY <1>4 DEF Init
  <2>2. /\ asked \in BOOLEAN /\ pending \in BOOLEAN /\ stopping \in {"no", "paused", "running", "done"}
        /\ disabled \in BOOLEAN
    BY DEF Init
  <2>3. /\ cardOf \in [Runs -> {NoCard} \union CardIds] /\ textRuns \subseteq Runs /\ pendingTexts \subseteq Runs
        /\ closed \subseteq CardIds /\ texts \subseteq Runs \X Views /\ over \subseteq Runs
        /\ textFailed \subseteq Runs
    BY DEF Init
  <2> QED BY <1>1, <1>2, <1>3, <2>1, <2>2, <2>3 DEF TypeOK, Calls, CardRecords
<1> QED BY <1>3, <1>5 DEF TypeInv, Init, Live

\* Type correctness of the sink's and the cards' state: a StreamCard has one
\* number and one time for each card, and the sink's table, the closed cards and
\* the calls under way name only cards that Feishu knows.
THEOREM TypeCorrect == Spec => []TypeOK
<1>1. Init => TypeInv
  BY InitTypes
<1>2. TypeInv /\ [Next]_vars => TypeInv'
  BY TypeStep
<1>3. TypeInv => TypeOK
  BY DEF TypeInv
<1> QED BY <1>1, <1>2, <1>3, PTL DEF Spec

----------------------------------------------------------------------------
(* Publishing keeps the invariant.                                         *)

\* Who publishes what: other views than a last one only while the run is live,
\* which a last view ends; before the request only the consumer.
LEMMA PublishControl ==
  ASSUME Inv, NEW p \in Publishers, NEW view, Publishes(p, view)
  PROVE  /\ ~Final(view) => Live
         /\ Final(view) => ~Live'
         /\ Live' => Live
         /\ ~asked => p = "consumer"
<1>1. /\ pending => reader = "none" /\ asked
      /\ stopping = "paused" => asked
      /\ reader # "answer" \/ asked
      /\ reader \in {"none", "consumer", "answer"}
  BY DEF Inv, AskedInv, PendingInv, TypeInv, TypeOK
<1>2. CASE PublishEvent(p) /\ view = "event"
  BY <1>1, <1>2 DEF PublishEvent, Reads, Live, Final, Publishers
<1>3. CASE PublishPending(p) /\ view = "pending"
  BY <1>1, <1>3 DEF PublishPending, Reads, Live, Final, Publishers
<1>4. CASE PublishFinal(p) /\ view = "final"
  BY <1>1, <1>4 DEF PublishFinal, Reads, Live, Final, Publishers
<1>5. CASE Answer /\ p = "answer" /\ view = "resumed"
  BY <1>1, <1>5 DEF Answer, Live, Final
<1>6. CASE StopPublishes /\ p = "stop" /\ view = "final"
  BY <1>1, <1>6 DEF StopPublishes, Live, Final
<1> QED BY <1>2, <1>3, <1>4, <1>5, <1>6 DEF Publishes

\* What a publish leaves alone, and what its task is doing then.
LEMMA PublishFrame ==
  ASSUME Inv, NEW p \in Publishers, NEW view, Publishes(p, view)
  PROVE  /\ run \in Runs /\ view \in Views /\ run' = run /\ ~Busy(p) /\ OnlyRunAdded
         /\ UNCHANGED <<cards, sequence, texts, closed, textFailed>> /\ CardIds' = CardIds
         /\ \A q \in Publishers : q # p => call'[q] = call[q]
         /\ \/ cardOf[run] = NoCard /\ (Texts(p, view) \/ Omits(p, view) \/ Opens(p, view))
            \/ Updates(p, view) \/ Drops(p, view)
         /\ Busy(p)' => call'[p].view = view
         /\ MakesCard(p)' => Opens(p, view)
         /\ OnCard(p)' => Updates(p, view)
<1>1. TypeInv /\ TypeOK
  BY DEF Inv, TypeInv
<1>2. run \in Runs /\ view \in Views /\ publish(p, view) /\ run' = run
  BY <1>1, PublishesRun
<1>3. /\ call[p] = Idle /\ OnlyRunAdded
      /\ UNCHANGED <<disabled, streamVars, feishuVars, textFailed, faults>>
      /\ \A q \in Publishers : q # p => call'[q] = call[q]
      /\ \/ cardOf[run] = NoCard /\ (Texts(p, view) \/ Omits(p, view) \/ Opens(p, view))
         \/ Updates(p, view) \/ Drops(p, view)
  BY <1>1, <1>2, Publishing
<1>4. Idle.pc = "idle"
  BY DEF Idle
<1>5. ~Busy(p)
  BY <1>3, <1>4 DEF Busy
<1>6. UNCHANGED <<cards, sequence, texts, closed, textFailed>> /\ CardIds' = CardIds
  BY <1>3 DEF streamVars, feishuVars, CardIds
<1>7. /\ Busy(p)' => call'[p].view = view
      /\ MakesCard(p)' => Opens(p, view)
      /\ OnCard(p)' => Updates(p, view)
  <2>1. CASE Texts(p, view)
    BY <2>1 DEF Texts, Busy, MakesCard, OnCard
  <2>2. CASE Omits(p, view) \/ Drops(p, view)
    BY <1>4, <2>2 DEF Omits, Drops, Busy, MakesCard, OnCard
  <2>3. CASE Opens(p, view)
    BY <2>3 DEF Opens, OnCard
  <2>4. CASE Updates(p, view)
    BY <2>4 DEF Updates, MakesCard
  <2> QED BY <1>3, <2>1, <2>2, <2>3, <2>4
<1> QED BY <1>2, <1>3, <1>5, <1>6, <1>7

LEMMA PublishStep ==
  ASSUME Inv, NEW p \in Publishers, NEW view, Publishes(p, view)
  PROVE  Inv'
<1>1. /\ TypeInv /\ RunsInv /\ CardOfInv /\ NumbersInv /\ EndsInv /\ OpeningInv /\ ShownInv
      /\ AskedInv /\ PendingInv /\ ClosedInv /\ StreamingInv /\ LastViewIsShown
      /\ \A q \in Publishers : CallInv(q)
  BY DEF Inv
<1>2. TypeInv'
  BY <1>1, PublishKeepsTypes
<1>3. /\ run \in Runs /\ view \in Views /\ run' = run /\ ~Busy(p) /\ OnlyRunAdded
      /\ UNCHANGED <<cards, sequence, texts, closed, textFailed>> /\ CardIds' = CardIds
      /\ \A q \in Publishers : q # p => call'[q] = call[q]
      /\ \/ cardOf[run] = NoCard /\ (Texts(p, view) \/ Omits(p, view) \/ Opens(p, view))
         \/ Updates(p, view) \/ Drops(p, view)
      /\ Busy(p)' => call'[p].view = view
      /\ MakesCard(p)' => Opens(p, view)
      /\ OnCard(p)' => Updates(p, view)
  BY PublishFrame
<1>4. /\ ~Final(view) => Live
      /\ Final(view) => ~Live'
      /\ Live' => Live
      /\ ~asked => p = "consumer"
  BY PublishControl
<1>5. /\ cardOf \in [Runs -> {NoCard} \union CardIds] /\ NoCard \notin CardIds /\ run \in Nat
      /\ cards \in [CardIds -> CardRecords] /\ sequence \in [CardIds -> Nat]
  BY <1>1, CardTypes DEF TypeInv, TypeOK, Runs
<1>6. /\ over' \in {over, over \union {run}}
      /\ ~Final(view) => UNCHANGED <<over, cardOf>>
      /\ \A r \in Runs : cardOf'[r] \in {cardOf[r], NoCard} /\ (r # run => cardOf'[r] = cardOf[r])
      /\ UNCHANGED <<over, cardOf>> \/ (Drops(p, view) /\ Final(view))
  <2>1. CASE UNCHANGED <<over, cardOf>>
    BY <2>1
  <2>2. CASE Drops(p, view) /\ Final(view)
    BY <1>3, <1>5, <2>2 DEF Drops
  <2>3. UNCHANGED <<over, cardOf>> \/ (Drops(p, view) /\ Final(view))
    BY <1>3 DEF Texts, Omits, Opens, Updates, Drops
  <2> QED BY <2>1, <2>2, <2>3
<1>7. RunsInv'
  BY <1>1, <1>3, <1>5, <1>6 DEF RunsInv, OnlyRunAdded
<1>8. CardOfInv' /\ NumbersInv'
  BY <1>1, <1>3, <1>6 DEF CardOfInv, NumbersInv
<1>9. \A q \in Publishers : CallInv(q)'
  <2>1. ASSUME NEW q \in Publishers, q # p PROVE CallInv(q)'
    <3>1. call'[q] = call[q] /\ CallInv(q)
      BY <1>1, <1>3, <2>1
    <3> QED BY <1>3, <3>1 DEF CallInv, OnCard, Accepted
  <2>2. CASE ~OnCard(p)'
    <3>1. call'[p].pc # "send"
      BY <1>3 DEF MakesCard, Opens
    <3> QED BY <2>1, <2>2, <3>1 DEF CallInv, OnCard
  <2>3. CASE OnCard(p)'
    <3> DEFINE c == cardOf[run]
    <3>1. /\ c \in CardIds /\ cards[c].run = run /\ cards[c].sent /\ call'[p].card = c
          /\ call'[p].pc = "update" /\ call'[p].view = view /\ call'[p].sequence = sequence[c] + 1
      BY <1>1, <1>3, <1>5, <2>3 DEF Updates, CardOfInv
    <3>2. sequence[c] <= cards[c].sequence /\ sequence[c] \in Nat /\ cards[c].sequence \in Nat
      BY <1>1, <1>5, <3>1 DEF NumbersInv, CardRecords
    <3>3. ~Final(view) => ~Final(cards[c].view)
      BY <1>1, <1>4, <3>1 DEF EndsInv
    <3> HIDE DEF c
    <3>4. CallInv(p)'
      BY <1>3, <3>1, <3>2, <3>3 DEF CallInv, OnCard, Accepted
    <3> QED BY <2>1, <3>4
  <2> QED BY <2>2, <2>3
<1>10. EndsInv'
  <2>1. ASSUME NEW q \in Publishers, Ends(q)' PROVE ~Live'
    <3>1. CASE q = p
      BY <1>3, <1>4, <2>1, <3>1 DEF Ends, Busy
    <3>2. CASE q # p
      BY <1>1, <1>3, <1>4, <2>1, <3>2 DEF Ends, Busy, EndsInv
    <3> QED BY <3>1, <3>2
  <2>2. ASSUME NEW c \in CardIds, cards[c].run = run /\ Final(cards[c].view) PROVE ~Live'
    BY <1>1, <1>4, <2>2 DEF EndsInv
  <2>3. ASSUME run \in over' PROVE ~Live'
    BY <1>1, <1>4, <1>6, <2>3 DEF EndsInv
  <2> QED BY <1>3, <2>1, <2>2, <2>3 DEF EndsInv
<1>11. OpeningInv'
  <2>1. ASSUME NEW q \in Publishers, q # p, MakesCard(q), ~Ends(q) PROVE FALSE
    BY <1>1, <1>4, <2>1
       DEF OpeningInv, Publishes, PublishEvent, PublishPending, PublishFinal, Answer, StopPublishes, Reads,
           AskedInv
  <2>2. ASSUME Opens(p, view), ~Final(view) PROVE FALSE
    <3>1. run \notin textRuns /\ cardOf[run] = NoCard
      BY <2>2 DEF Opens
    <3>2. Live /\ MakesCard("consumer") /\ "consumer" \in Publishers
      BY <1>1, <1>4, <2>2, <3>1 DEF ShownInv, Publishers
    <3>3. ~Ends("consumer")
      BY <1>1, <3>2 DEF EndsInv
    <3>4. p = "consumer"
      BY <1>1, <1>4, <3>2, <3>3 DEF OpeningInv
    <3> QED BY <1>3, <3>2, <3>4 DEF MakesCard, Busy
  <2>3. ASSUME NEW q \in Publishers, MakesCard(q)', ~Ends(q)' PROVE FALSE
    <3>1. CASE q = p
      BY <1>3, <2>2, <2>3, <3>1 DEF Ends, Busy, MakesCard
    <3>2. CASE q # p
      BY <1>3, <2>1, <2>3, <3>2 DEF Ends, Busy, MakesCard
    <3> QED BY <3>1, <3>2
  <2> QED BY <2>3 DEF OpeningInv
<1>12. ShownInv'
  <2> SUFFICES ASSUME Live' PROVE ShownInv'
    BY DEF ShownInv
  <2>1. Live /\ ~Final(view) /\ UNCHANGED <<over, cardOf>>
    BY <1>4, <1>6
  <2>2. run \in textRuns \/ cardOf[run] # NoCard \/ MakesCard("consumer")
    BY <1>1, <2>1 DEF ShownInv
  <2>3. MakesCard("consumer") => p # "consumer" /\ MakesCard("consumer")'
    BY <1>3 DEF MakesCard, Busy, Publishers
  <2>4. run \in textRuns => run \in textRuns'
    BY <1>3 DEF OnlyRunAdded
  <2>5. run \in textRuns' => cardOf[run] = NoCard
    BY <1>1, <1>3, <2>1 DEF ShownInv, Updates, Drops
  <2> QED BY <1>3, <2>1, <2>2, <2>3, <2>4, <2>5 DEF ShownInv
<1>13. AskedInv' /\ PendingInv'
  <2>1. CASE ~PublishPending(p)
    <3>1. ~pending' /\ asked' = asked
      <4>1. pending => reader = "none"
        BY <1>1 DEF PendingInv
      <4>2. p # "none"
        BY DEF Publishers
      <4> QED BY <2>1, <4>1, <4>2 DEF Publishes, PublishEvent, PublishFinal, Answer, StopPublishes, Reads
    <3>2. ASSUME ~asked
          PROVE  reader' # "answer" /\ stopping' \in {"no", "running"} /\ run \notin pendingTexts'
                 /\ ~Busy("answer")' /\ ~Busy("stop")'
      <4>1. /\ ~pending /\ reader # "answer" /\ stopping \in {"no", "running"}
            /\ run \notin pendingTexts /\ ~Busy("answer") /\ ~Busy("stop") /\ p = "consumer"
        BY <1>1, <1>4, <3>2 DEF AskedInv
      <4>2. ~Busy("answer")' /\ ~Busy("stop")'
        BY <1>3, <4>1 DEF Busy, Publishers
      <4>3. view # "pending" /\ reader' # "answer" /\ stopping' = stopping
        BY <2>1, <4>1 DEF Publishes, PublishEvent, PublishFinal, Answer, StopPublishes, Reads
      <4>4. UNCHANGED pendingTexts
        BY <1>3, <4>3 DEF Texts, Omits, Opens, Updates, Drops
      <4> QED BY <4>1, <4>2, <4>3, <4>4
    <3> QED BY <1>3, <3>1, <3>2 DEF AskedInv, PendingInv
  <2>2. CASE PublishPending(p)
    <3>1. /\ ~asked /\ asked' /\ reader' = "none" /\ stopping = "no" /\ stopping' = "no" /\ Live
          /\ p = "consumer"
      BY <1>4, <2>2 DEF PublishPending, Reads, Live, Publishers
    <3>2. view = "pending"
      <4>1. ~PublishEvent(p) /\ ~PublishFinal(p) /\ ~Answer /\ ~StopPublishes
        BY <1>1, <2>2, <3>1
           DEF PublishPending, PublishEvent, PublishFinal, Answer, StopPublishes, AskedInv, TypeInv, TypeOK
      <4> QED BY <4>1 DEF Publishes
    <3>3. ~Busy("answer")' /\ ~Busy("stop")'
      BY <1>1, <1>3, <3>1 DEF AskedInv, Busy, Publishers
    <3>4. run \in textRuns' => call'["consumer"].pc = "text"
      <4>1. run \notin pendingTexts /\ (run \in textRuns => cardOf[run] = NoCard)
        BY <1>1, <3>1 DEF AskedInv, ShownInv
      <4> QED BY <1>3, <3>1, <3>2, <4>1 DEF Texts, Omits, Opens, Updates, Drops
    <3> QED BY <1>3, <3>1, <3>2, <3>3, <3>4 DEF AskedInv, PendingInv
  <2> QED BY <2>1, <2>2
<1>14. ClosedInv'
  BY <1>1, <1>3 DEF ClosedInv
<1>15. StreamingInv'
  <2> SUFFICES ASSUME NEW c \in CardIds, cards[c].sent, cards[c].streaming, ~Told(cards[c].run)
               PROVE  \/ \E q \in Publishers : OnCard(q)' /\ Ends(q)' /\ call'[q].card = c
                      \/ /\ cards[c].run = run /\ cardOf'[run] = c /\ run \notin over'
                         /\ \A q \in Publishers : ~Ends(q)'
    BY <1>3 DEF StreamingInv, Told
  <2>1. CASE \E q \in Publishers : OnCard(q) /\ Ends(q) /\ call[q].card = c
    BY <1>3, <2>1 DEF Ends, Busy, OnCard
  <2>2. CASE /\ cards[c].run = run /\ cardOf[run] = c /\ run \notin over
             /\ \A q \in Publishers : ~Ends(q)
    <3>1. cardOf[run] # NoCard
      BY <1>5, <2>2
    <3>2. CASE Updates(p, view) /\ Final(view)
      BY <2>2, <3>2 DEF Updates, OnCard, Ends, Busy
    <3>3. CASE Drops(p, view) /\ Final(view)
      <4>1. c \in closed
        BY <2>2, <3>3 DEF Drops
      <4> QED BY <1>1, <4>1 DEF ClosedInv, Told
    <3>4. CASE ~Final(view)
      BY <1>3, <1>6, <2>2, <3>4 DEF Ends, Busy
    <3> QED BY <1>3, <3>1, <3>2, <3>3, <3>4
  <2> QED BY <1>1, <2>1, <2>2 DEF StreamingInv
<1>16. LastViewIsShown'
  <2>1. \A r \in Runs : Shows(r, "final")' <=> Shows(r, "final")
    BY <1>3 DEF Shows
  <2>2. CASE over' = over
    BY <1>1, <1>2, <1>3, <2>1, <2>2 DEF LastViewIsShown, TypeInv, TypeOK
  <2>3. CASE Drops(p, view) /\ Final(view)
    <3>1. cardOf[run] \in closed /\ cardOf[run] \in CardIds /\ cards[cardOf[run]].run = run
      BY <1>1, <1>5, <2>3, <1>3 DEF Drops, CardOfInv
    <3>2. Shows(run, "final")
      BY <1>1, <3>1 DEF ClosedInv, Shows, Final
    <3>3. over \subseteq Runs /\ over' \subseteq over \union {run}
      BY <1>1, <1>6 DEF TypeInv, TypeOK
    <3>4. ASSUME NEW r \in over' PROVE Shows(r, "final")' \/ r \in textFailed'
      BY <1>1, <1>3, <2>1, <3>2, <3>3, <3>4 DEF LastViewIsShown
    <3> QED BY <3>4 DEF LastViewIsShown
  <2> QED BY <1>6, <2>2, <2>3
<1> QED BY <1>2, <1>7, <1>8, <1>9, <1>10, <1>11, <1>12, <1>13, <1>14, <1>15, <1>16 DEF Inv

----------------------------------------------------------------------------
(* The other steps keep the invariant.                                     *)

LEMMA StartStep ==
  ASSUME Inv, StartRun
  PROVE  Inv'
<1>1. /\ TypeInv /\ RunsInv /\ CardOfInv /\ NumbersInv /\ EndsInv /\ OpeningInv /\ ShownInv
      /\ AskedInv /\ PendingInv /\ ClosedInv /\ StreamingInv /\ LastViewIsShown
  BY DEF Inv
<1>2. TypeInv'
  BY <1>1, StartKeepsTypes
<1>3. /\ run' = run + 1 /\ run \in Nat /\ run' \in Runs /\ "consumer" \in Publishers
      /\ reader' = "consumer" /\ asked' = FALSE /\ pending' = FALSE /\ stopping' = "no"
      /\ UNCHANGED <<cards, sequence, texts, closed, textFailed, cardOf, over, pendingTexts>> /\ CardIds' = CardIds
      /\ \A q \in Publishers : ~Busy(q)
      /\ run = 0 \/ run \in over \/ run \in textFailed
  <2>1. Idle.pc = "idle"
    BY DEF Idle
  <2>2. run \in Nat /\ run + 1 \in Runs
    BY <1>1, RunViewCardsAssumption DEF TypeInv, TypeOK, StartRun, Runs
  <2> QED BY <2>1, <2>2 DEF StartRun, streamVars, feishuVars, history, Quiet, Busy, CardIds, Publishers
<1>4. /\ \A q \in Publishers : q # "consumer" => ~Busy(q)'
      /\ call'["consumer"].pc \in {"text", "create"} /\ call'["consumer"].view = "initial"
      /\ textRuns' = IF call'["consumer"].pc = "text" THEN textRuns \union {run'} ELSE textRuns
  <2>1. CASE disabled /\ textRuns' = textRuns \union {run'} /\ Await("consumer", "text", "initial", NoCard, 0)
    <3>1. call'["consumer"] = [pc |-> "text", view |-> "initial", card |-> NoCard, sequence |-> 0, aged |-> FALSE]
          /\ \A q \in Publishers : q # "consumer" => call'[q] = call[q]
      BY <1>1, <1>3, <2>1, Awaited DEF TypeInv
    <3> QED BY <1>3, <2>1, <3>1 DEF Busy
  <2>2. CASE ~disabled /\ UNCHANGED textRuns /\ Await("consumer", "create", "initial", NoCard, 0)
    <3>1. call'["consumer"] = [pc |-> "create", view |-> "initial", card |-> NoCard, sequence |-> 0, aged |-> FALSE]
          /\ \A q \in Publishers : q # "consumer" => call'[q] = call[q]
      BY <1>1, <1>3, <2>2, Awaited DEF TypeInv
    <3> QED BY <1>3, <2>2, <3>1 DEF Busy
  <2> QED BY <2>1, <2>2 DEF StartRun
<1>5. /\ \A c \in CardIds : cards[c].run # run' /\ cards[c].run \in Nat
      /\ run' \notin over /\ run' \notin textRuns /\ run' \notin pendingTexts /\ cardOf[run'] = NoCard
  <2>1. \A c \in CardIds : cards[c].run \in Nat /\ cards[c].run <= run
    BY <1>1, CardRuns DEF TypeInv, RunsInv
  <2>2. \A c \in CardIds : cards[c].run # run'
    BY <1>3, <2>1
  <2>3. cardOf[run'] \in {NoCard} \union CardIds
    BY <1>1, <1>3 DEF TypeInv, TypeOK
  <2>4. cardOf[run'] = NoCard
    BY <1>1, <1>3, <2>2, <2>3 DEF CardOfInv
  <2> QED BY <1>1, <1>3, <2>1, <2>2, <2>4 DEF RunsInv
<1>6. RunsInv'
  <2>1. \A c \in CardIds : cards[c].run <= run'
    BY <1>1, <1>3, <1>5 DEF RunsInv
  <2>2. \A r \in Runs : r \in textRuns' \union pendingTexts' \union over' => r <= run'
    BY <1>1, <1>3, <1>4 DEF RunsInv, Runs
  <2>3. \A r \in Runs : r < run' => r \in over \union textFailed
    BY <1>1, <1>3 DEF RunsInv, Runs
  <2> QED BY <1>3, <2>1, <2>2, <2>3 DEF RunsInv
<1>7. CardOfInv' /\ NumbersInv' /\ ClosedInv' /\ LastViewIsShown'
  BY <1>1, <1>3 DEF CardOfInv, NumbersInv, ClosedInv, LastViewIsShown, Shows
<1>8. \A q \in Publishers : CallInv(q)'
  BY <1>4 DEF CallInv, OnCard, Busy
<1>9. \A q \in Publishers : ~Ends(q)'
  BY <1>4 DEF Ends, Busy, Final
<1>10. EndsInv'
  BY <1>3, <1>5, <1>9 DEF EndsInv
<1>11. OpeningInv'
  BY <1>3, <1>4, <1>5 DEF OpeningInv, MakesCard, Busy
<1>12. ShownInv' /\ AskedInv' /\ PendingInv'
  BY <1>3, <1>4, <1>5 DEF ShownInv, AskedInv, PendingInv, MakesCard, Publishers
<1>13. StreamingInv'
  <2> SUFFICES ASSUME NEW c \in CardIds, cards[c].sent, cards[c].streaming, ~Told(cards[c].run) PROVE FALSE
    BY <1>3 DEF StreamingInv, Told
  <2>1. \/ \E p \in Publishers : OnCard(p) /\ Ends(p) /\ call[p].card = c
        \/ cards[c].run = run /\ run \notin over
    BY <1>1 DEF StreamingInv
  <2>2. cards[c].run = run /\ run \notin over
    BY <1>3, <2>1 DEF Ends
  <2>3. run # 0
    BY <1>1, <2>2, CardRuns DEF TypeInv
  <2> QED BY <1>3, <2>2, <2>3 DEF Told
<1> QED BY <1>2, <1>6, <1>7, <1>8, <1>10, <1>11, <1>12, <1>13 DEF Inv

LEMMA CreatedStep ==
  ASSUME Inv, NEW p \in Publishers, CardCreated(p)
  PROVE  Inv'
<1>1. /\ TypeInv /\ RunsInv /\ CardOfInv /\ NumbersInv /\ EndsInv /\ OpeningInv /\ ShownInv
      /\ AskedInv /\ PendingInv /\ ClosedInv /\ StreamingInv /\ LastViewIsShown
      /\ \A q \in Publishers : CallInv(q)
  BY DEF Inv
<1> DEFINE new == Len(cards) + 1
<1>2. /\ TypeInv' /\ Len(cards') = Len(cards) + 1 /\ CardIds \subseteq CardIds'
      /\ \A c \in CardIds : cards'[c] = cards[c] /\ sequence'[c] = sequence[c]
      /\ cards'[new] = [run |-> run, view |-> call[p].view, sequence |-> 1, sent |-> FALSE, streaming |-> TRUE]
      /\ sequence'[new] = 0
  BY <1>1, CreatedKeepsTypes
<1>3. /\ new \in Nat /\ new \notin CardIds /\ CardIds' = CardIds \union {new}
  BY <1>1, <1>2, CardTypes DEF TypeInv, CardIds
<1>4. /\ call[p].pc = "create" /\ UNCHANGED <<controllerVars, sinkVars, closed, texts, history>>
      /\ call'[p] = [pc |-> "send", view |-> call[p].view, card |-> new, sequence |-> 0, aged |-> FALSE]
      /\ \A q \in Publishers : q # p => call'[q] = call[q]
  <2>1. Await(p, "send", call[p].view, new, 0)
    BY <1>2 DEF CardCreated
  <2> QED BY <1>1, <2>1, Awaited DEF CardCreated, TypeInv
<1>5. /\ UNCHANGED <<run, reader, asked, pending, stopping, cardOf, textRuns, pendingTexts, over, textFailed>>
      /\ Live' = Live
      /\ \A q \in Publishers : /\ Busy(q)' <=> Busy(q)
                               /\ Ends(q)' <=> Ends(q)
                               /\ MakesCard(q)' <=> MakesCard(q)
                               /\ OnCard(q)' <=> OnCard(q)
                               /\ OnCard(q) => q # p
  BY <1>4 DEF controllerVars, sinkVars, history, Live, Busy, Ends, MakesCard, OnCard
<1>6. run \in Runs /\ run \in Nat /\ cardOf \in [Runs -> {NoCard} \union CardIds] /\ closed \subseteq CardIds
  BY <1>1, <1>4, BusyRun DEF Busy, TypeInv, TypeOK, Runs
<1> HIDE DEF new
<1>7. RunsInv'
  <2>1. \A c \in CardIds' : cards'[c].run <= run
    BY <1>1, <1>2, <1>3, <1>6 DEF RunsInv
  <2> QED BY <1>1, <1>5, <2>1 DEF RunsInv
<1>8. CardOfInv' /\ ClosedInv'
  <2>1. CardOfInv'
    BY <1>1, <1>2, <1>5, <1>6 DEF CardOfInv
  <2>2. ClosedInv'
    BY <1>1, <1>2, <1>4, <1>6 DEF ClosedInv
  <2> QED BY <2>1, <2>2
<1>9. NumbersInv'
  BY <1>1, <1>2, <1>3 DEF NumbersInv
<1>10. \A q \in Publishers : CallInv(q)'
  <2>1. CallInv(p)'
    BY <1>2, <1>4, <1>5 DEF CallInv, OnCard
  <2>2. ASSUME NEW q \in Publishers, q # p PROVE CallInv(q)'
    <3>1. call'[q] = call[q] /\ CallInv(q)
      BY <1>1, <1>4, <2>2
    <3>2. call[q].pc = "send" \/ OnCard(q) => call[q].card \in CardIds /\ cards'[call[q].card] = cards[call[q].card]
      BY <1>1, <1>2 DEF TypeInv
    <3> QED BY <1>5, <3>1, <3>2 DEF CallInv, OnCard, Accepted
  <2> QED BY <2>1, <2>2
<1>11. EndsInv'
  <2>1. cards'[new].run = run /\ Final(cards'[new].view) => Ends(p)
    BY <1>2, <1>4 DEF Ends, Busy
  <2>2. \A c \in CardIds : cards'[c] = cards[c]
    BY <1>2
  <2> QED BY <1>1, <1>3, <1>5, <2>1, <2>2 DEF EndsInv
<1>12. OpeningInv'
  <2>1. \A c \in CardIds' : cards'[c].run = run /\ cards'[c].sent =>
            c \in CardIds /\ cards[c].run = run /\ cards[c].sent
    BY <1>2, <1>3
  <2> QED BY <1>1, <1>5, <2>1 DEF OpeningInv
<1>13. ShownInv'
  BY <1>1, <1>5 DEF ShownInv, Publishers
<1>14. AskedInv' /\ PendingInv'
  <2>1. /\ call'["consumer"].view = call["consumer"].view
        /\ call["consumer"].pc = "text" <=> call'["consumer"].pc = "text"
        /\ UNCHANGED texts
    BY <1>4 DEF Publishers
  <2>2. \A q \in {"consumer", "answer", "stop"} : Busy(q)' <=> Busy(q)
    BY <1>5 DEF Publishers
  <2> QED BY <1>1, <1>5, <2>1, <2>2 DEF AskedInv, PendingInv
<1>15. StreamingInv'
  <2> SUFFICES ASSUME NEW c \in CardIds', cards'[c].sent, cards'[c].streaming,
                      <<cards'[c].run, "final">> \notin texts', cards'[c].run \notin textFailed'
               PROVE  \/ \E q \in Publishers : OnCard(q)' /\ Ends(q)' /\ call'[q].card = c
                      \/ /\ cards'[c].run = run' /\ cardOf'[run'] = c /\ run' \notin over'
                         /\ \A q \in Publishers : ~Ends(q)'
    BY DEF StreamingInv, Told
  <2>1. c \in CardIds /\ cards'[c] = cards[c] /\ ~Told(cards[c].run)
    <3>1. c # new
      BY <1>2
    <3> QED BY <1>2, <1>3, <1>4, <1>5, <3>1 DEF Told
  <2>2. CASE \E q \in Publishers : OnCard(q) /\ Ends(q) /\ call[q].card = c
    BY <1>4, <1>5, <2>2
  <2>3. CASE /\ cards[c].run = run /\ cardOf[run] = c /\ run \notin over
             /\ \A q \in Publishers : ~Ends(q)
    BY <1>4, <1>5, <2>1, <2>3
  <2> QED BY <1>1, <2>1, <2>2, <2>3 DEF StreamingInv
<1>16. LastViewIsShown'
  BY <1>1, <1>2, <1>3, <1>4, <1>5 DEF LastViewIsShown, Shows
<1> QED BY <1>2, <1>7, <1>8, <1>9, <1>10, <1>11, <1>12, <1>13, <1>14, <1>15, <1>16 DEF Inv

\* What every step of a call to Feishu has in common.
Evolves(p) ==
  /\ Busy(p) /\ ~MakesCard(p)' /\ (Busy(p)' => call'[p].view = call[p].view)
  /\ \A q \in Publishers : q # p => call'[q] = call[q]
  /\ UNCHANGED <<run, asked, pending, stopping>> /\ reader' \in {reader, "none"}
  /\ CardIds' = CardIds
  /\ \A c \in CardIds :
       /\ cards'[c].run = cards[c].run
       /\ cards[c].sent => cards'[c].sent
       /\ cards'[c].streaming => cards[c].streaming
       /\ cards[c].sequence <= cards'[c].sequence /\ sequence'[c] <= cards'[c].sequence
       /\ Final(cards[c].view) => Final(cards'[c].view)
       /\ Final(cards'[c].view) /\ ~Final(cards[c].view)
            => Ends(p) /\ cards[c].sequence < cards'[c].sequence
  /\ OnlyRunAdded /\ UNCHANGED pendingTexts
  /\ texts \subseteq texts' /\ textFailed \subseteq textFailed'
  /\ over' \in {over, over \union {run}}
  /\ over' # over => Ends(p) /\ (Shows(run, "final")' \/ run \in textFailed')
  /\ run \in textRuns' /\ run \notin textFailed' =>
       \/ call'[p].pc = "text"
       \/ call[p].pc # "text" /\ run \in textRuns
       \/ <<run, call[p].view>> \in texts'
  /\ \A r \in Runs :
       \/ cardOf'[r] \in {cardOf[r], NoCard}
       \/ r = run /\ cards'[cardOf'[r]].run = run /\ cards'[cardOf'[r]].sent
  /\ \A c \in closed' :
       \/ c \in closed
       \/ cards[c].run = run /\ <<run, "final">> \in texts'
       \/ Final(cards'[c].view) /\ cards'[c].sent /\ ~cards'[c].streaming

LEMMA EvolvesKeeps ==
  ASSUME Inv, TypeInv', NEW p \in Publishers, Evolves(p)
  PROVE  /\ RunsInv' /\ NumbersInv' /\ CardOfInv' /\ EndsInv' /\ OpeningInv' /\ AskedInv' /\ PendingInv'
         /\ ClosedInv' /\ LastViewIsShown'
         /\ \A q \in Publishers : q # p => CallInv(q)'
<1>1. /\ TypeInv /\ RunsInv /\ CardOfInv /\ NumbersInv /\ EndsInv /\ OpeningInv /\ ShownInv
      /\ AskedInv /\ PendingInv /\ ClosedInv /\ StreamingInv /\ LastViewIsShown
      /\ \A q \in Publishers : CallInv(q)
  BY DEF Inv
<1>2. /\ cardOf \in [Runs -> {NoCard} \union CardIds] /\ closed \subseteq CardIds /\ over \subseteq Runs
      /\ closed' \subseteq CardIds /\ run \in Runs /\ run \in Nat
      /\ \A c \in CardIds : cards[c].sequence \in Nat /\ cards'[c].sequence \in Nat
  <2>1. CardIds' = CardIds
    BY DEF Evolves
  <2>2. TypeOK /\ TypeOK'
    BY <1>1 DEF TypeInv
  <2>3. \A c \in CardIds : cards'[c].sequence \in Nat
    <3>1. cards' \in Seq(CardRecords) /\ CardIds = 1 .. Len(cards')
      BY <2>1, <2>2 DEF TypeOK, CardRecords, CardIds
    <3>2. cards' \in [CardIds -> CardRecords]
      BY <3>1, LenProperties
    <3> QED BY <3>2 DEF CardRecords
  <2>4. run \in Runs /\ run \in Nat
    BY <1>1, BusyRun DEF Evolves, Runs
  <2> QED BY <2>1, <2>2, <2>3, <2>4, CardFields DEF TypeOK
<1>3. RunsInv' /\ NumbersInv'
  <2>1. RunsInv'
    BY <1>1, <1>2 DEF RunsInv, Evolves, OnlyRunAdded
  <2>2. NumbersInv'
    BY <1>1, <1>2 DEF NumbersInv, Evolves
  <2> QED BY <2>1, <2>2
<1>4. CardOfInv'
  BY <1>1, <1>2 DEF CardOfInv, Evolves
<1>5. Live' => Live
  BY DEF Live, Evolves
<1>6. \A q \in Publishers : Ends(q)' => Ends(q)
  BY DEF Evolves, Ends, Busy
<1>7. EndsInv'
  BY <1>1, <1>5, <1>6 DEF EndsInv, Evolves
<1>8. OpeningInv'
  <2>1. ASSUME NEW q \in Publishers, MakesCard(q)', ~Ends(q)' PROVE FALSE
    <3>1. q # p /\ MakesCard(q) /\ ~Ends(q)
      BY <2>1 DEF Evolves, MakesCard, Ends, Busy
    <3> QED BY <1>1, <3>1 DEF OpeningInv, Evolves
  <2> QED BY <2>1 DEF OpeningInv
<1>9. AskedInv'
  <2> SUFFICES ASSUME ~asked PROVE AskedInv'
    BY DEF AskedInv, Evolves
  <2>1. /\ ~pending /\ reader # "answer" /\ stopping \in {"no", "running"}
        /\ run \notin pendingTexts /\ ~Busy("answer") /\ ~Busy("stop")
    BY <1>1 DEF AskedInv
  <2>2. ~Busy("answer")' /\ ~Busy("stop")'
    BY <2>1 DEF Evolves, Busy, Publishers
  <2> QED BY <2>1, <2>2 DEF AskedInv, Evolves
<1>10. PendingInv'
  <2> SUFFICES ASSUME pending PROVE PendingInv'
    BY DEF PendingInv, Evolves
  <2>1. /\ reader = "none" /\ stopping # "done" /\ ~Busy("answer") /\ ~Busy("stop")
        /\ Busy("consumer") => call["consumer"].view = "pending"
        /\ run \in textRuns /\ run \notin textFailed
             => call["consumer"].pc = "text" \/ <<run, "pending">> \in texts
    BY <1>1 DEF PendingInv
  <2>2. p = "consumer" /\ ~Busy("answer")' /\ ~Busy("stop")' /\ call[p].view = "pending"
    BY <2>1 DEF Evolves, Busy, Publishers
  <2>3. reader' = "none" /\ stopping' # "done" /\ (Busy("consumer")' => call'["consumer"].view = "pending")
    BY <2>1, <2>2 DEF Evolves
  <2>4. ASSUME run \in textRuns', run \notin textFailed'
        PROVE  call'["consumer"].pc = "text" \/ <<run, "pending">> \in texts'
    <3>1. \/ call'[p].pc = "text"
          \/ call[p].pc # "text" /\ run \in textRuns
          \/ <<run, call[p].view>> \in texts'
      BY <2>4 DEF Evolves
    <3>2. texts \subseteq texts' /\ run \notin textFailed
      BY <2>4 DEF Evolves
    <3> QED BY <2>1, <2>2, <3>1, <3>2
  <2>5. run' = run
    BY DEF Evolves
  <2> QED BY <2>2, <2>3, <2>4, <2>5 DEF PendingInv
<1>11. ClosedInv'
  <2> SUFFICES ASSUME NEW c \in closed'
               PROVE  \/ <<cards'[c].run, "final">> \in texts'
                      \/ Final(cards'[c].view) /\ cards'[c].sent /\ ~cards'[c].streaming
    BY DEF ClosedInv
  <2>1. /\ c \in CardIds /\ cards'[c].run = cards[c].run
        /\ cards[c].sent => cards'[c].sent
        /\ cards'[c].streaming => cards[c].streaming
        /\ Final(cards[c].view) => Final(cards'[c].view)
        /\ texts \subseteq texts'
    BY <1>2 DEF Evolves
  <2>2. \/ c \in closed
        \/ cards[c].run = run /\ <<run, "final">> \in texts'
        \/ Final(cards'[c].view) /\ cards'[c].sent /\ ~cards'[c].streaming
    BY DEF Evolves
  <2> QED BY <1>1, <2>1, <2>2 DEF ClosedInv
<1>12. LastViewIsShown'
  <2>1. ASSUME NEW r \in over PROVE Shows(r, "final")' \/ r \in textFailed'
    <3>1. Shows(r, "final") \/ r \in textFailed
      BY <1>1 DEF LastViewIsShown
    <3>2. Shows(r, "final") => Shows(r, "final")'
      <4>1. CASE <<r, "final">> \in texts
        BY <4>1 DEF Shows, Evolves
      <4>2. ASSUME NEW c \in CardIds, cards[c].run = r, cards[c].sent, cards[c].view = "final"
            PROVE  Shows(r, "final")'
        BY <4>2 DEF Shows, Evolves, Final
      <4> QED BY <4>1, <4>2 DEF Shows
    <3> QED BY <3>1, <3>2 DEF Evolves
  <2>2. \A r \in over' : r \in over \/ (r = run /\ (Shows(run, "final")' \/ run \in textFailed'))
    BY DEF Evolves
  <2>3. run' = run
    BY DEF Evolves
  <2> QED BY <2>1, <2>2, <2>3 DEF LastViewIsShown, Shows
<1>13. ASSUME NEW q \in Publishers, q # p PROVE CallInv(q)'
  <2>1. call'[q] = call[q] /\ CallInv(q) /\ run' = run
    BY <1>1, <1>13 DEF Evolves
  <2>2. CASE call[q].pc = "send" \/ OnCard(q)
    <3>1. PICK c \in CardIds : c = call[q].card
      BY <1>1, <2>2 DEF TypeInv
    <3>2. /\ cards'[c].run = cards[c].run
          /\ cards[c].sent => cards'[c].sent
          /\ cards[c].sequence <= cards'[c].sequence
          /\ Final(cards[c].view) => Final(cards'[c].view)
          /\ Final(cards'[c].view) /\ ~Final(cards[c].view) => cards[c].sequence < cards'[c].sequence
          /\ cards[c].sequence \in Nat /\ cards'[c].sequence \in Nat /\ call[q].sequence \in Nat
      BY <1>1, <1>2, CallFields DEF Evolves, TypeInv
    <3> QED BY <2>1, <3>1, <3>2 DEF CallInv, OnCard, Accepted
  <2>3. CASE ~(call[q].pc = "send" \/ OnCard(q))
    BY <2>1, <2>3 DEF CallInv, OnCard
  <2> QED BY <2>2, <2>3
<1> QED BY <1>3, <1>4, <1>7, <1>8, <1>9, <1>10, <1>11, <1>12, <1>13

\* What is left to show for a step of a call.
LEMMA EvolvesStep ==
  ASSUME Inv, TypeInv', NEW p \in Publishers, Evolves(p), CallInv(p)', ShownInv', StreamingInv'
  PROVE  Inv'
BY EvolvesKeeps DEF Inv

\* A last view is published to its end, on its card.
LEMMA StreamingKept ==
  ASSUME Inv, NEW p \in Publishers, Evolves(p), UNCHANGED <<cardOf, over>>,
         \A c \in CardIds : cards'[c].sent => cards[c].sent,
         OnCard(p) /\ Ends(p) => OnCard(p)' /\ Ends(p)' /\ call'[p].card = call[p].card
  PROVE  StreamingInv'
<1> SUFFICES ASSUME NEW c \in CardIds, cards'[c].sent, cards'[c].streaming,
                    <<cards'[c].run, "final">> \notin texts', cards'[c].run \notin textFailed'
             PROVE  \/ \E q \in Publishers : OnCard(q)' /\ Ends(q)' /\ call'[q].card = c
                    \/ /\ cards'[c].run = run' /\ cardOf'[run'] = c /\ run' \notin over'
                       /\ \A q \in Publishers : ~Ends(q)'
  BY DEF StreamingInv, Told, Evolves
<1>1. /\ cards[c].sent /\ cards[c].streaming /\ ~Told(cards[c].run) /\ cards'[c].run = cards[c].run
      /\ run' = run
  BY DEF Evolves, Told
<1>2. \/ \E q \in Publishers : OnCard(q) /\ Ends(q) /\ call[q].card = c
      \/ /\ cards[c].run = run /\ cardOf[run] = c /\ run \notin over
         /\ \A q \in Publishers : ~Ends(q)
  BY <1>1 DEF Inv, StreamingInv
<1>3. ASSUME NEW q \in Publishers, OnCard(q), Ends(q), call[q].card = c
      PROVE  OnCard(q)' /\ Ends(q)' /\ call'[q].card = c
  BY <1>3 DEF Evolves, OnCard, Ends, Busy
<1>4. \A q \in Publishers : Ends(q)' => Ends(q)
  BY DEF Evolves, Ends, Busy
<1> QED BY <1>1, <1>2, <1>3, <1>4

\* A live run goes on being shown as it is, if its card is kept and nobody was
\* making one.
LEMMA ShownKept ==
  ASSUME Inv, NEW p \in Publishers, Evolves(p), UNCHANGED textRuns, ~MakesCard(p),
         Live => UNCHANGED cardOf
  PROVE  ShownInv'
<1>1. Live' => Live
  BY DEF Live, Evolves
<1>2. MakesCard("consumer") => MakesCard("consumer")'
  BY DEF MakesCard, Evolves, Publishers
<1> QED BY <1>1, <1>2 DEF Inv, ShownInv, Evolves

LEMMA UpdatedStep ==
  ASSUME Inv, NEW p \in Publishers, UpdateReturns(p)
  PROVE  Evolves(p) /\ Inv'
<1>1. TypeInv /\ TypeOK /\ CallInv(p)
  BY DEF Inv, TypeInv
<1>2. PICK c \in CardIds : c = call[p].card
  BY <1>1, UpdatedKeepsTypes
<1>3. /\ TypeInv' /\ run \in Runs /\ CardIds' = CardIds
      /\ Sets(c, call[p].view, call[p].sequence, cards[c].sent, cards[c].streaming)
      /\ \A d \in CardIds : sequence'[d] = IF d = c THEN call[p].sequence ELSE sequence[d]
      /\ \A q \in Publishers : q # p => call'[q] = call[q]
      /\ over' = over
      /\ IF Final(call[p].view)
           THEN call'[p] = [pc |-> "close", view |-> call[p].view, card |-> c,
                            sequence |-> call[p].sequence + 1, aged |-> FALSE]
           ELSE call'[p] = Idle
  BY <1>1, <1>2, UpdatedKeepsTypes
<1>4. /\ call[p].pc = "update" /\ call[p].sequence > cards[c].sequence
      /\ UNCHANGED <<controllerVars, sinkVars, closed, texts, textFailed, faults>>
  BY <1>2 DEF UpdateReturns, Accepted
<1>5. /\ cards'[c].run = cards[c].run /\ cards'[c].view = call[p].view /\ cards'[c].sequence = call[p].sequence
      /\ cards'[c].sent = cards[c].sent /\ cards'[c].streaming = cards[c].streaming
      /\ \A d \in CardIds : d # c => cards'[d] = cards[d]
      /\ call[p].sequence \in Nat /\ \A d \in CardIds : cards[d].sequence \in Nat /\ cards[d].sent \in BOOLEAN
  <2>1. /\ cards'[c] = [run |-> cards[c].run, view |-> call[p].view, sequence |-> call[p].sequence,
                         sent |-> cards[c].sent, streaming |-> cards[c].streaming]
        /\ \A d \in CardIds : d # c => cards'[d] = cards[d]
    BY <1>3 DEF Sets
  <2>2. call[p].sequence \in Nat /\ \A d \in CardIds : cards[d].sequence \in Nat /\ cards[d].sent \in BOOLEAN
    BY <1>1, CallFields, CardFields
  <2> QED BY <2>1, <2>2
<1>6. /\ Busy(p) /\ OnCard(p) /\ ~MakesCard(p) /\ ~MakesCard(p)' /\ (Busy(p)' => call'[p].view = call[p].view)
      /\ Ends(p) <=> Final(call[p].view)
      /\ Ends(p) => OnCard(p)' /\ Ends(p)' /\ call'[p].card = c
      /\ call'[p].pc \in {"idle", "close"} /\ (call'[p].pc = "close" => Final(call[p].view))
  <2>1. Idle.pc = "idle"
    BY DEF Idle
  <2> QED BY <1>3, <1>4, <2>1 DEF Busy, OnCard, MakesCard, Ends
\* An earlier view is not taken after the last.
<1>7. Final(cards[c].view) => Final(call[p].view)
  BY <1>1, <1>2, <1>4 DEF CallInv, Accepted
<1>8. /\ UNCHANGED <<run, asked, pending, stopping, reader, textRuns, pendingTexts, cardOf>>
      /\ \A d \in CardIds : sequence[d] <= cards[d].sequence
  BY <1>4 DEF controllerVars, sinkVars, Inv, NumbersInv
<1>9. Evolves(p)
  <2>1. ASSUME NEW d \in CardIds
        PROVE  /\ cards'[d].run = cards[d].run
               /\ cards[d].sent => cards'[d].sent
               /\ cards'[d].streaming => cards[d].streaming
               /\ cards[d].sequence <= cards'[d].sequence /\ sequence'[d] <= cards'[d].sequence
               /\ Final(cards[d].view) => Final(cards'[d].view)
               /\ Final(cards'[d].view) /\ ~Final(cards[d].view)
                    => Ends(p) /\ cards[d].sequence < cards'[d].sequence
    <3>1. CASE d = c
      BY <1>3, <1>4, <1>5, <1>6, <1>7, <3>1
    <3>2. CASE d # c
      BY <1>3, <1>5, <1>8, <3>2
    <3> QED BY <3>1, <3>2
  <2>2. OnlyRunAdded
    BY <1>8 DEF OnlyRunAdded
  <2>3. /\ Busy(p) /\ ~MakesCard(p)' /\ (Busy(p)' => call'[p].view = call[p].view)
        /\ \A q \in Publishers : q # p => call'[q] = call[q]
        /\ UNCHANGED <<run, asked, pending, stopping>> /\ reader' \in {reader, "none"}
        /\ CardIds' = CardIds /\ UNCHANGED pendingTexts
        /\ texts \subseteq texts' /\ textFailed \subseteq textFailed'
        /\ over' = over /\ closed' = closed /\ cardOf' = cardOf
    BY <1>3, <1>4, <1>6, <1>8
  <2>4. call[p].pc # "text" /\ UNCHANGED textRuns
    BY <1>4, <1>8
  <2> QED BY <2>1, <2>2, <2>3, <2>4 DEF Evolves
<1>10. CallInv(p)'
  <2>1. CASE call'[p].pc = "idle"
    BY <2>1 DEF CallInv, OnCard
  <2>2. CASE call'[p].pc = "close"
    BY <1>1, <1>2, <1>3, <1>5, <1>6, <1>8, <2>2 DEF CallInv, OnCard
  <2> QED BY <1>6, <2>1, <2>2
<1>11. StreamingInv'
  BY <1>2, <1>3, <1>5, <1>6, <1>8, <1>9, StreamingKept
<1>12. ShownInv'
  BY <1>6, <1>8, <1>9, ShownKept
<1> QED BY <1>3, <1>9, <1>10, <1>11, <1>12, EvolvesStep

LEMMA SentStep ==
  ASSUME Inv, NEW p \in Publishers, CardSent(p)
  PROVE  Evolves(p) /\ Inv'
<1>1. /\ TypeInv /\ TypeOK /\ CallInv(p) /\ NumbersInv /\ OpeningInv /\ EndsInv /\ StreamingInv
  BY DEF Inv, TypeInv
<1>2. PICK c \in CardIds : c = call[p].card
  BY <1>1, SentKeepsTypes
<1>3. /\ TypeInv' /\ run \in Runs /\ CardIds' = CardIds
      /\ Sets(c, cards[c].view, cards[c].sequence, TRUE, cards[c].streaming)
      /\ \A d \in CardIds : sequence'[d] = IF d = c THEN 1 ELSE sequence[d]
      /\ \A q \in Publishers : q # p => call'[q] = call[q]
      /\ over' = over
      /\ IF Final(call[p].view)
           THEN call'[p] = [pc |-> "update", view |-> call[p].view, card |-> c, sequence |-> 2, aged |-> FALSE]
           ELSE call'[p] = Idle
  BY <1>1, <1>2, SentKeepsTypes
<1>4. /\ call[p].pc = "send" /\ cardOf' = [cardOf EXCEPT ![run] = c]
      /\ UNCHANGED <<controllerVars, textRuns, pendingTexts, disabled, closed, texts, textFailed, faults>>
  BY <1>2 DEF CardSent
<1>5. /\ cards'[c].run = cards[c].run /\ cards'[c].view = cards[c].view /\ cards'[c].sequence = cards[c].sequence
      /\ cards'[c].sent /\ cards'[c].streaming = cards[c].streaming
      /\ \A d \in CardIds : d # c => cards'[d] = cards[d]
      /\ \A d \in CardIds : cards[d].sequence \in Nat
      /\ cardOf'[run] = c /\ \A r \in Runs : r # run => cardOf'[r] = cardOf[r]
  <2>1. /\ cards'[c] = [run |-> cards[c].run, view |-> cards[c].view, sequence |-> cards[c].sequence,
                         sent |-> TRUE, streaming |-> cards[c].streaming]
        /\ \A d \in CardIds : d # c => cards'[d] = cards[d]
    BY <1>3 DEF Sets
  <2>2. \A d \in CardIds : cards[d].sequence \in Nat
    BY <1>1, CardFields
  <2>3. cardOf \in [Runs -> {NoCard} \union CardIds]
    BY <1>1 DEF TypeOK
  <2> QED BY <1>3, <1>4, <2>1, <2>2, <2>3
<1>6. /\ Busy(p) /\ ~OnCard(p) /\ MakesCard(p) /\ ~MakesCard(p)' /\ (Busy(p)' => call'[p].view = call[p].view)
      /\ Ends(p) <=> Final(call[p].view)
      /\ Ends(p) => OnCard(p)' /\ Ends(p)' /\ call'[p].card = c /\ call'[p].pc = "update" /\ call'[p].sequence = 2
      /\ ~Ends(p) => ~Busy(p)'
  <2>1. Idle.pc = "idle"
    BY DEF Idle
  <2> QED BY <1>3, <1>4, <2>1 DEF Busy, OnCard, MakesCard, Ends
<1>7. /\ UNCHANGED <<run, asked, pending, stopping, reader, textRuns, pendingTexts>>
      /\ cards[c].run = run
      /\ \A d \in CardIds : sequence[d] <= cards[d].sequence /\ cards[d].sequence >= 1
  BY <1>1, <1>2, <1>4 DEF controllerVars, NumbersInv, CallInv
<1>8. ~Ends(p) =>
        /\ p = "consumer" /\ run \notin over /\ run \notin textRuns
        /\ \A q \in Publishers : q # p => ~Busy(q)
        /\ \A d \in CardIds : cards[d].run = run => ~cards[d].sent
  BY <1>1, <1>6 DEF OpeningInv
<1>9. Evolves(p)
  <2>1. ASSUME NEW d \in CardIds
        PROVE  /\ cards'[d].run = cards[d].run
               /\ cards[d].sent => cards'[d].sent
               /\ cards'[d].streaming => cards[d].streaming
               /\ cards[d].sequence <= cards'[d].sequence /\ sequence'[d] <= cards'[d].sequence
               /\ cards'[d].view = cards[d].view
    <3>1. CASE d = c
      BY <1>3, <1>5, <1>7, <3>1
    <3>2. CASE d # c
      BY <1>3, <1>5, <1>7, <3>2
    <3> QED BY <3>1, <3>2
  <2>2. OnlyRunAdded
    BY <1>7 DEF OnlyRunAdded
  <2>3. /\ Busy(p) /\ ~MakesCard(p)' /\ (Busy(p)' => call'[p].view = call[p].view)
        /\ \A q \in Publishers : q # p => call'[q] = call[q]
        /\ UNCHANGED <<run, asked, pending, stopping>> /\ reader' \in {reader, "none"}
        /\ CardIds' = CardIds /\ UNCHANGED pendingTexts
        /\ texts \subseteq texts' /\ textFailed \subseteq textFailed'
        /\ over' = over /\ closed' = closed
    BY <1>3, <1>4, <1>6, <1>7
  <2>4. call[p].pc # "text" /\ UNCHANGED textRuns
    BY <1>4, <1>7
  <2>5. \A r \in Runs :
          \/ cardOf'[r] \in {cardOf[r], NoCard}
          \/ r = run /\ cards'[cardOf'[r]].run = run /\ cards'[cardOf'[r]].sent
    BY <1>5, <1>7
  <2> QED BY <2>1, <2>2, <2>3, <2>4, <2>5 DEF Evolves
<1>10. CallInv(p)'
  <2>1. CASE ~Ends(p)
    BY <1>6, <2>1 DEF CallInv, OnCard, Busy
  <2>2. CASE Ends(p)
    BY <1>5, <1>6, <1>7, <2>2 DEF CallInv, OnCard, Ends
  <2> QED BY <2>1, <2>2
<1>11. StreamingInv'
  <2> SUFFICES ASSUME NEW d \in CardIds, cards'[d].sent, cards'[d].streaming,
                      <<cards'[d].run, "final">> \notin texts', cards'[d].run \notin textFailed'
               PROVE  \/ \E q \in Publishers : OnCard(q)' /\ Ends(q)' /\ call'[q].card = d
                      \/ /\ cards'[d].run = run' /\ cardOf'[run'] = d /\ run' \notin over'
                         /\ \A q \in Publishers : ~Ends(q)'
    BY <1>3 DEF StreamingInv, Told
  <2>1. CASE Ends(p) /\ d = c
    BY <1>6, <2>1
  <2>2. CASE Ends(p) /\ d # c
    <3>1. cards[d].sent /\ cards[d].streaming /\ ~Told(cards[d].run)
      BY <1>4, <1>5, <2>2 DEF Told
    <3>2. PICK q \in Publishers : OnCard(q) /\ Ends(q) /\ call[q].card = d
      BY <1>1, <2>2, <3>1 DEF StreamingInv
    <3>3. OnCard(q)' /\ Ends(q)' /\ call'[q].card = d
      BY <1>3, <1>6, <3>2 DEF OnCard, Ends, Busy
    <3> QED BY <3>3
  <2>3. CASE ~Ends(p)
    <3>1. \A q \in Publishers : ~Ends(q)'
      BY <1>3, <1>6, <1>8, <2>3 DEF Ends, Busy
    <3>2. CASE d = c
      BY <1>3, <1>5, <1>7, <1>8, <2>3, <3>1, <3>2
    <3>3. CASE d # c
      <4>1. cards[d].sent /\ cards[d].streaming /\ ~Told(cards[d].run)
        BY <1>4, <1>5, <3>3 DEF Told
      <4>2. \/ \E q \in Publishers : OnCard(q) /\ Ends(q) /\ call[q].card = d
            \/ cards[d].run = run
        BY <1>1, <4>1 DEF StreamingInv
      <4>3. \A q \in Publishers : ~Ends(q)
        BY <1>8, <2>3 DEF Ends
      <4> QED BY <1>8, <2>3, <4>1, <4>2, <4>3
    <3> QED BY <3>2, <3>3
  <2> QED BY <2>1, <2>2, <2>3
<1>12. ShownInv'
  <2> SUFFICES ASSUME Live PROVE ShownInv'
    BY <1>7 DEF ShownInv, Live
  <2>1. ~Ends(p)
    BY <1>1 DEF EndsInv
  <2>2. run' \notin textRuns' /\ cardOf'[run'] # NoCard
    BY <1>5, <1>7, <1>8, <2>1, <1>1, CardTypes
  <2> QED BY <2>2 DEF ShownInv
<1> QED BY <1>3, <1>9, <1>10, <1>11, <1>12, EvolvesStep

LEMMA CardFailsStep ==
  ASSUME Inv, NEW p \in Publishers, NEW kind, CardFails(p, kind)
  PROVE  Inv'
<1>1. /\ TypeInv /\ TypeOK /\ NumbersInv /\ OpeningInv /\ EndsInv
  BY DEF Inv, TypeInv
<1>2. /\ TypeInv' /\ run \in Runs /\ MakesCard(p) /\ OnlyRunAdded
      /\ Texts(p, call[p].view) /\ UNCHANGED pendingTexts
      /\ \A q \in Publishers : q # p => call'[q] = call[q]
      /\ UNCHANGED <<controllerVars, cardOf, closed, sequence, cards, texts, textFailed>>
  BY <1>1, CardFailsKeepsTypes
<1>3. /\ Busy(p) /\ ~OnCard(p) /\ ~MakesCard(p)' /\ ~OnCard(p)' /\ call'[p].view = call[p].view
      /\ call'[p].pc = "text" /\ run \in textRuns' /\ over' = over /\ CardIds' = CardIds
      /\ UNCHANGED <<run, asked, pending, stopping, reader>>
  BY <1>2 DEF Busy, OnCard, MakesCard, Texts, CardIds, controllerVars
<1>4. Evolves(p)
  <2>1. \A d \in CardIds : sequence[d] <= cards[d].sequence /\ cards[d].sequence \in Nat
    BY <1>1, CardFields DEF NumbersInv
  <2> QED BY <1>2, <1>3, <2>1 DEF Evolves
<1>5. CallInv(p)'
  BY <1>3 DEF CallInv, OnCard
<1>6. StreamingInv'
  BY <1>2, <1>3, <1>4, StreamingKept
<1>7. ShownInv'
  <2> SUFFICES ASSUME Live PROVE ShownInv'
    BY <1>3 DEF ShownInv, Live
  <2>1. ~Ends(p)
    BY <1>1 DEF EndsInv
  <2>2. cardOf[run] = NoCard
    BY <1>1, <1>2, <2>1 DEF OpeningInv
  <2> QED BY <1>2, <1>3, <2>2 DEF ShownInv
<1> QED BY <1>2, <1>4, <1>5, <1>6, <1>7, EvolvesStep

LEMMA ClosedStep ==
  ASSUME Inv, NEW p \in Publishers, CloseReturns(p)
  PROVE  Evolves(p) /\ Inv'
<1>1. /\ TypeInv /\ TypeOK /\ CallInv(p) /\ NumbersInv /\ EndsInv /\ StreamingInv
  BY DEF Inv, TypeInv
<1>2. PICK c \in CardIds : c = call[p].card
  BY <1>1, ClosedKeepsTypes
<1>3. /\ TypeInv' /\ run \in Runs /\ CardIds' = CardIds
      /\ Sets(c, cards[c].view, call[p].sequence, cards[c].sent, FALSE)
      /\ \A q \in Publishers : q # p => call'[q] = call[q]
      /\ call'[p] = Idle
  BY <1>1, <1>2, ClosedKeepsTypes
<1>4. /\ call[p].pc = "close" /\ call[p].sequence > cards[c].sequence
      /\ closed' = closed \union {c} /\ cardOf' = [cardOf EXCEPT ![run] = NoCard]
      /\ over' = IF Final(call[p].view) THEN over \union {run} ELSE over
      /\ UNCHANGED <<controllerVars, textRuns, pendingTexts, disabled, sequence, recent, texts, textFailed, faults>>
  BY <1>2 DEF CloseReturns, Accepted, Return
<1>5. /\ cards'[c].run = cards[c].run /\ cards'[c].view = cards[c].view /\ cards'[c].sequence = call[p].sequence
      /\ cards'[c].sent = cards[c].sent /\ cards'[c].streaming = FALSE
      /\ \A d \in CardIds : d # c => cards'[d] = cards[d]
      /\ call[p].sequence \in Nat /\ \A d \in CardIds : cards[d].sequence \in Nat /\ cards[d].sent \in BOOLEAN
      /\ \A r \in Runs : cardOf'[r] \in {cardOf[r], NoCard}
  <2>1. /\ cards'[c] = [run |-> cards[c].run, view |-> cards[c].view, sequence |-> call[p].sequence,
                         sent |-> cards[c].sent, streaming |-> FALSE]
        /\ \A d \in CardIds : d # c => cards'[d] = cards[d]
    BY <1>3 DEF Sets
  <2>2. call[p].sequence \in Nat /\ \A d \in CardIds : cards[d].sequence \in Nat /\ cards[d].sent \in BOOLEAN
    BY <1>1, CallFields, CardFields
  <2>3. cardOf \in [Runs -> {NoCard} \union CardIds]
    BY <1>1 DEF TypeOK
  <2> QED BY <1>4, <2>1, <2>2, <2>3
<1>6. /\ Busy(p) /\ OnCard(p) /\ ~MakesCard(p) /\ ~MakesCard(p)' /\ ~Busy(p)' /\ Ends(p)
      /\ Final(call[p].view) /\ Final(cards[c].view) /\ cards[c].sent /\ cards[c].run = run
  <2>1. Idle.pc = "idle"
    BY DEF Idle
  <2> QED BY <1>1, <1>2, <1>3, <1>4, <2>1 DEF Busy, OnCard, MakesCard, Ends, CallInv
<1>7. /\ UNCHANGED <<run, asked, pending, stopping, reader, textRuns, pendingTexts>>
      /\ \A d \in CardIds : sequence[d] <= cards[d].sequence
  BY <1>1, <1>4 DEF controllerVars, NumbersInv
<1>8. Evolves(p)
  <2>1. ASSUME NEW d \in CardIds
        PROVE  /\ cards'[d].run = cards[d].run
               /\ cards[d].sent => cards'[d].sent
               /\ cards'[d].streaming => cards[d].streaming
               /\ cards[d].sequence <= cards'[d].sequence /\ sequence'[d] <= cards'[d].sequence
               /\ cards'[d].view = cards[d].view
    <3>1. sequence'[d] \in Nat /\ sequence'[d] <= cards[d].sequence
      BY <1>1, <1>4, <1>7, CardTypes
    <3>2. CASE d = c
      BY <1>4, <1>5, <3>1, <3>2
    <3>3. CASE d # c
      BY <1>5, <3>1, <3>3
    <3> QED BY <3>2, <3>3
  <2>2. OnlyRunAdded
    BY <1>7 DEF OnlyRunAdded
  <2>3. Shows(run, "final")'
    BY <1>3, <1>5, <1>6, <1>7 DEF Shows, Final
  <2>4. \A d \in closed' : d \in closed \/ (Final(cards'[d].view) /\ cards'[d].sent /\ ~cards'[d].streaming)
    BY <1>4, <1>5, <1>6
  <2>5. call[p].pc # "text" /\ UNCHANGED textRuns
    BY <1>4, <1>7
  <2> QED BY <1>3, <1>4, <1>5, <1>6, <1>7, <2>1, <2>2, <2>3, <2>4, <2>5 DEF Evolves
<1>9. CallInv(p)'
  BY <1>6 DEF CallInv, OnCard, Busy
<1>10. StreamingInv'
  <2> SUFFICES ASSUME NEW d \in CardIds, cards'[d].sent, cards'[d].streaming,
                      <<cards'[d].run, "final">> \notin texts', cards'[d].run \notin textFailed'
               PROVE  \E q \in Publishers : OnCard(q)' /\ Ends(q)' /\ call'[q].card = d
    BY <1>3 DEF StreamingInv, Told
  <2>1. d # c /\ cards[d].sent /\ cards[d].streaming /\ ~Told(cards[d].run)
    BY <1>4, <1>5 DEF Told
  <2>2. PICK q \in Publishers : OnCard(q) /\ Ends(q) /\ call[q].card = d
    BY <1>1, <1>6, <2>1 DEF StreamingInv
  <2>3. q # p
    BY <1>2, <2>1, <2>2
  <2>4. call'[q] = call[q]
    BY <1>3, <2>3
  <2> QED BY <2>2, <2>4 DEF OnCard, Ends, Busy
<1>11. ShownInv'
  BY <1>1, <1>6, <1>7, <1>8, ShownKept DEF EndsInv
<1> QED BY <1>3, <1>8, <1>9, <1>10, <1>11, EvolvesStep

LEMMA CallFailsStep ==
  ASSUME Inv, NEW p \in Publishers, CallFails(p)
  PROVE  Evolves(p) /\ Inv'
<1>1. TypeInv /\ TypeOK /\ CallInv(p)
  BY DEF Inv, TypeInv
<1>2. PICK c \in CardIds : c = call[p].card
  BY <1>1, CallFailsKeepsTypes
<1>3. /\ TypeInv' /\ run \in Runs /\ CardIds' = CardIds
      /\ \/ UNCHANGED cards
         \/ /\ Accepted(c, call[p].sequence)
            /\ \E view \in Views, streaming \in BOOLEAN :
                 /\ Sets(c, view, call[p].sequence, cards[c].sent, streaming)
                 /\ view = IF call[p].pc = "update" THEN call[p].view ELSE cards[c].view
                 /\ streaming => cards[c].streaming
      /\ \A q \in Publishers : q # p => call'[q] = call[q]
      /\ over' = over
      /\ IF Final(call[p].view)
           THEN call'[p] = [pc |-> "finalText", view |-> call[p].view, card |-> c, sequence |-> 0, aged |-> FALSE]
           ELSE call'[p] = Idle
  BY <1>1, <1>2, CallFailsKeepsTypes
<1>4. /\ call[p].pc \in {"update", "close"}
      /\ UNCHANGED <<controllerVars, sinkVars, streamVars, texts, textFailed>>
  BY DEF CallFails
<1>5. /\ UNCHANGED <<run, asked, pending, stopping, reader, textRuns, pendingTexts, cardOf, sequence, closed>>
      /\ \A d \in CardIds : sequence[d] <= cards[d].sequence
      /\ \A d \in CardIds : cards[d].sequence \in Nat
      /\ call[p].sequence \in Nat
  BY <1>1, <1>4, CardFields, CallFields DEF controllerVars, sinkVars, streamVars, Inv, NumbersInv
<1>6. /\ Busy(p) /\ OnCard(p) /\ ~MakesCard(p) /\ ~MakesCard(p)' /\ (Busy(p)' => call'[p].view = call[p].view)
      /\ Ends(p) <=> Final(call[p].view)
      /\ Ends(p) => OnCard(p)' /\ Ends(p)' /\ call'[p].card = c
      /\ call'[p].pc \in {"idle", "finalText"} /\ (call'[p].pc = "finalText" => Ends(p))
  <2>1. Idle.pc = "idle"
    BY DEF Idle
  <2> QED BY <1>3, <1>4, <2>1 DEF Busy, OnCard, MakesCard, Ends
<1>7. ASSUME NEW d \in CardIds
      PROVE  /\ cards'[d].run = cards[d].run
             /\ cards'[d].sent = cards[d].sent
             /\ cards'[d].streaming => cards[d].streaming
             /\ cards[d].sequence <= cards'[d].sequence /\ sequence'[d] <= cards'[d].sequence
             /\ Final(cards[d].view) => Final(cards'[d].view)
             /\ Final(cards'[d].view) /\ ~Final(cards[d].view)
                  => Ends(p) /\ cards[d].sequence < cards'[d].sequence
  <2>1. CASE UNCHANGED cards
    BY <1>5, <2>1
  <2>2. ASSUME NEW view \in Views, NEW streaming \in BOOLEAN, Accepted(c, call[p].sequence),
               Sets(c, view, call[p].sequence, cards[c].sent, streaming),
               view = IF call[p].pc = "update" THEN call[p].view ELSE cards[c].view,
               streaming => cards[c].streaming
        PROVE  /\ cards'[d].run = cards[d].run
               /\ cards'[d].sent = cards[d].sent
               /\ cards'[d].streaming => cards[d].streaming
               /\ cards[d].sequence <= cards'[d].sequence /\ sequence'[d] <= cards'[d].sequence
               /\ Final(cards[d].view) => Final(cards'[d].view)
               /\ Final(cards'[d].view) /\ ~Final(cards[d].view)
                    => Ends(p) /\ cards[d].sequence < cards'[d].sequence
    <3>1. /\ cards'[c] = [run |-> cards[c].run, view |-> view, sequence |-> call[p].sequence,
                          sent |-> cards[c].sent, streaming |-> streaming]
          /\ \A e \in CardIds : e # c => cards'[e] = cards[e]
      BY <2>2 DEF Sets
    <3>2. CASE d # c
      BY <1>5, <3>1, <3>2
    <3>3. CASE d = c
      <4>1. cards[c].sequence < call[p].sequence
        BY <1>5, <2>2 DEF Accepted
      <4>2. call[p].pc = "update" /\ Final(cards[c].view) => Final(call[p].view)
        BY <1>1, <1>2, <2>2 DEF CallInv
      <4>3. /\ cards'[c].run = cards[c].run /\ cards'[c].sent = cards[c].sent /\ cards'[c].view = view
            /\ cards'[c].streaming = streaming /\ cards'[c].sequence = call[p].sequence
        BY <3>1
      <4>4. Final(cards[c].view) => Final(view)
        BY <2>2, <4>2
      <4>5. Final(view) /\ ~Final(cards[c].view) => Ends(p)
        BY <1>6, <2>2
      <4>6. sequence'[c] = sequence[c] /\ sequence[c] \in Nat /\ sequence[c] <= cards[c].sequence
        BY <1>1, <1>5, CardTypes
      <4> QED BY <1>5, <2>2, <3>3, <4>1, <4>3, <4>4, <4>5, <4>6
    <3> QED BY <3>2, <3>3
  <2> QED BY <1>3, <2>1, <2>2
<1>8. Evolves(p)
  <2>1. OnlyRunAdded
    BY <1>5 DEF OnlyRunAdded
  <2>2. call[p].pc # "text" /\ UNCHANGED textRuns
    BY <1>4, <1>5
  <2> QED BY <1>3, <1>4, <1>5, <1>6, <1>7, <2>1, <2>2 DEF Evolves
<1>9. CallInv(p)'
  <2>1. CASE call'[p].pc = "idle"
    BY <2>1 DEF CallInv, OnCard
  <2>2. CASE call'[p].pc = "finalText"
    <3>1. Ends(p) /\ OnCard(p)' /\ call'[p].card = c /\ cards[c].run = run /\ cards[c].sent /\ Final(call'[p].view)
      BY <1>1, <1>2, <1>6, <2>2 DEF CallInv, Ends, Busy
    <3>2. cards'[c].run = run' /\ cards'[c].sent
      BY <1>5, <1>7, <3>1
    <3> QED BY <2>2, <3>1, <3>2 DEF CallInv, OnCard
  <2> QED BY <1>6, <2>1, <2>2
<1>10. StreamingInv'
  BY <1>2, <1>3, <1>5, <1>6, <1>7, <1>8, StreamingKept
<1>11. ShownInv'
  BY <1>5, <1>6, <1>8, ShownKept
<1> QED BY <1>3, <1>8, <1>9, <1>10, <1>11, EvolvesStep

\* Only cards of the current run may still stream for want of a last view, and
\* once it has been told they may.
LEMMA ToldStreams ==
  ASSUME Inv, NEW p \in Publishers, Evolves(p), UNCHANGED cards, Told(run)'
  PROVE  StreamingInv'
<1> SUFFICES ASSUME NEW c \in CardIds, cards[c].sent, cards[c].streaming, ~Told(cards[c].run)'
             PROVE  FALSE
  BY DEF StreamingInv, Evolves, Told
<1>1. cards[c].run # run /\ ~Told(cards[c].run)
  BY DEF Evolves, Told
<1>2. PICK q \in Publishers : OnCard(q) /\ call[q].card = c
  BY <1>1 DEF Inv, StreamingInv
<1>3. CallInv(q)
  BY DEF Inv
<1> QED BY <1>1, <1>2, <1>3 DEF CallInv

\* What the end of a text message leaves alone.
LEMMA TextStep ==
  ASSUME Inv, NEW p \in Publishers, call[p].pc \in {"text", "finalText"}, TypeInv',
         call'[p] = Idle, \A q \in Publishers : q # p => call'[q] = call[q],
         UNCHANGED <<run, asked, pending, stopping, sinkVars, sequence, cards>>,
         reader' \in {reader, "none"},
         texts \subseteq texts', textFailed \subseteq textFailed',
         \A c \in closed' : c \in closed \/ (c = call[p].card /\ OnCard(p) /\ <<run, "final">> \in texts'),
         over' \in {over, over \union {run}}, over' # over => Ends(p) /\ Told(run)',
         call[p].pc = "finalText" => Told(run)',
         run \in textFailed' \/ <<run, call[p].view>> \in texts'
  PROVE  Inv'
<1>1. TypeInv /\ TypeOK /\ CallInv(p) /\ NumbersInv /\ CardIds' = CardIds
  BY DEF Inv, TypeInv, CardIds
<1>2. /\ Busy(p) /\ ~Busy(p)' /\ ~OnCard(p)' /\ ~MakesCard(p) /\ ~MakesCard(p)'
      /\ OnCard(p) <=> call[p].pc = "finalText"
  <2>1. Idle.pc = "idle"
    BY DEF Idle
  <2> QED BY <2>1 DEF Busy, OnCard, MakesCard
<1>3. UNCHANGED <<textRuns, pendingTexts, cardOf>>
  BY DEF sinkVars
<1>4. \A d \in CardIds : sequence[d] <= cards[d].sequence /\ cards[d].sequence \in Nat
  BY <1>1, CardFields DEF NumbersInv
<1>5. OnCard(p) => cards[call[p].card].run = run
  BY <1>1 DEF CallInv
<1>6. Evolves(p)
  <2>1. OnlyRunAdded
    BY <1>3 DEF OnlyRunAdded
  <2>2. over' # over => Ends(p) /\ (Shows(run, "final")' \/ run \in textFailed')
    BY DEF Told, Shows
  <2>3. \A c \in closed' : c \in closed \/ (cards[c].run = run /\ <<run, "final">> \in texts')
    BY <1>5
  <2> QED BY <1>1, <1>2, <1>3, <1>4, <2>1, <2>2, <2>3 DEF Evolves
<1>7. StreamingInv'
  <2>1. CASE Told(run)'
    BY <1>6, <2>1, ToldStreams
  <2>2. CASE ~Told(run)'
    BY <1>2, <1>3, <1>6, <2>2, StreamingKept
  <2> QED BY <2>1, <2>2
<1>8. ShownInv'
  BY <1>2, <1>3, <1>6, ShownKept
<1>9. CallInv(p)'
  BY <1>2 DEF CallInv, OnCard, Busy
<1> QED BY <1>6, <1>7, <1>8, <1>9, EvolvesStep

LEMMA TextSentStep ==
  ASSUME Inv, NEW p \in Publishers, TextSent(p)
  PROVE  Inv'
<1>1. TypeInv /\ CallInv(p)
  BY DEF Inv
<1>2. /\ TypeInv' /\ call'[p] = Idle /\ \A q \in Publishers : q # p => call'[q] = call[q]
  BY <1>1, TextSentKeepsTypes
<1>3. /\ call[p].pc \in {"text", "finalText"}
      /\ texts' = texts \union {<<run, call[p].view>>}
      /\ closed' = IF call[p].pc = "finalText" THEN closed \union {call[p].card} ELSE closed
      /\ over' = IF Final(call[p].view) THEN over \union {run} ELSE over
      /\ UNCHANGED <<controllerVars, sinkVars, sequence, cards, textFailed>>
  BY DEF TextSent, Return
<1>4. /\ UNCHANGED <<run, reader, asked, pending, stopping>>
      /\ call[p].pc = "finalText" => OnCard(p) /\ Final(call[p].view)
      /\ Final(call[p].view) <=> Ends(p)
  BY <1>1, <1>3 DEF controllerVars, OnCard, CallInv, Ends, Busy
<1>5. Final(call[p].view) => <<run, "final">> \in texts' /\ Told(run)'
  <2>1. run' = run
    BY <1>4
  <2> QED BY <1>3, <2>1 DEF Told, Final
<1>6. \A c \in closed' : c \in closed \/ (c = call[p].card /\ OnCard(p) /\ <<run, "final">> \in texts')
  BY <1>3, <1>4, <1>5
<1> QED BY <1>2, <1>3, <1>4, <1>5, <1>6, TextStep

LEMMA TextFailsStep ==
  ASSUME Inv, NEW p \in Publishers, TextFails(p)
  PROVE  Inv'
<1>1. TypeInv /\ CallInv(p)
  BY DEF Inv
<1>2. /\ TypeInv' /\ call'[p] = Idle /\ \A q \in Publishers : q # p => call'[q] = call[q]
  BY <1>1, TextFailsKeepsTypes
<1>3. /\ call[p].pc \in {"text", "finalText"}
      /\ textFailed' = textFailed \union {run} /\ reader' \in {reader, "none"}
      /\ over' \in {over, over \union {run}} /\ (call[p].pc = "text" => over' = over)
      /\ UNCHANGED <<run, asked, pending, stopping, sinkVars, streamVars, feishuVars>>
  BY DEF TextFails, Return, Final
<1>4. call[p].pc = "finalText" => Ends(p)
  BY <1>1 DEF CallInv, Ends, Busy
<1>5. Told(run)'
  <2>1. run' = run
    BY <1>3
  <2> QED BY <1>3, <2>1 DEF Told
<1> QED BY <1>2, <1>3, <1>4, <1>5, TextStep DEF streamVars, feishuVars

\* Of the controller's steps that publish nothing the cards see little.
LEMMA StillStep ==
  ASSUME Inv, TypeInv', Live' => Live,
         ~asked => stopping' \in {"no", "running"}, pending => stopping' # "done",
         UNCHANGED <<run, reader, asked, pending, sinkVars, sequence, closed, feishuVars, over, textFailed>>,
         \A p \in Publishers :
           /\ call'[p].pc = call[p].pc /\ call'[p].view = call[p].view
           /\ call'[p].card = call[p].card /\ call'[p].sequence = call[p].sequence
  PROVE  Inv'
<1>1. /\ UNCHANGED <<cardOf, textRuns, pendingTexts, cards, texts>> /\ CardIds' = CardIds
      /\ "consumer" \in Publishers /\ "answer" \in Publishers /\ "stop" \in Publishers
  BY DEF sinkVars, feishuVars, CardIds, Publishers
<1>2. /\ RunsInv' /\ CardOfInv' /\ NumbersInv' /\ ClosedInv' /\ LastViewIsShown'
  BY <1>1 DEF Inv, RunsInv, CardOfInv, NumbersInv, ClosedInv, LastViewIsShown, Shows
<1>3. \A p \in Publishers :
        /\ Busy(p)' = Busy(p) /\ Ends(p)' = Ends(p) /\ MakesCard(p)' = MakesCard(p) /\ OnCard(p)' = OnCard(p)
  BY DEF Busy, Ends, MakesCard, OnCard
<1>4. EndsInv' /\ ShownInv'
  <2>1. EndsInv'
    BY <1>1, <1>3 DEF Inv, EndsInv
  <2>2. ShownInv'
    BY <1>1, <1>3 DEF Inv, ShownInv
  <2> QED BY <2>1, <2>2
<1>5. OpeningInv'
  BY <1>1, <1>3 DEF Inv, OpeningInv
<1>6. AskedInv' /\ PendingInv'
  <2>1. AskedInv'
    BY <1>1, <1>3 DEF Inv, AskedInv
  <2>2. PendingInv'
    BY <1>1, <1>3 DEF Inv, PendingInv
  <2> QED BY <2>1, <2>2
<1>7. StreamingInv'
  BY <1>1, <1>3 DEF Inv, StreamingInv, Told
<1>8. \A p \in Publishers : CallInv(p)'
  BY <1>1, <1>3 DEF Inv, CallInv, Accepted
<1> QED BY <1>2, <1>4, <1>5, <1>6, <1>7, <1>8 DEF Inv

LEMMA ElapseStep ==
  ASSUME Inv, Elapse
  PROVE  Inv'
<1>1. TypeInv /\ PendingInv /\ AskedInv
  BY DEF Inv
<1>2. UNCHANGED <<controllerVars, sinkVars, sequence, closed, feishuVars, over, textFailed>>
  BY DEF Elapse, history
<1>3. UNCHANGED <<run, reader, asked, pending, stopping>> /\ (Live' => Live)
  BY <1>2 DEF controllerVars, Live
<1> QED BY <1>1, <1>2, <1>3, ElapseKeepsTypes, StillStep DEF PendingInv, AskedInv

LEMMA StopStep ==
  ASSUME Inv, Stop
  PROVE  Inv'
<1>1. TypeInv /\ AskedInv
  BY DEF Inv
<1>2. /\ UNCHANGED <<run, reader, asked, pending, sinkVars, sequence, closed, call, feishuVars, over, textFailed>>
      /\ stopping = "no" /\ stopping' = IF pending THEN "paused" ELSE "running"
  BY DEF Stop, streamVars, history
<1>3. (Live' => Live) /\ (~asked => stopping' \in {"no", "running"}) /\ stopping' # "done"
  BY <1>1, <1>2 DEF Live, AskedInv
<1> QED BY <1>1, <1>2, <1>3, StopKeepsTypes, StillStep

LEMMA InitInv ==
  ASSUME Init
  PROVE  Inv
<1>1. TypeInv /\ CardIds = {} /\ ~Live /\ \A p \in Publishers : ~Busy(p)
  <2>1. CardIds = {}
    BY EmptySeq DEF Init, CardIds
  <2>2. Idle.pc = "idle"
    BY DEF Idle
  <2> QED BY <2>1, <2>2, InitTypes DEF Init, Live, Busy
<1>2. \A p \in Publishers : ~Ends(p) /\ ~MakesCard(p) /\ ~OnCard(p) /\ call[p].pc # "send"
  BY <1>1 DEF Ends, Busy, MakesCard, OnCard
<1>3. "answer" \in Publishers /\ "stop" \in Publishers
  BY DEF Publishers
<1>4. RunsInv /\ CardOfInv /\ NumbersInv /\ ClosedInv /\ LastViewIsShown
  BY <1>1 DEF Init, RunsInv, CardOfInv, NumbersInv, ClosedInv, LastViewIsShown, Runs
<1>5. EndsInv /\ OpeningInv /\ ShownInv /\ StreamingInv
  BY <1>1, <1>2 DEF EndsInv, OpeningInv, ShownInv, StreamingInv
<1>6. AskedInv /\ PendingInv
  BY <1>1, <1>3 DEF Init, AskedInv, PendingInv
<1>7. \A p \in Publishers : CallInv(p)
  BY <1>2 DEF CallInv, OnCard
<1> QED BY <1>1, <1>4, <1>5, <1>6, <1>7 DEF Inv

LEMMA InvStep ==
  ASSUME Inv, [Next]_vars
  PROVE  Inv'
<1>1. CASE UNCHANGED vars
  <2>1. TypeInv /\ TypeInv'
    BY <1>1, UnchangedTypes DEF Inv
  <2>2. /\ UNCHANGED <<run, reader, asked, pending, stopping, sinkVars, sequence, closed, feishuVars, over, textFailed>>
        /\ UNCHANGED call
    BY <1>1 DEF vars, controllerVars, streamVars, history
  <2>3. (Live' => Live) /\ (~asked => stopping' \in {"no", "running"}) /\ (pending => stopping' # "done")
    BY <2>2 DEF Live, Inv, AskedInv, PendingInv
  <2> QED BY <2>1, <2>2, <2>3, StillStep
<1>2. CASE Next
  <2>1. CASE StartRun \/ Stop \/ Elapse
    BY <2>1, StartStep, StopStep, ElapseStep
  <2>2. ASSUME NEW p \in Publishers, NEW view \in Views, Publishes(p, view) PROVE Inv'
    BY <2>2, PublishStep
  <2>3. ASSUME NEW p \in Publishers, CardCreated(p) PROVE Inv'
    BY <2>3, CreatedStep
  <2>4. ASSUME NEW p \in Publishers, CardSent(p) PROVE Inv'
    BY <2>4, SentStep
  <2>5. ASSUME NEW p \in Publishers, NEW kind, CardFails(p, kind) PROVE Inv'
    BY <2>5, CardFailsStep
  <2>6. ASSUME NEW p \in Publishers, UpdateReturns(p) PROVE Inv'
    BY <2>6, UpdatedStep
  <2>7. ASSUME NEW p \in Publishers, CloseReturns(p) PROVE Inv'
    BY <2>7, ClosedStep
  <2>8. ASSUME NEW p \in Publishers, CallFails(p) PROVE Inv'
    BY <2>8, CallFailsStep
  <2>9. ASSUME NEW p \in Publishers, TextSent(p) \/ TextFails(p) PROVE Inv'
    BY <2>9, TextSentStep, TextFailsStep
  <2> QED BY <1>2, <2>1, <2>2, <2>3, <2>4, <2>5, <2>6, <2>7, <2>8, <2>9, StepKinds
<1> QED BY <1>1, <1>2

LEMMA Invariant == Spec => []Inv
<1>1. Init => Inv
  BY InitInv
<1>2. Inv /\ [Next]_vars => Inv'
  BY InvStep
<1> QED BY <1>1, <1>2, PTL DEF Spec

----------------------------------------------------------------------------
(* What the invariant says.                                                *)

\* Whatever updates, /stop and the owner's answer overlap and whatever calls to
\* Feishu are refused or fail, a run whose last view the sink has published shows
\* it, on a card that was sent or in a text message, unless a text was lost.
THEOREM LastViewShown == Spec => []LastViewIsShown
<1>1. Inv => LastViewIsShown
  BY DEF Inv
<1> QED BY <1>1, Invariant, PTL

\* The owner of a paused run that the sink shows in text messages has been sent
\* the request: a request is published once and before anything can answer it.
THEOREM RequestSent == Spec => []TextRunsShowRequest
<1>1. Inv => TextRunsShowRequest
  <2> SUFFICES ASSUME Inv, run \in textRuns, run \notin textFailed, pending, Quiet
               PROVE  <<run, "pending">> \in texts
    BY DEF TextRunsShowRequest
  <2>1. call["consumer"].pc = "idle"
    BY DEF Quiet, Publishers, Idle
  <2> QED BY <2>1 DEF Inv, PendingInv
<1> QED BY <1>1, Invariant, PTL

\* No card of a run that is over is left streaming when nothing is under way
\* about it, unless its owner was told the end in a text message.
THEOREM FinishedCardsClosed == Spec => []FinishedCardsAreClosed
<1>1. Inv => FinishedCardsAreClosed
  <2> SUFFICES ASSUME Inv, Quiet, NEW c \in CardIds,
                      cards[c].sent, cards[c].run \in over, cards[c].run \notin textFailed,
                      cards[c].streaming, <<cards[c].run, "final">> \notin texts
               PROVE  FALSE
    BY DEF FinishedCardsAreClosed
  <2>1. \A p \in Publishers : ~OnCard(p)
    BY DEF Quiet, Idle, OnCard
  <2>2. ~Told(cards[c].run)
    BY DEF Told
  <2> QED BY <2>1, <2>2 DEF Inv, StreamingInv
<1> QED BY <1>1, Invariant, PTL

\* Feishu takes the updates of a card in the order of their numbers, and that of
\* an earlier view which a last view overtook has too low a number: a card that
\* shows the end of its run goes on showing it.
THEOREM LastViewKept == Spec => LastViewStays
<1> DEFINE A == \A c \in CardIds : cards[c].view = "final" => cards'[c].view = "final"
<1>1. Inv /\ [Next]_vars => [A]_vars
  <2> SUFFICES ASSUME Inv, Next PROVE A
    OBVIOUS
  <2>1. UNCHANGED cards => A
    OBVIOUS
  <2>2. ASSUME NEW p \in Publishers, Evolves(p) PROVE A
    BY <2>2 DEF Evolves, Final
  <2>3. CASE StartRun \/ Stop \/ Elapse
    BY <2>1, <2>3 DEF StartRun, Stop, Elapse, feishuVars
  <2>4. ASSUME NEW p \in Publishers, NEW view \in Views, Publishes(p, view) PROVE A
    <3>1. publish(p, view)
      BY <2>4 DEF Publishes, PublishEvent, PublishPending, PublishFinal, Answer, StopPublishes
    <3> QED BY <2>1, <3>1 DEF publish, feishuVars
  <2>5. ASSUME NEW p \in Publishers, CardCreated(p) PROVE A
    BY <2>5, CreatedKeepsTypes DEF Inv
  <2>6. ASSUME NEW p \in Publishers, CardSent(p) \/ UpdateReturns(p) \/ CloseReturns(p) \/ CallFails(p) PROVE A
    BY <2>2, <2>6, SentStep, UpdatedStep, ClosedStep, CallFailsStep
  <2>7. ASSUME NEW p \in Publishers, TextSent(p) \/ TextFails(p) \/ \E kind \in AllFaults : CardFails(p, kind)
        PROVE  A
    BY <2>1, <2>7 DEF TextSent, TextFails, CardFails, feishuVars
  <2> HIDE DEF A
  <2> QED BY <2>3, <2>4, <2>5, <2>6, <2>7, StepKinds
<1>2. [][A]_vars => LastViewStays
  BY DEF LastViewStays
<1> HIDE DEF A
<1> QED BY <1>1, <1>2, Invariant, PTL DEF Spec

=============================================================================
