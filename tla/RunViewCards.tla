---------------------------- MODULE RunViewCards ----------------------------
(***************************************************************************)
(* How the Run Views of a chat get to its owner: FeishuRunViewSink of      *)
(* c_auto_bridge/feishu/run_view_sink.py, which keeps the card of each     *)
(* run, and StreamCard of feishu/stream_card.py, which numbers and         *)
(* throttles the updates of a card and falls back to text messages.        *)
(*                                                                         *)
(* Every call to Feishu is awaited.  The tasks that publish are those of   *)
(* core/run_controller.py: the consumer of the agent's events, the task    *)
(* that answers a request and then consumes what follows, and /stop.  Of a *)
(* run view only what kind it is matters here.                             *)
(***************************************************************************)
EXTENDS Naturals, Sequences, FiniteSets

CONSTANTS
  MaxRuns,   \* bound: runs of the chat, one after the other
  MaxEvents, \* bound: views of a run other than the first, its request and the last
  Faults,    \* what may go wrong with calls to Feishu
  MaxFaults  \* bound: how often it does

AllFaults == {"create", "permission", "update", "reply", "text"}
ASSUME RunViewCardsAssumption ==
  /\ MaxRuns \in Nat \ {0} /\ MaxEvents \in Nat /\ MaxFaults \in Nat
  /\ Faults \subseteq AllFaults

Runs == 1 .. MaxRuns
Publishers == {"consumer", "answer", "stop"}
Views == {"initial", "event", "pending", "resumed", "final"}
NoCard == 0
Idle == [pc |-> "idle", view |-> "initial", card |-> NoCard, sequence |-> 0, aged |-> FALSE]

VARIABLES
  \* the run controller: the current run, the task that reads its stream, whether
  \* its view has a request, whether it is being stopped, how many views it had
  run, reader, asked, pending, stopping, events,
  \* FeishuRunViewSink
  cardOf,       \* _cards
  textRuns,     \* _text_fallback_runs
  pendingTexts, \* _text_fallback_pending_ids; a run has one request here
  disabled,     \* _card_create_disabled_reason
  \* StreamCard, for each card
  sequence, recent, \* _sequence; whether _last_update is less than the interval ago
  closed,           \* _closed
  \* the publish that each task is in: what it awaits, the view, the card, the
  \* sequence number it read, and whether the interval has passed meanwhile
  call,
  \* Feishu: the cards and the text messages
  cards, texts,
  \* history: the runs a last view of which has been published, those a text
  \* message of which could not be sent, and the number of faults
  over, textFailed, faults

controllerVars == <<run, reader, asked, pending, stopping, events>>
sinkVars == <<cardOf, textRuns, pendingTexts, disabled>>
streamVars == <<sequence, recent, closed>>
feishuVars == <<cards, texts>>
history == <<over, textFailed, faults>>
vars == <<controllerVars, sinkVars, streamVars, call, feishuVars, history>>

CardIds == 1 .. Len(cards)
Final(view) == view = "final"

TypeOK ==
  /\ run \in {0} \union Runs /\ reader \in {"none", "consumer", "answer"} /\ events \in 0 .. MaxEvents
  /\ asked \in BOOLEAN /\ pending \in BOOLEAN
  /\ stopping \in {"no", "paused", "running", "done"}
  /\ cards \in Seq([run : Runs, view : Views, sequence : Nat, sent : BOOLEAN, streaming : BOOLEAN])
  /\ cardOf \in [Runs -> {NoCard} \union CardIds]
  /\ textRuns \subseteq Runs /\ pendingTexts \subseteq Runs /\ disabled \in BOOLEAN
  /\ sequence \in Seq(Nat) /\ recent \in Seq(BOOLEAN)
  /\ Len(sequence) = Len(cards) /\ Len(recent) = Len(cards)
  /\ closed \subseteq CardIds
  /\ call \in [Publishers ->
       [pc : {"idle", "create", "send", "update", "close", "finalText", "text"},
        view : Views, card : {NoCard} \union CardIds, sequence : Nat, aged : BOOLEAN]]
  /\ texts \subseteq Runs \X Views
  /\ over \subseteq Runs /\ textFailed \subseteq Runs /\ faults \in 0 .. MaxFaults

Init ==
  /\ run = 0 /\ reader = "none" /\ events = 0
  /\ asked = FALSE /\ pending = FALSE /\ stopping = "no"
  /\ cardOf = [r \in Runs |-> NoCard] /\ textRuns = {} /\ pendingTexts = {} /\ disabled = FALSE
  /\ sequence = <<>> /\ recent = <<>> /\ closed = {}
  /\ call = [p \in Publishers |-> Idle]
  /\ cards = <<>> /\ texts = {}
  /\ over = {} /\ textFailed = {} /\ faults = 0

Fault(kind) == kind \in Faults /\ faults < MaxFaults /\ faults' = faults + 1
Quiet == \A p \in Publishers : call[p] = Idle

----------------------------------------------------------------------------
\* The sink and the card, from the start of a publish to its first await and
\* from one await to the next.

Await(p, pc, view, c, s) ==
  call' = [call EXCEPT ![p] = [pc |-> pc, view |-> view, card |-> c, sequence |-> s, aged |-> FALSE]]

\* publish returns.
Return(p, view) ==
  /\ call' = [call EXCEPT ![p] = Idle]
  /\ over' = IF Final(view) THEN over \union {run} ELSE over

\* Mutant: a run that is shown in text messages sends its last view only.
_publish_text_fallback_LastOnly(p, view, first) ==
  IF first \/ run \notin textRuns \/ Final(view)
    THEN /\ textRuns' = textRuns \union {run}
         /\ Await(p, "text", view, NoCard, 0)
         /\ UNCHANGED <<pendingTexts, over>>
    ELSE Return(p, view) /\ UNCHANGED <<textRuns, pendingTexts>>

\* The first view, the request, once, and the last view are sent as text.
_publish_text_fallback(p, view, first) ==
  LET opens == first \/ run \notin textRuns
      asks == ~opens /\ view = "pending" /\ run \notin pendingTexts IN
  /\ textRuns' = IF opens THEN textRuns \union {run} ELSE textRuns
  /\ pendingTexts' = IF asks THEN pendingTexts \union {run} ELSE pendingTexts
  /\ IF opens \/ asks \/ Final(view)
       THEN Await(p, "text", view, NoCard, 0) /\ UNCHANGED over
       ELSE Return(p, view)

\* Mutant: the last view is throttled like any other.
Throttled_Always(c, view) == recent[c]

Throttled(c, view) == ~Final(view) /\ recent[c]

\* StreamCard.update up to its first await.  A view that is not written is
\* dropped; after a last view the sink forgets the card all the same.
update(p, c, view) ==
  IF c \in closed \/ Throttled(c, view)
    THEN /\ Return(p, view)
         /\ cardOf' = [cardOf EXCEPT ![run] = IF Final(view) THEN NoCard ELSE @]
    ELSE /\ Await(p, "update", view, c, sequence[c] + 1)
         /\ UNCHANGED <<cardOf, over>>

publish(p, view) ==
  /\ call[p] = Idle
  /\ \/ /\ cardOf[run] = NoCard /\ (disabled \/ run \in textRuns)
        /\ _publish_text_fallback(p, view, FALSE)
        /\ UNCHANGED cardOf
     \/ /\ cardOf[run] = NoCard /\ ~disabled /\ run \notin textRuns
        /\ Await(p, "create", view, NoCard, 0)
        /\ UNCHANGED <<cardOf, textRuns, pendingTexts, over>>
     \/ /\ cardOf[run] # NoCard
        /\ update(p, cardOf[run], view)
        /\ UNCHANGED <<textRuns, pendingTexts>>
  /\ UNCHANGED <<disabled, streamVars, feishuVars, textFailed, faults>>

\* Mutant: the time of a new card's first view is not noted.
CardCreated_NoTime(p) ==
  /\ call[p].pc = "create"
  /\ cards' = Append(cards, [run |-> run, view |-> call[p].view, sequence |-> 1,
                             sent |-> FALSE, streaming |-> TRUE])
  /\ sequence' = Append(sequence, 0)
  /\ Await(p, "send", call[p].view, Len(cards'), 0)
  /\ UNCHANGED <<controllerVars, sinkVars, recent, closed, texts, history>>

CardCreated(p) ==
  /\ call[p].pc = "create"
  /\ cards' = Append(cards, [run |-> run, view |-> call[p].view, sequence |-> 1,
                             sent |-> FALSE, streaming |-> TRUE])
  /\ sequence' = Append(sequence, 0) /\ recent' = Append(recent, FALSE)
  /\ Await(p, "send", call[p].view, Len(cards'), 0)
  /\ UNCHANGED <<controllerVars, sinkVars, closed, texts, history>>

\* The card has been sent to the chat: the sink remembers it, and goes on with a
\* last view at once.
CardSent(p) ==
  LET c == call[p].card IN
  /\ call[p].pc = "send"
  /\ cards' = [cards EXCEPT ![c].sent = TRUE]
  /\ sequence' = [sequence EXCEPT ![c] = 1]
  /\ recent' = [recent EXCEPT ![c] = TRUE]
  /\ cardOf' = [cardOf EXCEPT ![run] = c]
  /\ IF Final(call[p].view) THEN Await(p, "update", call[p].view, c, 2) /\ UNCHANGED over
                            ELSE Return(p, call[p].view)
  /\ UNCHANGED <<controllerVars, textRuns, pendingTexts, disabled, closed, texts, textFailed, faults>>

\* Creating or sending the card fails, perhaps for want of a permission, after
\* which no more cards are tried.
CardFails(p, kind) ==
  /\ call[p].pc \in {"create", "send"} /\ Fault(kind)
  /\ disabled' = (disabled \/ kind = "permission")
  /\ _publish_text_fallback(p, call[p].view, TRUE)
  /\ UNCHANGED <<controllerVars, cardOf, streamVars, feishuVars, textFailed>>

\* Feishu takes an update only with a sequence number above the card's.
Accepted(c, s) == s > cards[c].sequence

\* Mutant: the card of a run that has ended is left streaming.
UpdateReturns_Open(p) ==
  LET c == call[p].card IN
  /\ call[p].pc = "update" /\ Accepted(c, call[p].sequence)
  /\ cards' = [cards EXCEPT ![c].sequence = call[p].sequence, ![c].view = call[p].view]
  /\ sequence' = [sequence EXCEPT ![c] = call[p].sequence]
  /\ recent' = [recent EXCEPT ![c] = ~call[p].aged]
  /\ Return(p, call[p].view)
  /\ UNCHANGED <<controllerVars, sinkVars, closed, texts, textFailed, faults>>

\* update_card returns: the number and the time noted before it are stored.
UpdateReturns(p) ==
  LET c == call[p].card IN
  /\ call[p].pc = "update" /\ Accepted(c, call[p].sequence)
  /\ cards' = [cards EXCEPT ![c].sequence = call[p].sequence, ![c].view = call[p].view]
  /\ sequence' = [sequence EXCEPT ![c] = call[p].sequence]
  /\ recent' = [recent EXCEPT ![c] = ~call[p].aged]
  /\ IF Final(call[p].view) THEN Await(p, "close", call[p].view, c, call[p].sequence + 1) /\ UNCHANGED over
                            ELSE Return(p, call[p].view)
  /\ UNCHANGED <<controllerVars, sinkVars, closed, texts, textFailed, faults>>

CloseReturns(p) ==
  LET c == call[p].card IN
  /\ call[p].pc = "close" /\ Accepted(c, call[p].sequence)
  /\ cards' = [cards EXCEPT ![c].sequence = call[p].sequence, ![c].streaming = FALSE]
  /\ closed' = closed \union {c}
  /\ cardOf' = [cardOf EXCEPT ![run] = NoCard]
  /\ Return(p, call[p].view)
  /\ UNCHANGED <<controllerVars, textRuns, pendingTexts, disabled, sequence, recent, texts,
                 textFailed, faults>>

\* Mutant: update_card's failure is the end of a last view, too.
Raises_Silently(p) == Return(p, call[p].view)

\* An exception in StreamCard.update: a last view is sent as text, any other
\* is lost, for the sink ignores it.
Raises(p) ==
  IF Final(call[p].view)
    THEN Await(p, "finalText", call[p].view, call[p].card, 0) /\ UNCHANGED over
    ELSE Return(p, call[p].view)

\* Feishu refuses the number, or the call fails, or only its reply is lost.
CallFails(p) ==
  LET c == call[p].card
      done == [cards EXCEPT ![c].sequence = call[p].sequence,
                            ![c].view = IF call[p].pc = "update" THEN call[p].view ELSE @,
                            ![c].streaming = @ /\ call[p].pc = "update"] IN
  /\ call[p].pc \in {"update", "close"}
  /\ \/ ~Accepted(c, call[p].sequence) /\ UNCHANGED <<cards, faults>>
     \/ Fault("update") /\ UNCHANGED cards
     \/ Accepted(c, call[p].sequence) /\ Fault("reply") /\ cards' = done
  /\ Raises(p)
  /\ UNCHANGED <<controllerVars, sinkVars, streamVars, texts, textFailed>>

\* send_text returns, to the sink or to StreamCard.update.
TextSent(p) ==
  /\ call[p].pc \in {"text", "finalText"}
  /\ texts' = texts \union {<<run, call[p].view>>}
  /\ closed' = IF call[p].pc = "finalText" THEN closed \union {call[p].card} ELSE closed
  /\ Return(p, call[p].view)
  /\ UNCHANGED <<controllerVars, sinkVars, sequence, recent, cards, textFailed, faults>>

\* send_text fails: the sink ignores that for a card, and lets the exception
\* end the run controller's task otherwise.
TextFails(p) ==
  /\ call[p].pc \in {"text", "finalText"} /\ Fault("text")
  /\ textFailed' = textFailed \union {run}
  /\ Return(p, IF call[p].pc = "text" THEN "event" ELSE call[p].view)
  /\ reader' = IF call[p].pc = "text" /\ reader = p THEN "none" ELSE reader
  /\ UNCHANGED <<run, asked, pending, stopping, events, sinkVars, streamVars, feishuVars>>

\* The interval passes.
Elapse ==
  /\ \E c \in CardIds : recent[c]
  /\ recent' = [c \in CardIds |-> FALSE]
  /\ call' = [p \in Publishers |-> [call[p] EXCEPT !.aged = call[p].pc = "update"]]
  /\ UNCHANGED <<controllerVars, sinkVars, sequence, closed, feishuVars, history>>

----------------------------------------------------------------------------
\* The run controller's tasks.

\* A run starts with its first view when nobody is busy with the one before it
\* any more; a run whose first view could not be published never existed.
StartRun ==
  /\ run < MaxRuns /\ reader = "none" /\ Quiet
  /\ run = 0 \/ run \in over \/ (run \in textFailed /\ texts \intersect ({run} \X Views) = {})
  /\ run' = run + 1
  /\ reader' = "consumer" /\ events' = 0
  /\ asked' = FALSE /\ pending' = FALSE /\ stopping' = "no"
  /\ \/ disabled /\ textRuns' = textRuns \union {run'} /\ Await("consumer", "text", "initial", NoCard, 0)
     \/ ~disabled /\ UNCHANGED textRuns /\ Await("consumer", "create", "initial", NoCard, 0)
  /\ UNCHANGED <<cardOf, pendingTexts, disabled, streamVars, feishuVars, history>>

Reads(p) == reader = p /\ call[p] = Idle

\* An event of the agent that leaves the run as it is.
PublishEvent(p) ==
  /\ Reads(p) /\ stopping = "no" /\ events < MaxEvents
  /\ events' = events + 1
  /\ publish(p, "event")
  /\ UNCHANGED <<run, reader, asked, pending, stopping>>

\* A request: the run pauses.
PublishPending(p) ==
  /\ Reads(p) /\ stopping = "no" /\ ~asked
  /\ asked' = TRUE /\ pending' = TRUE /\ reader' = "none"
  /\ publish(p, "pending")
  /\ UNCHANGED <<run, stopping, events>>

\* Mutant: the events of a run that is being stopped are shown like any other.
PublishFinal_Any(p) ==
  /\ Reads(p)
  /\ \/ reader' = "none" /\ publish(p, "final")
     \/ stopping # "no" /\ reader' = reader /\ publish(p, "event")
  /\ UNCHANGED <<run, asked, pending, stopping, events>>

\* A terminal event, or any event of a run that is being stopped.
PublishFinal(p) ==
  /\ Reads(p)
  /\ reader' = "none"
  /\ publish(p, "final")
  /\ UNCHANGED <<run, asked, pending, stopping, events>>

\* The agent has taken the owner's answer, perhaps while the request's view is
\* still being published; the answer's task becomes the consumer.
Answer ==
  /\ pending
  /\ pending' = FALSE /\ reader' = "answer"
  /\ publish("answer", "resumed")
  /\ UNCHANGED <<run, asked, stopping, events>>

\* /stop: the agent is told, and of a paused run the last view is published when
\* that has returned, whatever has become of the request.
Stop ==
  /\ stopping = "no" /\ run \notin over /\ (pending \/ reader # "none")
  /\ stopping' = IF pending THEN "paused" ELSE "running"
  /\ UNCHANGED <<run, reader, asked, pending, events, sinkVars, streamVars, call, feishuVars, history>>

StopPublishes ==
  /\ stopping = "paused"
  /\ stopping' = "done" /\ pending' = FALSE
  /\ publish("stop", "final")
  /\ UNCHANGED <<run, reader, asked, events>>

Next ==
  \/ StartRun \/ Answer \/ Stop \/ StopPublishes \/ Elapse
  \/ \E p \in Publishers :
       \/ PublishEvent(p) \/ PublishPending(p) \/ PublishFinal(p)
       \/ CardCreated(p) \/ CardSent(p) \/ CardFails(p, "create") \/ CardFails(p, "permission")
       \/ UpdateReturns(p) \/ CloseReturns(p) \/ CallFails(p) \/ TextSent(p) \/ TextFails(p)

Spec == Init /\ [][Next]_vars

----------------------------------------------------------------------------
\* Properties.

Shows(r, view) ==
  \/ <<r, view>> \in texts
  \/ \E c \in CardIds : cards[c].run = r /\ cards[c].sent /\ cards[c].view = view

\* Whatever overlaps, is refused or fails, a run whose last view has been
\* published shows it, on a card or in a text message, unless a text message
\* could not be sent.
LastViewIsShown == \A r \in over : Shows(r, "final") \/ r \in textFailed

\* A card that shows the last view of its run is never set back to an earlier
\* one by an update that was under way.
LastViewStays ==
  [][\A c \in CardIds : cards[c].view = "final" => cards'[c].view = "final"]_vars

\* In a run that is shown in text messages, a paused owner has been sent the request.
TextRunsShowRequest ==
  run \in textRuns /\ run \notin textFailed /\ pending /\ Quiet => <<run, "pending">> \in texts

\* When all is quiet after the last view of a run, each of its cards has stopped
\* streaming, or the last view was sent as text.
FinishedCardsAreClosed ==
  Quiet => \A c \in CardIds :
    cards[c].sent /\ cards[c].run \in over /\ cards[c].run \notin textFailed
      => ~cards[c].streaming \/ <<cards[c].run, "final">> \in texts

\* PRD: the run view card keeps the pending state readable, so a run that waits
\* for its owner shows the request.
RequestIsShown ==
  pending /\ Quiet /\ faults = 0 => Shows(run, "pending")

\* PRD: use one streaming card.
OneCardPerRun ==
  \A c, d \in CardIds : cards[c].sent /\ cards[d].sent /\ cards[c].run = cards[d].run => c = d

=============================================================================
