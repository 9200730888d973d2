--------------------------- MODULE MessageIntake ---------------------------
(***************************************************************************)
(* How the messages of the private chats get to the use cases:             *)
(* FeishuGateway of c_auto_bridge/feishu/gateway.py and                    *)
(* FeishuPrivateChatAdapter.handle_message of                              *)
(* feishu/private_chat_adapter.py with its attachment intake.              *)
(*                                                                         *)
(* Two threads take messages in: that of the websocket client, which       *)
(* Feishu pushes them to, and the loop's, where every reconnection starts  *)
(* a backfill that reads the recent messages of the known chats.  They     *)
(* share the set of the ids already taken, without a lock.  What they take *)
(* is submitted to the loop.                                               *)
(*                                                                         *)
(* A message is its number in the order of creation.                       *)
(***************************************************************************)
EXTENDS Naturals, Sequences, FiniteSetsExt, SequencesExt

CONSTANTS
  MaxChats,    \* bound: private chats with the bot
  MaxMessages, \* bound: messages in them
  PageSize,    \* messages on a page of a listing
  Faults,      \* what may happen besides messages
  MaxFaults    \* bound: how often it does

AllFaults == {"disconnect", "redeliver", "submit", "list", "token", "download", "crash", "age", "enter"}
ASSUME MessageIntakeAssumption ==
  /\ MaxChats \in Nat /\ MaxMessages \in Nat /\ PageSize \in Nat \ {0}
  /\ MaxFaults \in Nat /\ Faults \subseteq AllFaults

Chats == 1 .. MaxChats
Fills == 1 .. MaxFaults
NoMessage == 0
NoChat == 0

\* audio, stickers and the like are "other"; parse_message_content raises for
\* an unreadable one.
Kinds == {"text", "attachment", "other", "unreadable"}
BackfillKinds == {"text", "attachment", "unreadable"}

VARIABLES
  \* Feishu: the messages, how many of them are older than the lookback, whether
  \* the websocket is up, and what is being pushed over it
  history, aged, connected, pushes, \* "starting": not yet connected
  \* the gateway; taking is the message whose id the websocket's thread has checked
  seen,  \* _seen_message_ids
  known, \* _known_private_chat_ids
  taking,
  fills, \* the backfills, one for each reconnection
  \* the loop: what has been submitted to it, messages whose attachments are
  \* being downloaded, and what the use cases have been handed
  submitted, downloading, handled,
  \* history: lives of the process, what has happened and how often
  life, happened, faults

feishuVars == <<history, aged, connected, pushes>>
gatewayVars == <<seen, known, taking, fills>>
loopVars == <<submitted, downloading, handled>>
faultVars == <<life, happened, faults>>
vars == <<feishuVars, gatewayVars, loopVars, faultVars>>

Messages == 1 .. Len(history)
Deliveries == [message : Messages, via : {"websocket", "backfill"}, life : Nat]

\* A backfill: the chats left and those it started with, those whose listing was
\* cut short, the messages it asks for, the last one listed, the items left of
\* the page it has in hand, and whether the id of the first of them has been
\* checked.  Chats are gone through in the order of their ids, items in that of
\* their creation.
NoFill == [pc |-> "none", left |-> {}, chats |-> {}, cut |-> {}, after |-> 0, upTo |-> 0, at |-> 0,
           items |-> {}, checked |-> FALSE]

TypeOK ==
  /\ history \in Seq([chat : Chats, author : {"owner", "bot"}, kind : Kinds])
  /\ aged \in 0 .. Len(history) /\ connected \in {"up", "down", "starting"} /\ pushes \in Seq(Messages)
  /\ seen \subseteq Messages /\ known \subseteq Chats /\ taking \in {NoMessage} \union Messages
  /\ fills \in [Fills ->
       [pc : {"none", "scheduled", "listing", "page", "done", "failed"},
        left : SUBSET Chats, chats : SUBSET Chats, cut : SUBSET Chats,
        after : 0 .. Len(history), upTo : 0 .. Len(history), at : 0 .. Len(history), items : SUBSET Messages, checked : BOOLEAN]]
  /\ submitted \in Seq(Deliveries) /\ downloading \subseteq Deliveries
  /\ handled \in Seq(Deliveries)
  /\ life \in Nat /\ happened \subseteq Faults /\ faults \in 0 .. MaxFaults

Init ==
  /\ history = <<>> /\ aged = 0 /\ connected = "up" /\ pushes = <<>>
  /\ seen = {} /\ known = {} /\ taking = NoMessage /\ fills = [b \in Fills |-> NoFill]
  /\ submitted = <<>> /\ downloading = {} /\ handled = <<>>
  /\ life = 1 /\ happened = {} /\ faults = 0

Fault(kind) ==
  /\ kind \in Faults /\ faults < MaxFaults
  /\ faults' = faults + 1 /\ happened' = happened \union {kind}
  /\ UNCHANGED life

Delivery(m, via) == [message |-> m, via |-> via, life |-> life]

----------------------------------------------------------------------------
\* Feishu, which is not part of the repository.

\* A message is written, by the owner or by the bot itself (send_text).  The
\* owner's are pushed over the websocket if that is up.
Post(chat, author, kind) ==
  /\ Len(history) < MaxMessages
  /\ author = "bot" => kind = "text" /\ chat \in known
  /\ history' = Append(history, [chat |-> chat, author |-> author, kind |-> kind])
  /\ pushes' = IF connected = "up" /\ author = "owner" THEN Append(pushes, Len(history')) ELSE pushes
  /\ UNCHANGED <<aged, connected, gatewayVars, loopVars, faultVars>>

Redeliver ==
  /\ connected = "up" /\ Fault("redeliver")
  /\ \E m \in Messages : history[m].author = "owner" /\ pushes' = Append(pushes, m)
  /\ UNCHANGED <<history, aged, connected, gatewayVars, loopVars>>

\* Messages under way are lost with the connection.
Disconnect ==
  /\ connected = "up" /\ Fault("disconnect")
  /\ connected' = "down" /\ pushes' = <<>>
  /\ UNCHANGED <<history, aged, gatewayVars, loopVars>>

\* The lookback of a backfill begins later.
Age ==
  /\ aged < Len(history) /\ Fault("age")
  /\ aged' \in aged + 1 .. Len(history)
  /\ UNCHANGED <<history, connected, pushes, gatewayVars, loopVars>>

----------------------------------------------------------------------------
\* The websocket's thread.

\* Mutant: a chat has to be known already.
OnMessage_Known(m) ==
  /\ taking' = IF m \in seen \/ history[m].chat \notin known \/ history[m].kind = "unreadable"
                 THEN NoMessage ELSE m
  /\ UNCHANGED known

\* on_message up to the end of its parsing: a message whose id has been seen is
\* ignored, and one that is unreadable raises.
OnMessage(m) ==
  /\ taking' = IF m \in seen \/ history[m].kind = "unreadable" THEN NoMessage ELSE m
  /\ known' = IF m \in seen THEN known ELSE known \union {history[m].chat}

OnMessageChecks ==
  /\ pushes # <<>> /\ taking = NoMessage
  /\ pushes' = Tail(pushes)
  /\ OnMessage(Head(pushes))
  /\ UNCHANGED <<history, aged, connected, seen, fills, loopVars, faultVars>>

\* The id is added and the handler submitted to the loop.
OnMessageSubmits ==
  /\ taking # NoMessage
  /\ seen' = seen \union {taking}
  /\ submitted' = Append(submitted, Delivery(taking, "websocket"))
  /\ taking' = NoMessage
  /\ UNCHANGED <<feishuVars, known, fills, downloading, handled, faultVars>>

\* A loop that does not run takes nothing: the id is discarded again.
OnMessageFails ==
  /\ taking # NoMessage /\ Fault("submit")
  /\ seen' = seen \ {taking}
  /\ taking' = NoMessage
  /\ UNCHANGED <<feishuVars, known, fills, loopVars>>

\* Mutant: an event that names no chat is noted like any other.
on_bot_p2p_chat_entered_Any(chat) ==
  /\ connected = "up" /\ Fault("enter")
  /\ known' = known \union {chat}
  /\ UNCHANGED <<feishuVars, seen, taking, fills, loopVars>>

\* The owner opens a chat, which is known from then on; the event may not name it.
on_bot_p2p_chat_entered(chat) ==
  /\ connected = "up" /\ Fault("enter")
  /\ known' = known \union ({chat} \ {NoChat})
  /\ UNCHANGED <<feishuVars, seen, taking, fills, loopVars>>

\* The websocket is up again, and a backfill is submitted.
_on_reconnected ==
  /\ connected = "down"
  /\ connected' = "up"
  /\ \E b \in Fills :
       /\ fills[b].pc = "none" /\ \A a \in 1 .. b - 1 : fills[a].pc # "none"
       /\ fills' = [fills EXCEPT ![b].pc = "scheduled"]
  /\ UNCHANGED <<history, aged, pushes, seen, known, taking, loopVars, faultVars>>

\* The first connection of a process that has just started is no reconnection.
Connects ==
  /\ connected = "starting"
  /\ connected' = "up"
  /\ UNCHANGED <<history, aged, pushes, gatewayVars, loopVars, faultVars>>

----------------------------------------------------------------------------
\* The loop: backfills.

\* A backfill that has a page in hand awaits nothing until it has done with it.
LoopIsFree == \A b \in Fills : fills[b].pc # "page"

\* backfill_recent_private_messages: the known chats, and the lookback from now.
\* Its end is cut down to a whole second: what was written since is not asked for.
BackfillStarts(b) ==
  /\ fills[b].pc = "scheduled" /\ LoopIsFree
  /\ \E upTo \in aged .. Len(history) :
       fills' = [fills EXCEPT ![b] =
         [@ EXCEPT !.pc = IF known = {} THEN "done" ELSE "listing",
                   !.left = known, !.chats = known,
                   !.after = aged, !.upTo = upTo, !.at = aged]]
  /\ UNCHANGED <<feishuVars, seen, known, taking, loopVars, faultVars>>

\* What a listing still has to give of the chat that backfill b is at.
Listing(b) ==
  {m \in fills[b].at + 1 .. fills[b].upTo : history[m].chat = Min(fills[b].left)}

\* Its first messages, as many as a page has.
Page(listing) == {m \in listing : Cardinality({n \in listing : n <= m}) <= PageSize}

\* A page is over: the next one, the next chat, or the end.
NextPage(fill, hasMore) ==
  LET left == IF hasMore THEN fill.left ELSE fill.left \ {Min(fill.left)} IN
  [fill EXCEPT !.pc = IF left = {} THEN "done" ELSE "listing",
               !.left = left, !.at = IF hasMore THEN @ ELSE fill.after, !.checked = FALSE]

\* Mutant: every chat has one page.
HasMore_Never(b) == FALSE

\* There is more, and the page says where.
HasMore(b) == Listing(b) # {} /\ Min(fills[b].left) \notin fills[b].cut

BackfillLists(b) ==
  LET items == Page(Listing(b)) IN
  /\ fills[b].pc = "listing" /\ LoopIsFree
  /\ fills' = [fills EXCEPT ![b] =
       IF items = {} THEN NextPage(@, FALSE)
                     ELSE [@ EXCEPT !.pc = "page", !.items = items, !.at = Max(items)]]
  /\ UNCHANGED <<feishuVars, seen, known, taking, loopVars, faultVars>>

\* A page that has more after it but no page_token: there is a warning, and the
\* rest of the chat is given up when the page is done with.
BackfillListsCut(b) ==
  LET items == Page(Listing(b)) IN
  /\ fills[b].pc = "listing" /\ LoopIsFree /\ items # Listing(b) /\ Fault("token")
  /\ fills' = [fills EXCEPT ![b] =
       [@ EXCEPT !.pc = "page", !.items = items, !.at = Max(items),
                 !.cut = fills[b].cut \union {Min(fills[b].left)}]]
  /\ UNCHANGED <<feishuVars, seen, known, taking, loopVars>>

\* A listing that fails ends the backfill, with the chats it has not got to.
BackfillListFails(b) ==
  /\ fills[b].pc = "listing" /\ LoopIsFree /\ Fault("list")
  /\ fills' = [fills EXCEPT ![b].pc = "failed"]
  /\ UNCHANGED <<feishuVars, seen, known, taking, loopVars>>

\* Mutant: the ids already taken are not looked at.
Takes_Any(m) == history[m].kind \in BackfillKinds \ {"unreadable"}

\* _submit_history_message takes messages by anyone, of three types.
Takes(m) == m \notin seen /\ history[m].kind \in BackfillKinds \ {"unreadable"}

\* The item that backfill b is at, and what is left to do when it is done with.
Item(b) == Min(fills[b].items)
ItemDone(b) ==
  LET rest == fills[b].items \ {Item(b)} IN
  fills' = [fills EXCEPT ![b] =
    IF rest # {} THEN [@ EXCEPT !.items = rest, !.checked = FALSE]
                 ELSE NextPage([@ EXCEPT !.items = {}], HasMore(b))]

BackfillChecks(b) ==
  /\ fills[b].pc = "page" /\ ~fills[b].checked
  /\ IF Takes(Item(b)) THEN fills' = [fills EXCEPT ![b].checked = TRUE] ELSE ItemDone(b)
  /\ UNCHANGED <<feishuVars, seen, known, taking, loopVars, faultVars>>

BackfillSubmits(b) ==
  LET m == Item(b) IN
  /\ fills[b].pc = "page" /\ fills[b].checked
  /\ known' = known \union {history[m].chat}
  /\ seen' = seen \union {m}
  /\ submitted' = Append(submitted, Delivery(m, "backfill"))
  /\ ItemDone(b)
  /\ UNCHANGED <<feishuVars, taking, downloading, handled, faultVars>>

----------------------------------------------------------------------------
\* The loop: handle_message.

\* Mutant: the attachment intake yields for a message without attachments, too.
Downloads_Always(m) == TRUE

Downloads(m) == history[m].kind = "attachment"

\* The next coroutine starts.  Attachments are downloaded before the use cases
\* see their message.
HandlerStarts ==
  /\ LoopIsFree /\ submitted # <<>>
  /\ submitted' = Tail(submitted)
  /\ IF Downloads(Head(submitted).message)
       THEN downloading' = downloading \union {Head(submitted)} /\ UNCHANGED handled
       ELSE handled' = Append(handled, Head(submitted)) /\ UNCHANGED downloading
  /\ UNCHANGED <<feishuVars, gatewayVars, faultVars>>

Downloaded ==
  /\ LoopIsFree
  /\ \E d \in downloading : downloading' = downloading \ {d} /\ handled' = Append(handled, d)
  /\ UNCHANGED <<feishuVars, gatewayVars, submitted, faultVars>>

\* A failed download is logged, and the message is lost.
DownloadFails ==
  /\ LoopIsFree /\ Fault("download")
  /\ \E d \in downloading : downloading' = downloading \ {d}
  /\ UNCHANGED <<feishuVars, gatewayVars, submitted, handled>>

\* The process ends and is started again.  The ids are forgotten; the chats that
\* have sessions in the store, those of handled messages, are known.
Crash ==
  /\ "crash" \in Faults /\ faults < MaxFaults
  /\ faults' = faults + 1 /\ happened' = happened \union {"crash"} /\ life' = life + 1
  /\ connected' = "starting" /\ pushes' = <<>>
  /\ seen' = {} /\ taking' = NoMessage
  /\ known' = {history[handled[i].message].chat : i \in DOMAIN handled}
  /\ fills' = [b \in Fills |-> IF fills[b].pc \in {"none", "done"} THEN fills[b]
                               ELSE [NoFill EXCEPT !.pc = "failed"]]
  /\ submitted' = <<>> /\ downloading' = {}
  /\ UNCHANGED <<history, aged, handled>>

----------------------------------------------------------------------------
Websocket == OnMessageChecks \/ OnMessageSubmits
BackfillStep(b) ==
  BackfillStarts(b) \/ BackfillLists(b) \/ BackfillChecks(b) \/ BackfillSubmits(b)
Loop == HandlerStarts \/ Downloaded \/ \E b \in Fills : BackfillStep(b)

Next ==
  \/ \E chat \in Chats, author \in {"owner", "bot"}, kind \in Kinds : Post(chat, author, kind)
  \/ \E chat \in Chats \union {NoChat} : on_bot_p2p_chat_entered(chat)
  \/ Redeliver \/ Disconnect \/ Age \/ Crash \/ _on_reconnected \/ Connects
  \/ Websocket \/ OnMessageFails
  \/ Loop \/ DownloadFails \/ \E b \in Fills : BackfillListFails(b) \/ BackfillListsCut(b)

Spec == Init /\ [][Next]_vars

\* The websocket's thread goes on with what it has been pushed, and the loop
\* with each backfill, its coroutines and their downloads.
FairSpec ==
  /\ Spec
  /\ WF_vars(Websocket) /\ WF_vars(HandlerStarts) /\ WF_vars(Downloaded)
  /\ \A b \in Fills : WF_vars(BackfillStep(b))

----------------------------------------------------------------------------
\* Properties.

\* In a life of the process no thread hands on a message twice, whatever Feishu
\* pushes again and however many backfills overlap; only the two threads
\* together may, when both have checked the id before either adds it.  A submit
\* that raises discards the id even if a backfill has added it meanwhile, and
\* the next backfill takes the message again.
HandedOnOncePerThread ==
  "submit" \notin happened =>
    \A i, j \in DOMAIN handled :
      i < j /\ handled[i].message = handled[j].message /\ handled[i].life = handled[j].life
        => handled[i].via # handled[j].via

\* A backfill that ends without an error has left out no readable message of the
\* time it asked for in a chat known when it started, unless a page of that very
\* chat did not say how to go on.
BackfillLeavesNoneOut ==
  [][\A b \in Fills :
       fills[b].pc # "done" /\ fills'[b].pc = "done" /\ "submit" \notin happened =>
         \A m \in fills[b].after + 1 .. fills[b].upTo :
           history[m].chat \in fills[b].chats \ fills[b].cut /\ history[m].kind \in {"text", "attachment"}
             => m \in seen']_vars

\* Texts that come over the websocket are handed on in the order they were
\* written, also when a message with an attachment is between them.
TextsStayInOrder ==
  \A i, j \in DOMAIN handled :
    i < j /\ handled[i].via = "websocket" /\ handled[j].via = "websocket"
        /\ history[handled[i].message].kind = "text" /\ history[handled[j].message].kind = "text"
        /\ happened \intersect {"disconnect", "submit", "crash"} = {}
      => handled[i].message < handled[j].message

Handled(m) == \E i \in DOMAIN handled : handled[i].message = m
Broken == happened \intersect {"submit", "crash", "download"} # {}

\* A readable message that is pushed is handed on in the end, unless the
\* connection is lost with it, the process or its loop ends or a download fails;
\* and so is one whose id a thread has checked or added, connected or not: the
\* websocket's thread and an overlapping backfill do not leave it to each other.
PushedMessagesAreHandled ==
  \A m \in 1 .. MaxMessages :
    /\ (\E i \in DOMAIN pushes : pushes[i] = m /\ history[m].kind # "unreadable")
         ~> Handled(m) \/ connected # "up" \/ Broken
    /\ (taking = m \/ m \in seen) ~> Handled(m) \/ Broken

\* PRD: the owner's messages start Agent Turns; what the bot has written is
\* never taken for a message to it.
OnlyOwnersMessages ==
  \A i \in DOMAIN handled : history[handled[i].message].author = "owner"

=============================================================================
