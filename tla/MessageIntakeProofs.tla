------------------------ MODULE MessageIntakeProofs ------------------------
(***************************************************************************)
(* MessageIntake, proved for any chats, messages, pages and faults: that   *)
(* no thread hands on a message twice, that texts stay in order, that a    *)
(* backfill which ends has left nothing out, and the types.                *)
(*                                                                         *)
(* What a listing returns and in which order a backfill goes through the   *)
(* chats does not matter for the first two, whose invariant only requires  *)
(* backfills to be records, and sequences to be sequences of what they     *)
(* hold.  The types, and where in the chats a backfill is, come after.     *)
(***************************************************************************)
EXTENDS MessageIntake, SequenceTheorems, FiniteSetTheorems, TLAPS

IsSequence(s) == s \in Seq(Range(s))
Distinct(s) == \A i, j \in DOMAIN s : i # j => s[i] # s[j]

IsFill(f) ==
  f = [pc |-> f.pc, left |-> f.left, chats |-> f.chats, cut |-> f.cut, after |-> f.after,
       upTo |-> f.upTo, at |-> f.at, items |-> f.items, checked |-> f.checked]
FillsFit ==
  /\ DOMAIN fills = Fills /\ fills = [b \in Fills |-> fills[b]]
  /\ \A b \in Fills : IsFill(fills[b]) /\ (fills[b].checked => fills[b].pc = "page")
\* What a backfill does, by itself or because Feishu fails it.
FillActs(b) == BackfillStep(b) \/ BackfillListFails(b) \/ BackfillListsCut(b)
IsDelivery(d) == d = [message |-> d.message, via |-> d.via, life |-> d.life]

\* The deliveries that have been submitted to the loop and not been lost since.
Taken == Range(submitted) \cup downloading \cup Range(handled)

TypeInv ==
  /\ IsSequence(history) /\ IsSequence(pushes) /\ IsSequence(submitted) /\ IsSequence(handled)
  /\ Range(pushes) \subseteq Messages /\ taking \in {NoMessage} \cup Messages
  /\ life \in Nat
  /\ FillsFit
  /\ \A d \in Taken : IsDelivery(d) /\ d.life \in Nat

-----------------------------------------------------------------------------
(* No delivery is made twice: what a thread has checked has not been       *)
(* delivered by it, because whatever has been is among the ids seen.       *)

Apart ==
  /\ Distinct(submitted) /\ Distinct(handled)
  /\ Range(submitted) \cap downloading = {}
  /\ Range(submitted) \cap Range(handled) = {}
  /\ downloading \cap Range(handled) = {}
OfThisLife ==
  /\ \A d \in Range(submitted) \cup downloading : d.life = life
  /\ \A d \in Taken : d.life <= life
TakenIsSeen == \A d \in Taken : d.life = life => d.message \in seen
CheckedIsNew ==
  /\ taking # NoMessage => Delivery(taking, "websocket") \notin Taken
  /\ \A b \in Fills : fills[b].checked =>
       Delivery(Item(b), "backfill") \notin Taken
OnePage == \A a, b \in Fills : fills[a].pc = "page" /\ fills[b].pc = "page" => a = b

Once == Apart /\ OfThisLife /\ TakenIsSeen /\ CheckedIsNew /\ OnePage
OnceInv == "submit" \notin happened => Once

-----------------------------------------------------------------------------
(* Texts stay in order: as long as the connection lasts, every text of the *)
(* owner that is older than one that was taken has been taken before it.   *)

Calm == happened \cap {"disconnect", "submit", "crash"} = {}
OwnerTexts == {n \in Messages : history[n].author = "owner" /\ history[n].kind = "text"}
IsText(d) == d.via = "websocket" /\ history[d.message].kind = "text"
Increasing(s) ==
  \A i, j \in DOMAIN s : i < j /\ IsText(s[i]) /\ IsText(s[j]) => s[i].message < s[j].message

NoBackfill == connected = "up" /\ \A b \in Fills : fills[b].pc = "none"
PushedInOrder ==
  /\ \A i \in DOMAIN pushes : history[pushes[i]].author = "owner"
  /\ \A n \in OwnerTexts : n \in seen \/ n = taking \/ n \in Range(pushes)
  /\ \A i \in DOMAIN pushes : \A n \in OwnerTexts :
       n < pushes[i] => n \in seen \/ n = taking \/ \E j \in DOMAIN pushes : j < i /\ pushes[j] = n
SeenInOrder ==
  /\ seen \subseteq Messages
  /\ \A k \in seen : \A n \in OwnerTexts : n < k => n \in seen
  /\ taking # NoMessage =>
       /\ taking \notin seen /\ history[taking].author = "owner"
       /\ \A n \in OwnerTexts : n < taking => n \in seen
TakenInOrder ==
  /\ \A d \in Taken : d.message \in seen
  /\ \A d \in downloading : history[d.message].kind = "attachment"
  /\ Increasing(submitted) /\ Increasing(handled)
  /\ \A d \in Range(handled), e \in Range(submitted) :
       IsText(d) /\ IsText(e) => d.message < e.message

Order == NoBackfill /\ PushedInOrder /\ SeenInOrder /\ TakenInOrder
OrderInv == Calm => Order

Inv == TypeInv /\ OnceInv /\ OrderInv

-----------------------------------------------------------------------------
(* Sequences. *)

LEMMA NoSequence == IsSequence(<<>>) /\ DOMAIN <<>> = {} /\ Range(<<>>) = {} /\ Distinct(<<>>)
<1>1. DOMAIN <<>> = {}
  BY EmptySeq, LenProperties
<1> QED BY <1>1, EmptySeq DEF IsSequence, Range, Distinct

LEMMA SequenceLength ==
  ASSUME NEW s, IsSequence(s)
  PROVE  Len(s) \in Nat /\ DOMAIN s = 1 .. Len(s) /\ (s = <<>> <=> Len(s) = 0)
BY LenProperties, EmptySeq DEF IsSequence

LEMMA AppendOfSequence ==
  ASSUME NEW s, IsSequence(s), NEW e
  PROVE  /\ IsSequence(Append(s, e)) /\ Len(s) \in Nat
         /\ DOMAIN s = 1 .. Len(s) /\ DOMAIN Append(s, e) = 1 .. Len(s) + 1
         /\ Len(Append(s, e)) = Len(s) + 1
         /\ \A i \in 1 .. Len(s) : Append(s, e)[i] = s[i]
         /\ Append(s, e)[Len(s) + 1] = e
         /\ Range(Append(s, e)) = Range(s) \cup {e}
         /\ Distinct(s) /\ e \notin Range(s) => Distinct(Append(s, e))
<1> DEFINE S == Range(s) \cup {e}
           t == Append(s, e)
<1>1. s \in Seq(S) /\ e \in S
  BY SeqMonotonic DEF IsSequence
<1>2. /\ t \in Seq(S) /\ Len(t) = Len(s) + 1
      /\ \A i \in 1 .. Len(s) : t[i] = s[i]
      /\ t[Len(s) + 1] = e
  BY <1>1, AppendProperties
<1>3. Len(s) \in Nat /\ DOMAIN s = 1 .. Len(s) /\ DOMAIN t = 1 .. Len(s) + 1
  BY <1>1, <1>2, LenProperties
<1>4. \A i \in 1 .. Len(s) + 1 : i \in 1 .. Len(s) \/ i = Len(s) + 1
  BY <1>3
<1>5. Range(t) = Range(s) \cup {e}
  <2>1. \A x \in Range(t) : x \in Range(s) \cup {e}
    BY <1>2, <1>3, <1>4 DEF Range
  <2>2. \A x \in Range(s) : x \in Range(t)
    <3> SUFFICES ASSUME NEW i \in 1 .. Len(s) PROVE s[i] \in Range(t)
      BY <1>3 DEF Range
    <3>1. i \in 1 .. Len(s) + 1
      BY <1>3
    <3> QED BY <3>1, <1>2, <1>3 DEF Range
  <2>3. e \in Range(t)
    BY <1>2, <1>3 DEF Range
  <2> QED BY <2>1, <2>2, <2>3
<1>6. IsSequence(t)
  BY <1>2, SeqOfRange DEF IsSequence
<1>7. ASSUME Distinct(s), e \notin Range(s) PROVE Distinct(t)
  <2> SUFFICES ASSUME NEW i \in 1 .. Len(s) + 1, NEW j \in 1 .. Len(s) + 1, i # j
               PROVE  t[i] # t[j]
    BY <1>3 DEF Distinct
  <2>1. \A k \in 1 .. Len(s) : s[k] # e
    BY <1>3, <1>7 DEF Range
  <2> QED BY <1>2, <1>3, <1>4, <1>7, <2>1 DEF Distinct
<1> QED BY <1>2, <1>3, <1>5, <1>6, <1>7

LEMMA TailOfSequence ==
  ASSUME NEW s, IsSequence(s), s # <<>>
  PROVE  /\ IsSequence(Tail(s)) /\ Len(s) \in Nat \ {0}
         /\ DOMAIN s = 1 .. Len(s) /\ DOMAIN Tail(s) = 1 .. Len(s) - 1
         /\ Head(s) = s[1] /\ \A i \in 1 .. Len(s) - 1 : Tail(s)[i] = s[i + 1]
         /\ Range(s) = Range(Tail(s)) \cup {Head(s)}
         /\ Distinct(s) => Distinct(Tail(s)) /\ Head(s) \notin Range(Tail(s))
<1> DEFINE t == Tail(s)
<1>1. s \in Seq(Range(s))
  BY DEF IsSequence
<1>2. Len(s) \in Nat \ {0} /\ DOMAIN s = 1 .. Len(s)
  BY <1>1, EmptySeq, LenProperties
<1>3. /\ t \in Seq(Range(s)) /\ Len(t) = Len(s) - 1
      /\ \A i \in 1 .. Len(s) - 1 : t[i] = s[i + 1]
  BY <1>1, HeadTailProperties
<1>4. DOMAIN t = 1 .. Len(s) - 1
  BY <1>3, LenProperties
<1>5. Head(s) = s[1]
  BY <1>1
<1>6. IsSequence(t)
  BY <1>3, SeqOfRange DEF IsSequence
<1>7. Range(s) = Range(t) \cup {Head(s)}
  <2>1. \A x \in Range(t) : x \in Range(s)
    BY <1>2, <1>3, <1>4 DEF Range
  <2>2. \A x \in Range(s) : x \in Range(t) \cup {Head(s)}
    <3> SUFFICES ASSUME NEW i \in 1 .. Len(s), i # 1 PROVE s[i] \in Range(t)
      BY <1>2, <1>5 DEF Range
    <3>1. i - 1 \in 1 .. Len(s) - 1 /\ t[i - 1] = s[i]
      BY <1>2, <1>3
    <3> QED BY <3>1, <1>4 DEF Range
  <2>3. Head(s) \in Range(s)
    BY <1>2, <1>5 DEF Range
  <2> QED BY <2>1, <2>2, <2>3
<1>8. ASSUME Distinct(s) PROVE Distinct(t) /\ Head(s) \notin Range(t)
  <2>1. \A i \in 1 .. Len(s) - 1 : i + 1 \in 1 .. Len(s) /\ i + 1 # 1 /\ 1 \in 1 .. Len(s)
    BY <1>2
  <2>2. \A i, j \in 1 .. Len(s) - 1 : i # j => i + 1 # j + 1
    BY <1>2
  <2>3. Distinct(t)
    BY <1>2, <1>3, <1>4, <1>8, <2>1, <2>2 DEF Distinct
  <2>4. Head(s) \notin Range(t)
    BY <1>2, <1>3, <1>4, <1>5, <1>8, <2>1 DEF Distinct, Range
  <2> QED BY <2>3, <2>4
<1> QED BY <1>2, <1>3, <1>4, <1>5, <1>6, <1>7, <1>8

-----------------------------------------------------------------------------
(* Backfills. *)

OnlyFill(b) == \A a \in Fills : a # b => fills'[a] = fills[a]

LEMMA NextPageFits ==
  ASSUME NEW f, IsFill(f), NEW hasMore
  PROVE  /\ IsFill(NextPage(f, hasMore)) /\ ~NextPage(f, hasMore).checked
         /\ NextPage(f, hasMore).pc \in {"done", "listing"}
<1> DEFINE left == IF hasMore THEN f.left ELSE f.left \ {Min(f.left)}
           at == IF hasMore THEN f.at ELSE f.after
           pc == IF left = {} THEN "done" ELSE "listing"
<1>1. NextPage(f, hasMore) = [f EXCEPT !.pc = pc, !.left = left, !.at = at, !.checked = FALSE]
  BY DEF NextPage
<1>2. pc \in {"done", "listing"}
  OBVIOUS
<1> HIDE DEF left, at, pc
<1> QED BY <1>1, <1>2 DEF IsFill

LEMMA ItemDoneFits ==
  ASSUME FillsFit, NEW b \in Fills, ItemDone(b)
  PROVE  /\ FillsFit' /\ OnlyFill(b) /\ ~fills'[b].checked
         /\ fills'[b].pc \in {"done", "listing", fills[b].pc}
<1> DEFINE rest == fills[b].items \ {Item(b)}
           f == IF rest # {} THEN [fills[b] EXCEPT !.items = rest, !.checked = FALSE]
                  ELSE NextPage([fills[b] EXCEPT !.items = {}], HasMore(b))
<1>1. fills' = [fills EXCEPT ![b] = f]
  BY DEF ItemDone
<1>2. IsFill(fills[b])
  BY DEF FillsFit
<1>3. IsFill([fills[b] EXCEPT !.items = {}])
  BY <1>2 DEF IsFill
<1>4. IsFill(f) /\ ~f.checked /\ f.pc \in {"done", "listing", fills[b].pc}
  <2>1. CASE rest # {}
    BY <2>1, <1>2 DEF IsFill
  <2>2. CASE rest = {}
    BY <2>2, <1>3, NextPageFits
  <2> QED BY <2>1, <2>2
<1> HIDE DEF f
<1> QED BY <1>1, <1>4 DEF FillsFit, OnlyFill

\* Every step of a backfill leaves the others as they are; it checks an item of
\* a page it has in hand or has checked none, and it gets a page when none has one.
LEMMA FillStepFits ==
  ASSUME FillsFit, NEW b \in Fills, FillActs(b)
  PROVE  /\ FillsFit' /\ OnlyFill(b)
         /\ fills'[b].checked => /\ BackfillChecks(b) /\ Takes(Item(b))
                                 /\ fills'[b].pc = "page" /\ fills'[b].items = fills[b].items
         /\ fills'[b].pc = "page" => fills[b].pc = "page" \/ LoopIsFree
<1>1. IsFill(fills[b]) /\ (fills[b].checked => fills[b].pc = "page")
  BY DEF FillsFit
<1>2. CASE BackfillStarts(b)
  <2>1. PICK upTo \in aged .. Len(history) :
          fills' = [fills EXCEPT ![b] =
            [@ EXCEPT !.pc = IF known = {} THEN "done" ELSE "listing", !.left = known,
                      !.chats = known, !.after = aged, !.upTo = upTo, !.at = aged]]
    BY <1>2 DEF BackfillStarts
  <2>2. fills[b].pc = "scheduled"
    BY <1>2 DEF BackfillStarts
  <2> QED BY <1>1, <2>1, <2>2 DEF FillsFit, OnlyFill, IsFill
<1>3. CASE BackfillListFails(b)
  BY <1>1, <1>3 DEF BackfillListFails, FillsFit, OnlyFill, IsFill
<1>7. CASE BackfillListsCut(b)
  BY <1>1, <1>7 DEF BackfillListsCut, FillsFit, OnlyFill, IsFill
<1>4. CASE BackfillLists(b)
  <2> DEFINE items == Page(Listing(b))
             f == IF items = {} THEN NextPage(fills[b], FALSE)
                    ELSE [fills[b] EXCEPT !.pc = "page", !.items = items, !.at = Max(items)]
  <2>1. fills' = [fills EXCEPT ![b] = f] /\ fills[b].pc = "listing" /\ LoopIsFree
    BY <1>4 DEF BackfillLists
  <2>2. IsFill(f) /\ ~f.checked
    BY <1>1, <2>1, NextPageFits DEF IsFill
  <2> HIDE DEF f
  <2> QED BY <2>1, <2>2 DEF FillsFit, OnlyFill
<1>5. CASE BackfillChecks(b)
  <2>1. CASE Takes(Item(b))
    BY <1>1, <1>5, <2>1 DEF BackfillChecks, FillsFit, OnlyFill, IsFill
  <2>2. CASE ~Takes(Item(b))
    BY <1>5, <2>2, ItemDoneFits DEF BackfillChecks
  <2> QED BY <2>1, <2>2
<1>6. CASE BackfillSubmits(b)
  BY <1>6, ItemDoneFits DEF BackfillSubmits
<1> QED BY <1>2, <1>3, <1>4, <1>5, <1>6, <1>7 DEF FillActs, BackfillStep

-----------------------------------------------------------------------------
(* What has been taken, after each step. *)

LEMMA Submitted ==
  ASSUME TypeInv, NEW d, submitted' = Append(submitted, d), UNCHANGED <<downloading, handled>>
  PROVE  /\ IsSequence(submitted') /\ Taken' = Taken \cup {d}
         /\ Range(submitted') = Range(submitted) \cup {d}
         /\ Distinct(submitted) /\ d \notin Taken => Distinct(submitted')
BY AppendOfSequence DEF TypeInv, Taken

LEMMA Started ==
  ASSUME TypeInv, HandlerStarts
  PROVE  LET d == Head(submitted) IN
         /\ IsSequence(submitted') /\ IsSequence(handled') /\ Taken' = Taken
         /\ d \in Range(submitted) /\ Range(submitted) = Range(submitted') \cup {d}
         /\ Distinct(submitted) => Distinct(submitted') /\ d \notin Range(submitted')
         /\ \/ /\ Downloads(d.message) /\ handled' = handled
               /\ downloading' = downloading \cup {d}
            \/ /\ ~Downloads(d.message) /\ downloading' = downloading
               /\ handled' = Append(handled, d) /\ Range(handled') = Range(handled) \cup {d}
               /\ Distinct(handled) /\ d \notin Range(handled) => Distinct(handled')
<1> DEFINE d == Head(submitted)
<1>1. /\ IsSequence(submitted') /\ Range(submitted) = Range(submitted') \cup {d}
      /\ Distinct(submitted) => Distinct(submitted') /\ d \notin Range(submitted')
  BY TailOfSequence DEF TypeInv, HandlerStarts
<1>2. CASE Downloads(d.message)
  BY <1>1, <1>2 DEF TypeInv, HandlerStarts, Taken
<1>3. CASE ~Downloads(d.message)
  <2>1. handled' = Append(handled, d) /\ downloading' = downloading
    BY <1>3 DEF HandlerStarts
  <2> HIDE DEF d
  <2>2. /\ IsSequence(handled') /\ Range(handled') = Range(handled) \cup {d}
        /\ Distinct(handled) /\ d \notin Range(handled) => Distinct(handled')
    BY <2>1, AppendOfSequence DEF TypeInv
  <2>3. Taken' = Taken
    BY <1>1, <2>1, <2>2 DEF Taken
  <2> QED BY <1>1, <1>3, <2>1, <2>2, <2>3 DEF d
<1> QED BY <1>2, <1>3

LEMMA WasDownloaded ==
  ASSUME TypeInv, Downloaded
  PROVE  \E d \in downloading :
           /\ downloading' = downloading \ {d} /\ handled' = Append(handled, d)
           /\ submitted' = submitted
           /\ IsSequence(handled') /\ Taken' = Taken
           /\ Range(handled') = Range(handled) \cup {d}
           /\ Distinct(handled) /\ d \notin Range(handled) => Distinct(handled')
<1>1. PICK d \in downloading : downloading' = downloading \ {d} /\ handled' = Append(handled, d)
  BY DEF Downloaded
<1>2. /\ IsSequence(handled') /\ Range(handled') = Range(handled) \cup {d}
      /\ Distinct(handled) /\ d \notin Range(handled) => Distinct(handled')
  BY <1>1, AppendOfSequence DEF TypeInv
<1>3. submitted' = submitted
  BY DEF Downloaded
<1> QED BY <1>1, <1>2, <1>3 DEF Taken

-----------------------------------------------------------------------------
(* The types. *)

LEMMA TypeInit == Init => TypeInv
<1> SUFFICES ASSUME Init PROVE TypeInv
  OBVIOUS
<1>1. Taken = {} /\ Range(pushes) = {}
  BY NoSequence DEF Init, Taken
<1>2. FillsFit
  BY DEF Init, FillsFit, IsFill, NoFill
<1> QED BY <1>1, <1>2, NoSequence DEF Init, TypeInv, FillsFit

\* A step that leaves the loop alone and pushes messages that there are.
LEMMA GatewayTypes ==
  ASSUME TypeInv, FillsFit', UNCHANGED <<loopVars, history, life>>,
         \/ UNCHANGED pushes
         \/ IsSequence(pushes') /\ Range(pushes') \subseteq Messages,
         taking' \in {NoMessage, taking} \cup Messages
  PROVE  TypeInv'
<1>1. Taken' = Taken /\ Messages' = Messages
  BY DEF loopVars, Taken, Messages
<1> QED BY <1>1 DEF TypeInv, FillsFit, loopVars, IsSequence

\* A step of the loop: what is taken is a delivery of a life.
LEMMA LoopTypes ==
  ASSUME TypeInv, FillsFit', UNCHANGED <<history, pushes, life>>,
         IsSequence(submitted'), IsSequence(handled'),
         \A d \in Taken' : d \in Taken \/ (IsDelivery(d) /\ d.life = life),
         taking' \in {NoMessage, taking} \cup Messages
  PROVE  TypeInv'
<1>1. Messages' = Messages
  BY DEF Messages
<1>2. \A d \in Taken' : IsDelivery(d) /\ d.life \in Nat
  BY DEF TypeInv
<1> QED BY <1>1, <1>2 DEF TypeInv, FillsFit, IsSequence

LEMMA NewDelivery ==
  ASSUME NEW m, NEW via
  PROVE  LET d == Delivery(m, via)
         IN  IsDelivery(d) /\ d.life = life /\ d.message = m /\ d.via = via
BY DEF IsDelivery, Delivery

LEMMA TypePost ==
  ASSUME TypeInv, NEW chat, NEW author, NEW kind, Post(chat, author, kind)
  PROVE  TypeInv'
<1> DEFINE e == [chat |-> chat, author |-> author, kind |-> kind]
<1>1. history' = Append(history, e) /\ UNCHANGED <<gatewayVars, loopVars, faultVars>>
  BY DEF Post
<1> HIDE DEF e
<1>2. IsSequence(history') /\ Len(history') = Len(history) + 1 /\ Len(history) \in Nat
  BY <1>1, AppendOfSequence DEF TypeInv
<1>3. Messages \subseteq Messages' /\ Len(history') \in Messages'
  BY <1>2 DEF Messages
<1>4. pushes' = pushes \/ pushes' = Append(pushes, Len(history'))
  BY DEF Post
<1>5. IsSequence(pushes') /\ Range(pushes') \subseteq Range(pushes) \cup {Len(history')}
  <2>1. CASE pushes' = pushes
    BY <2>1 DEF TypeInv
  <2>2. CASE pushes' = Append(pushes, Len(history'))
    BY <2>2, AppendOfSequence DEF TypeInv
  <2> QED BY <1>4, <2>1, <2>2
<1>6. Taken' = Taken
  BY <1>1 DEF loopVars, Taken
<1>7. IsSequence(submitted') /\ IsSequence(handled') /\ FillsFit'
  BY <1>1 DEF TypeInv, gatewayVars, loopVars, FillsFit, IsSequence
<1> QED BY <1>1, <1>2, <1>3, <1>5, <1>6, <1>7 DEF TypeInv, gatewayVars, faultVars

LEMMA FillsKept == ASSUME TypeInv, UNCHANGED fills PROVE FillsFit'
BY DEF TypeInv, FillsFit

LEMMA TypeReconnected == ASSUME TypeInv, _on_reconnected PROVE TypeInv'
<1>1. PICK b \in Fills : fills[b].pc = "none" /\ fills' = [fills EXCEPT ![b].pc = "scheduled"]
  BY DEF _on_reconnected
<1>2. FillsFit'
  BY <1>1 DEF TypeInv, FillsFit, IsFill
<1>3. UNCHANGED <<loopVars, history, life, pushes, taking>>
  BY DEF _on_reconnected, loopVars, faultVars
<1> QED BY <1>2, <1>3, GatewayTypes

LEMMA TypeCrash == ASSUME TypeInv, Crash PROVE TypeInv'
<1>1. FillsFit'
  BY DEF TypeInv, FillsFit, IsFill, Crash, NoFill
<1>2. Taken' = Range(handled) /\ Range(pushes') = {} /\ Messages' = Messages
  BY NoSequence DEF Crash, Taken, Messages
<1>3. Range(handled) \subseteq Taken
  BY DEF Taken
<1> QED BY <1>1, <1>2, <1>3, NoSequence, SMTT(20) DEF TypeInv, FillsFit, Crash, IsSequence

LEMMA TypeFill ==
  ASSUME TypeInv, NEW b \in Fills, FillActs(b)
  PROVE  TypeInv'
<1>1. FillsFit'
  BY FillStepFits DEF TypeInv
<1>2. CASE BackfillSubmits(b)
  <2> DEFINE d == Delivery(Item(b), "backfill")
  <2>1. submitted' = Append(submitted, d) /\ IsDelivery(d) /\ d.life = life
    BY <1>2, NewDelivery DEF BackfillSubmits
  <2> HIDE DEF d
  <2>2. IsSequence(submitted') /\ Taken' = Taken \cup {d} /\ IsSequence(handled')
    BY <1>2, <2>1, Submitted DEF BackfillSubmits, TypeInv, IsSequence
  <2> QED BY <1>1, <1>2, <2>1, <2>2, LoopTypes DEF BackfillSubmits, feishuVars, faultVars
<1>3. CASE ~BackfillSubmits(b)
  <2>1. UNCHANGED <<loopVars, history, life>> /\ pushes' = pushes /\ taking' \in {NoMessage, taking} \cup Messages
    BY <1>3 DEF BackfillStep, BackfillStarts, BackfillLists, BackfillChecks,
       BackfillListFails, BackfillListsCut, FillActs, Fault, feishuVars, loopVars, faultVars
  <2> QED BY <1>1, <2>1, GatewayTypes
<1> QED BY <1>2, <1>3

LEMMA PushTypes ==
  ASSUME TypeInv, Redeliver \/ Disconnect \/ OnMessageChecks
  PROVE  TypeInv'
<1>1. UNCHANGED <<loopVars, history, life, fills>>
  BY DEF Redeliver, Disconnect, OnMessageChecks, Fault, gatewayVars, loopVars, faultVars
<1>2. /\ IsSequence(pushes') /\ Range(pushes') \subseteq Messages
      /\ taking' \in {NoMessage, taking} \cup Messages
  <2>1. CASE Redeliver
    <3>1. PICK m \in Messages : pushes' = Append(pushes, m)
      BY <2>1 DEF Redeliver
    <3> QED BY <2>1, <3>1, AppendOfSequence DEF TypeInv, Redeliver, gatewayVars
  <2>2. CASE Disconnect
    BY <2>2, NoSequence DEF Disconnect, gatewayVars
  <2>3. CASE OnMessageChecks
    <3>1. Head(pushes) \in Range(pushes) /\ IsSequence(Tail(pushes)) /\ Range(Tail(pushes)) \subseteq Range(pushes)
      BY <2>3, TailOfSequence DEF TypeInv, OnMessageChecks
    <3> QED BY <2>3, <3>1 DEF TypeInv, OnMessageChecks, OnMessage
  <2> QED BY <2>1, <2>2, <2>3
<1> QED BY <1>1, <1>2, FillsKept, GatewayTypes

LEMMA OtherTypes ==
  ASSUME TypeInv,
         Age \/ Connects \/ OnMessageFails \/ \E chat \in Chats \cup {NoChat} : on_bot_p2p_chat_entered(chat)
  PROVE  TypeInv'
<1>1. /\ UNCHANGED <<loopVars, history, life, fills>> /\ pushes' = pushes
      /\ taking' \in {NoMessage, taking} \cup Messages
  BY DEF Age, Connects, OnMessageFails, on_bot_p2p_chat_entered, Fault, feishuVars, gatewayVars,
     loopVars, faultVars
<1> QED BY <1>1, FillsKept, GatewayTypes

LEMMA TypeSubmits == ASSUME TypeInv, OnMessageSubmits PROVE TypeInv'
<1> DEFINE d == Delivery(taking, "websocket")
<1>1. submitted' = Append(submitted, d) /\ UNCHANGED <<downloading, handled, history, pushes, life, fills>>
  BY DEF OnMessageSubmits, feishuVars, faultVars
<1>2. IsDelivery(d) /\ d.life = life /\ taking' = NoMessage
  BY NewDelivery DEF OnMessageSubmits
<1> HIDE DEF d
<1>3. IsSequence(submitted') /\ Taken' = Taken \cup {d} /\ IsSequence(handled')
  BY <1>1, Submitted DEF TypeInv, IsSequence
<1> QED BY <1>1, <1>2, <1>3, FillsKept, LoopTypes

LEMMA TypeHandler ==
  ASSUME TypeInv, HandlerStarts \/ Downloaded \/ DownloadFails
  PROVE  TypeInv'
<1>1. UNCHANGED <<history, pushes, life, fills, taking>>
  BY DEF HandlerStarts, Downloaded, DownloadFails, Fault, feishuVars, gatewayVars, faultVars
<1>2. IsSequence(submitted') /\ IsSequence(handled') /\ Taken' \subseteq Taken
  <2>1. CASE HandlerStarts
    BY <2>1, Started
  <2>2. CASE Downloaded
    BY <2>2, WasDownloaded DEF TypeInv, IsSequence
  <2>3. CASE DownloadFails
    BY <2>3 DEF DownloadFails, TypeInv, Taken, IsSequence
  <2> QED BY <2>1, <2>2, <2>3
<1> QED BY <1>1, <1>2, FillsKept, LoopTypes

LEMMA TypeStep == TypeInv /\ [Next]_vars => TypeInv'
<1> SUFFICES ASSUME TypeInv, [Next]_vars PROVE TypeInv'
  OBVIOUS
<1>1. ASSUME UNCHANGED vars PROVE TypeInv'
  <2>1. UNCHANGED <<loopVars, history, life, fills, pushes, taking>>
    BY <1>1 DEF vars, feishuVars, gatewayVars, faultVars
  <2> QED BY <2>1, FillsKept, GatewayTypes
<1>2. ASSUME NEW chat \in Chats, NEW author \in {"owner", "bot"}, NEW kind \in Kinds,
             Post(chat, author, kind)
      PROVE  TypeInv'
  BY <1>2, TypePost
<1>3. ASSUME NEW b \in Fills, FillActs(b) PROVE TypeInv'
  BY <1>3, TypeFill
<1> QED BY <1>1, <1>2, <1>3, PushTypes, OtherTypes, TypeSubmits, TypeHandler, TypeReconnected,
        TypeCrash DEF Next, Websocket, Loop, FillActs

-----------------------------------------------------------------------------
(* No delivery is made twice. *)

LEMMA OnceInit == Init => Once
<1> SUFFICES ASSUME Init PROVE Once
  OBVIOUS
<1>1. Taken = {} /\ Range(submitted) = {} /\ Range(handled) = {} /\ downloading = {}
  BY NoSequence DEF Init, Taken
<1>2. Apart /\ OfThisLife /\ TakenIsSeen
  BY <1>1, NoSequence DEF Init, Apart, OfThisLife, TakenIsSeen
<1>3. CheckedIsNew /\ OnePage
  BY DEF Init, CheckedIsNew, OnePage, NoFill
<1> QED BY <1>2, <1>3 DEF Once

LEMMA HappenedGrows == [Next]_vars => happened \subseteq happened'
BY DEF Next, vars, faultVars, Fault, Post, on_bot_p2p_chat_entered, Redeliver, Disconnect, Age,
   Crash, _on_reconnected, Connects, Websocket, OnMessageChecks, OnMessageSubmits, OnMessageFails,
   Loop, HandlerStarts, Downloaded, DownloadFails, BackfillStep, BackfillStarts, BackfillLists,
   BackfillChecks, BackfillSubmits, BackfillListFails, BackfillListsCut

\* What has not been seen has not been delivered in this life.
LEMMA NotSeenIsNew ==
  ASSUME TakenIsSeen, NEW m, m \notin seen, NEW via
  PROVE  Delivery(m, via) \notin Taken
BY DEF TakenIsSeen, Delivery

\* A step that delivers nothing: what it checks has not been seen.
LEMMA OnceGateway ==
  ASSUME Once, UNCHANGED <<loopVars, life>>, seen \subseteq seen', OnePage',
         taking' \in {NoMessage, taking} \/ taking' \notin seen,
         \A b \in Fills : fills'[b].checked =>
           \/ fills[b].checked /\ fills'[b].items = fills[b].items
           \/ Item(b)' \notin seen
  PROVE  Once'
<1>1. UNCHANGED <<submitted, downloading, handled, life, Taken>>
  BY DEF loopVars, Taken
<1>2. Apart' /\ OfThisLife' /\ TakenIsSeen'
  BY <1>1 DEF Once, Apart, OfThisLife, TakenIsSeen
<1>3. CheckedIsNew'
  <2>1. taking' # NoMessage => Delivery(taking', "websocket") \notin Taken
    BY NotSeenIsNew DEF Once, CheckedIsNew
  <2>2. \A b \in Fills : fills'[b].checked => Delivery(Item(b)', "backfill") \notin Taken
    BY NotSeenIsNew DEF Once, CheckedIsNew, Item
  <2> QED BY <1>1, <2>1, <2>2 DEF CheckedIsNew, Delivery
<1> QED BY <1>2, <1>3 DEF Once

\* A step that delivers d, which has not been delivered.
LEMMA OnceDelivers ==
  ASSUME TypeInv, Once, NEW m, NEW via, Delivery(m, via) \notin Taken,
         submitted' = Append(submitted, Delivery(m, via)), UNCHANGED <<downloading, handled, life>>,
         seen' = seen \cup {m}, OnePage', CheckedIsNew'
  PROVE  Once'
<1> DEFINE d == Delivery(m, via)
<1>1. d.life = life /\ d.message = m
  BY NewDelivery
<1>2. submitted' = Append(submitted, d) /\ d \notin Taken
  OBVIOUS
<1> HIDE DEF d
<1>3. /\ Taken' = Taken \cup {d} /\ Range(submitted') = Range(submitted) \cup {d}
      /\ Distinct(submitted) => Distinct(submitted')
  BY <1>2, Submitted
<1>4. Apart'
  BY <1>2, <1>3 DEF Once, Apart, Taken
<1>5. life <= life
  BY DEF TypeInv
<1>6. OfThisLife'
  BY <1>1, <1>3, <1>5 DEF Once, OfThisLife
<1>7. TakenIsSeen'
  BY <1>1, <1>3 DEF Once, TakenIsSeen
<1> QED BY <1>4, <1>6, <1>7 DEF Once

LEMMA OnceSubmits == ASSUME TypeInv, Once, OnMessageSubmits PROVE Once'
<1>1. /\ UNCHANGED <<downloading, handled, life, fills>> /\ taking' = NoMessage
      /\ submitted' = Append(submitted, Delivery(taking, "websocket")) /\ seen' = seen \cup {taking}
  BY DEF OnMessageSubmits, faultVars
<1>2. Delivery(taking, "websocket") \notin Taken
  BY DEF Once, CheckedIsNew, OnMessageSubmits
<1>3. Taken' = Taken \cup {Delivery(taking, "websocket")}
  BY <1>1, Submitted
<1>4. \A m : Delivery(m, "backfill") # Delivery(taking, "websocket")
  BY DEF Delivery
<1>5. CheckedIsNew'
  BY <1>1, <1>3, <1>4 DEF Once, CheckedIsNew, Delivery, Item
<1>6. OnePage'
  BY <1>1 DEF Once, OnePage
<1> QED BY <1>1, <1>2, <1>5, <1>6, OnceDelivers

LEMMA FillOnePage ==
  ASSUME TypeInv, OnePage, NEW b \in Fills, FillActs(b)
  PROVE  OnePage'
BY FillStepFits DEF TypeInv, OnePage, OnlyFill, LoopIsFree

LEMMA OnceFill ==
  ASSUME TypeInv, Once, NEW b \in Fills, FillActs(b)
  PROVE  Once'
<1>1. OnePage' /\ OnlyFill(b)
  BY FillOnePage, FillStepFits DEF TypeInv, Once
<1>2. CASE BackfillSubmits(b)
  <2> DEFINE m == Item(b)
  <2>1. /\ UNCHANGED <<downloading, handled, life, taking>> /\ fills[b].checked
        /\ submitted' = Append(submitted, Delivery(m, "backfill")) /\ seen' = seen \cup {m}
    BY <1>2 DEF BackfillSubmits, faultVars
  <2>2. Delivery(m, "backfill") \notin Taken
    BY <2>1 DEF Once, CheckedIsNew
  <2> HIDE DEF m
  <2>3. Taken' = Taken \cup {Delivery(m, "backfill")}
    BY <2>1, Submitted
  <2>4. ~fills'[b].checked
    BY <1>2, ItemDoneFits DEF BackfillSubmits, TypeInv
  <2>5. \A a \in Fills : ~fills'[a].checked
    BY <1>1, <1>2, <2>4 DEF BackfillSubmits, TypeInv, FillsFit, OnlyFill, Once, OnePage
  <2>6. (taking # NoMessage => Delivery(taking, "websocket") \notin Taken)'
    <3>1. Delivery(taking, "websocket") # Delivery(m, "backfill")
      BY DEF Delivery
    <3> QED BY <2>1, <2>3, <3>1 DEF Once, CheckedIsNew, Delivery
  <2>7. CheckedIsNew'
    BY <2>5, <2>6 DEF CheckedIsNew
  <2> QED BY <1>1, <2>1, <2>2, <2>7, OnceDelivers
<1>3. CASE ~BackfillSubmits(b)
  <2>1. UNCHANGED <<loopVars, life, seen, taking>>
    BY <1>3 DEF BackfillStep, BackfillStarts, BackfillLists, BackfillChecks,
       BackfillListFails, BackfillListsCut, FillActs, Fault, feishuVars, loopVars, faultVars
  <2>2. \A a \in Fills : fills'[a].checked =>
          \/ fills[a].checked /\ fills'[a].items = fills[a].items
          \/ Item(a)' \notin seen
    BY <1>1, FillStepFits DEF TypeInv, OnlyFill, Takes, Item
  <2> QED BY <1>1, <2>1, <2>2, OnceGateway
<1> QED BY <1>2, <1>3

\* The loop hands on what it has: Head(submitted) changes its place.
LEMMA OnceHandler ==
  ASSUME TypeInv, Once, HandlerStarts \/ Downloaded \/ DownloadFails
  PROVE  Once'
<1>1. UNCHANGED <<life, seen, taking, fills>>
  BY DEF HandlerStarts, Downloaded, DownloadFails, Fault, gatewayVars, faultVars
<1>2. /\ Apart' /\ Taken' \subseteq Taken
      /\ Range(submitted') \cup downloading' \subseteq Range(submitted) \cup downloading
  <2>1. CASE HandlerStarts
    <3> DEFINE d == Head(submitted)
    <3>1. /\ Taken' = Taken /\ d \in Range(submitted) /\ Range(submitted) = Range(submitted') \cup {d}
          /\ Distinct(submitted') /\ d \notin Range(submitted')
          /\ d \notin downloading /\ d \notin Range(handled)
      BY <2>1, Started DEF Once, Apart
    <3>2. \/ handled' = handled /\ downloading' = downloading \cup {d}
          \/ /\ downloading' = downloading /\ Range(handled') = Range(handled) \cup {d}
             /\ Distinct(handled')
      BY <2>1, <3>1, Started DEF Once, Apart
    <3> HIDE DEF d
    <3> QED BY <3>1, <3>2 DEF Once, Apart
  <2>2. CASE Downloaded
    <3>1. PICK d \in downloading :
            /\ downloading' = downloading \ {d} /\ submitted' = submitted /\ Taken' = Taken
            /\ Range(handled') = Range(handled) \cup {d}
            /\ Distinct(handled) /\ d \notin Range(handled) => Distinct(handled')
      BY <2>2, WasDownloaded
    <3> QED BY <3>1 DEF Once, Apart
  <2>3. CASE DownloadFails
    BY <2>3 DEF DownloadFails, Once, Apart, Taken
  <2> QED BY <2>1, <2>2, <2>3
<1>3. OfThisLife' /\ TakenIsSeen'
  BY <1>1, <1>2 DEF Once, OfThisLife, TakenIsSeen
<1>4. CheckedIsNew' /\ OnePage'
  BY <1>1, <1>2 DEF Once, CheckedIsNew, OnePage, Delivery, Item
<1> QED BY <1>2, <1>3, <1>4 DEF Once

\* After a crash nothing of the new life has been delivered.
LEMMA OnceCrash == ASSUME TypeInv, Once, Crash PROVE Once'
<1>1. /\ Range(submitted') = {} /\ Distinct(submitted') /\ downloading' = {} /\ handled' = handled
      /\ Taken' = Range(handled) /\ life' = life + 1 /\ taking' = NoMessage
  BY NoSequence DEF Crash, Taken
<1>2. Apart'
  BY <1>1 DEF Once, Apart
<1>3. \A d \in Range(handled) : d.life \in Nat /\ d.life <= life /\ life \in Nat
  BY DEF TypeInv, Once, OfThisLife, Taken
<1>4. OfThisLife' /\ TakenIsSeen'
  BY <1>1, <1>3 DEF OfThisLife, TakenIsSeen
<1>5. \A b \in Fills : ~fills'[b].checked /\ fills'[b].pc # "page"
  BY DEF Crash, TypeInv, FillsFit, IsFill, NoFill
<1>6. CheckedIsNew' /\ OnePage'
  BY <1>1, <1>5 DEF CheckedIsNew, OnePage
<1> QED BY <1>2, <1>4, <1>6 DEF Once

LEMMA OnceReconnected == ASSUME TypeInv, Once, _on_reconnected PROVE Once'
<1>1. PICK b \in Fills : fills[b].pc = "none" /\ fills' = [fills EXCEPT ![b].pc = "scheduled"]
  BY DEF _on_reconnected
<1>2. UNCHANGED <<loopVars, life, seen, taking>>
  BY DEF _on_reconnected, loopVars, faultVars
<1>3. /\ OnePage'
      /\ \A a \in Fills : fills'[a].checked => fills[a].checked /\ fills'[a].items = fills[a].items
  BY <1>1 DEF TypeInv, FillsFit, IsFill, Once, OnePage
<1> QED BY <1>2, <1>3, OnceGateway

LEMMA OnceChecks ==
  ASSUME Once, OnMessageChecks \/ Redeliver \/ Disconnect \/ Age \/ Connects
               \/ (\E chat \in Chats \cup {NoChat} : on_bot_p2p_chat_entered(chat))
               \/ (\E chat, author, kind : Post(chat, author, kind)) \/ UNCHANGED vars
  PROVE  Once'
<1>1. UNCHANGED <<loopVars, life, seen, fills>> /\ (taking' \in {NoMessage, taking} \/ taking' \notin seen)
  BY DEF OnMessageChecks, OnMessage, Redeliver, Disconnect, Age, Connects, on_bot_p2p_chat_entered,
     Post, Fault, vars, feishuVars, gatewayVars, loopVars, faultVars
<1>2. OnePage'
  BY <1>1 DEF Once, OnePage
<1> QED BY <1>1, <1>2, OnceGateway

LEMMA OnceStep == TypeInv /\ OnceInv /\ [Next]_vars => OnceInv'
<1> SUFFICES ASSUME TypeInv, OnceInv, [Next]_vars, "submit" \notin happened' PROVE Once'
  BY DEF OnceInv
<1>1. Once
  BY HappenedGrows DEF OnceInv
<1>2. ~OnMessageFails
  BY DEF OnMessageFails, Fault
<1>3. ASSUME NEW b \in Fills, FillActs(b) PROVE Once'
  BY <1>1, <1>3, OnceFill
<1> QED BY <1>1, <1>2, <1>3, OnceSubmits, OnceHandler, OnceCrash, OnceReconnected, OnceChecks
        DEF Next, Websocket, Loop, FillActs

-----------------------------------------------------------------------------
(* Texts stay in order. *)

LEMMA OrderInit == Init => Order
<1> SUFFICES ASSUME Init PROVE Order
  OBVIOUS
<1>1. Taken = {} /\ Range(handled) = {} /\ DOMAIN pushes = {} /\ DOMAIN submitted = {} /\ DOMAIN handled = {}
  BY NoSequence DEF Init, Taken
<1>2. Messages = {} /\ OwnerTexts = {}
  BY EmptySeq DEF Init, Messages, OwnerTexts
<1>3. NoBackfill /\ SeenInOrder
  BY <1>2 DEF Init, NoBackfill, SeenInOrder, NoFill
<1>4. PushedInOrder /\ TakenInOrder
  BY <1>1, <1>2 DEF Init, PushedInOrder, TakenInOrder, Increasing
<1> QED BY <1>3, <1>4 DEF Order

\* A new message is the youngest, and is pushed when it is the owner's.
LEMMA OrderPost ==
  ASSUME TypeInv, Order, NEW chat, NEW author \in {"owner", "bot"}, NEW kind,
         Post(chat, author, kind)
  PROVE  Order'
<1> DEFINE e == [chat |-> chat, author |-> author, kind |-> kind]
           n == Len(history) + 1
<1>1. /\ history' = Append(history, e) /\ UNCHANGED <<connected, seen, taking, fills, submitted, downloading, handled>>
      /\ connected = "up"
  BY DEF Post, gatewayVars, loopVars, Order, NoBackfill
<1>2. /\ Len(history) \in Nat /\ Len(history') = n /\ history'[n] = e
      /\ \A m \in Messages : history'[m] = history[m]
      /\ Messages' = Messages \cup {n} /\ \A m \in Messages : m < n /\ m \in Nat
  <2> HIDE DEF e
  <2>1. /\ Len(history) \in Nat /\ Len(history') = n /\ history'[n] = e
        /\ \A m \in 1 .. Len(history) : history'[m] = history[m]
    BY <1>1, AppendOfSequence DEF TypeInv
  <2> QED BY <2>1 DEF Messages
<1>3. pushes' = IF author = "owner" THEN Append(pushes, n) ELSE pushes
  BY <1>1, <1>2 DEF Post
<1>4. OwnerTexts' = OwnerTexts \cup (IF author = "owner" /\ kind = "text" THEN {n} ELSE {})
  BY <1>2 DEF OwnerTexts
<1>5. Taken' = Taken /\ NoBackfill'
  BY <1>1 DEF Taken, Order, NoBackfill
<1>6. SeenInOrder'
  <2>1. seen \subseteq Messages'
    BY <1>2 DEF Order, SeenInOrder
  <2>2. \A k \in seen : k < n /\ ~(n < k)
    BY <1>2 DEF Order, SeenInOrder
  <2>3. \A k \in seen : \A m \in OwnerTexts' : m < k => m \in seen
    BY <1>4, <2>2 DEF Order, SeenInOrder
  <2>4. ASSUME taking # NoMessage
        PROVE  /\ taking \notin seen /\ history'[taking].author = "owner"
               /\ \A m \in OwnerTexts' : m < taking => m \in seen
    <3>1. taking \in Messages /\ ~(n < taking)
      BY <1>2, <2>4 DEF TypeInv
    <3> QED BY <1>2, <1>4, <2>4, <3>1 DEF Order, SeenInOrder
  <2> QED BY <1>1, <2>1, <2>3, <2>4 DEF SeenInOrder
<1>7. TakenInOrder'
  <2>1. \A d \in Taken : d.message \in Messages /\ (IsText(d)' <=> IsText(d))
    BY <1>2 DEF Order, TakenInOrder, SeenInOrder, IsText
  <2>2. \A d \in downloading : history'[d.message] = history[d.message]
    BY <1>2, <2>1 DEF Taken
  <2>3. /\ \A i \in DOMAIN submitted : submitted[i] \in Taken
        /\ \A i \in DOMAIN handled : handled[i] \in Taken
    BY DEF Taken, Range
  <2>4. Increasing(submitted)' /\ Increasing(handled)'
    BY <1>1, <2>1, <2>3 DEF Order, TakenInOrder, Increasing
  <2>5. \A d \in Range(handled), f \in Range(submitted) :
          IsText(d)' /\ IsText(f)' => d.message < f.message
    BY <2>1 DEF Order, TakenInOrder, Taken
  <2> QED BY <1>1, <1>5, <2>2, <2>4, <2>5 DEF Order, TakenInOrder
<1>8. PushedInOrder'
  <2>1. DOMAIN pushes = 1 .. Len(pushes) /\ Len(pushes) \in Nat
    BY SequenceLength DEF TypeInv
  <2>2. \A i \in DOMAIN pushes : pushes[i] \in Messages
    BY DEF TypeInv, Range
  <2>3. CASE author # "owner"
    <3>1. pushes' = pushes /\ OwnerTexts' = OwnerTexts
      BY <1>3, <1>4, <2>3
    <3>2. \A i \in DOMAIN pushes : history'[pushes[i]].author = "owner"
      BY <1>2, <2>2 DEF Order, PushedInOrder
    <3>3. seen' = seen /\ taking' = taking /\ Range(pushes') = Range(pushes)
      BY <1>1, <3>1
    <3> QED BY <3>1, <3>2, <3>3 DEF Order, PushedInOrder
  <2>4. CASE author = "owner"
    <3> DEFINE l == Len(pushes) + 1
    <3> HIDE DEF n
    <3>1. /\ pushes' = Append(pushes, n) /\ DOMAIN pushes' = 1 .. l /\ pushes'[l] = n
          /\ \A i \in 1 .. Len(pushes) : pushes'[i] = pushes[i]
          /\ Range(pushes') = Range(pushes) \cup {n}
      BY <1>3, <2>4, AppendOfSequence DEF TypeInv
    <3>2. \A i \in DOMAIN pushes' : i \in DOMAIN pushes \/ i = l
      BY <2>1, <3>1
    <3>3. history'[n].author = "owner"
      BY <1>2, <2>4
    <3>4. \A i \in DOMAIN pushes' : history'[pushes'[i]].author = "owner"
      BY <1>2, <2>1, <2>2, <3>1, <3>2, <3>3 DEF Order, PushedInOrder
    <3>5. \A m \in OwnerTexts' : m \in seen \/ m = taking \/ m \in Range(pushes')
      BY <1>4, <3>1 DEF Order, PushedInOrder
    <3>6. ASSUME NEW i \in DOMAIN pushes', NEW m \in OwnerTexts', m < pushes'[i]
          PROVE  m \in seen \/ m = taking \/ \E j \in DOMAIN pushes' : j < i /\ pushes'[j] = m
      <4>1. CASE i = l
        <5>1. m \in OwnerTexts
          BY <1>2, <1>4, <3>1, <3>6, <4>1
        <5>2. m \in seen \/ m = taking \/ \E j \in DOMAIN pushes : pushes[j] = m
          BY <5>1 DEF Order, PushedInOrder, Range
        <5>3. \A j \in DOMAIN pushes : j \in DOMAIN pushes' /\ j < l /\ pushes'[j] = pushes[j]
          BY <2>1, <3>1
        <5> QED BY <4>1, <5>2, <5>3
      <4>2. CASE i \in DOMAIN pushes
        <5>1. pushes'[i] = pushes[i] /\ pushes[i] < n /\ pushes[i] \in Nat /\ n \in Nat
          BY <1>2, <2>1, <2>2, <3>1, <4>2 DEF n
        <5>2. m \in OwnerTexts
          BY <1>4, <3>6, <5>1
        <5>3. m \in seen \/ m = taking \/ \E j \in DOMAIN pushes : j < i /\ pushes[j] = m
          BY <3>6, <4>2, <5>1, <5>2 DEF Order, PushedInOrder
        <5>4. \A j \in DOMAIN pushes : j \in DOMAIN pushes' /\ pushes'[j] = pushes[j]
          BY <2>1, <3>1
        <5> QED BY <5>3, <5>4
      <4> QED BY <3>2, <4>1, <4>2
    <3> QED BY <1>1, <3>4, <3>5, <3>6 DEF PushedInOrder
  <2> QED BY <2>3, <2>4
<1> QED BY <1>5, <1>6, <1>7, <1>8 DEF Order

\* A step that takes nothing and gives the loop nothing.
LEMMA SameTaken ==
  ASSUME TakenInOrder, UNCHANGED <<history, seen, submitted, downloading, handled>>
  PROVE  TakenInOrder'
BY DEF TakenInOrder, Taken, Increasing, IsText

LEMMA OrderRedeliver == ASSUME TypeInv, Order, Redeliver PROVE Order'
<1>1. UNCHANGED <<history, connected, seen, taking, fills, submitted, downloading, handled>>
  BY DEF Redeliver, gatewayVars, loopVars
<1>2. PICK m \in Messages : history[m].author = "owner" /\ pushes' = Append(pushes, m)
  BY DEF Redeliver
<1>3. Messages' = Messages /\ OwnerTexts' = OwnerTexts
  BY <1>1 DEF Messages, OwnerTexts
<1>4. NoBackfill' /\ SeenInOrder' /\ TakenInOrder'
  BY <1>1, <1>3, SameTaken DEF Order, NoBackfill, SeenInOrder
<1>5. PushedInOrder'
  <2> DEFINE l == Len(pushes) + 1
  <2>1. /\ Len(pushes) \in Nat /\ DOMAIN pushes = 1 .. Len(pushes) /\ DOMAIN pushes' = 1 .. l
        /\ pushes'[l] = m /\ \A i \in 1 .. Len(pushes) : pushes'[i] = pushes[i]
        /\ Range(pushes') = Range(pushes) \cup {m}
    BY <1>2, AppendOfSequence DEF TypeInv
  <2>2. /\ \A i \in DOMAIN pushes' : i \in DOMAIN pushes \/ i = l
        /\ \A j \in DOMAIN pushes : j \in DOMAIN pushes' /\ j < l
    BY <2>1
  <2>3. \A i \in DOMAIN pushes' : history[pushes'[i]].author = "owner"
    BY <1>2, <2>1, <2>2 DEF Order, PushedInOrder
  <2>4. ASSUME NEW i \in DOMAIN pushes', NEW n \in OwnerTexts, n < pushes'[i]
        PROVE  n \in seen \/ n = taking \/ \E j \in DOMAIN pushes' : j < i /\ pushes'[j] = n
    <3>1. CASE i = l
      BY <2>1, <2>2, <3>1 DEF Order, PushedInOrder, Range
    <3>2. CASE i \in DOMAIN pushes
      BY <2>1, <2>2, <2>4, <3>2 DEF Order, PushedInOrder
    <3> QED BY <2>2, <3>1, <3>2
  <2> QED BY <1>1, <1>3, <2>1, <2>3, <2>4 DEF Order, PushedInOrder
<1> QED BY <1>4, <1>5 DEF Order

\* The oldest push is looked at: the texts before it have been taken.
LEMMA OrderChecks == ASSUME TypeInv, Order, OnMessageChecks PROVE Order'
<1> DEFINE m == Head(pushes)
<1>1. UNCHANGED <<history, connected, seen, fills, submitted, downloading, handled>>
  BY DEF OnMessageChecks, loopVars
<1>2. pushes' = Tail(pushes) /\ pushes # <<>> /\ taking = NoMessage
  BY DEF OnMessageChecks
<1>3. taking' = IF m \in seen \/ history[m].kind = "unreadable" THEN NoMessage ELSE m
  BY DEF OnMessageChecks, OnMessage
<1>4. /\ Len(pushes) \in Nat \ {0} /\ DOMAIN pushes = 1 .. Len(pushes)
      /\ DOMAIN pushes' = 1 .. Len(pushes) - 1 /\ m = pushes[1]
      /\ \A i \in 1 .. Len(pushes) - 1 : pushes'[i] = pushes[i + 1]
      /\ Range(pushes) = Range(pushes') \cup {m}
  BY <1>2, TailOfSequence DEF TypeInv
<1>5. m \in Messages /\ history[m].author = "owner" /\ 1 \in DOMAIN pushes
  BY <1>4 DEF TypeInv, Order, PushedInOrder, Range
<1> HIDE DEF m
<1>6. Messages' = Messages /\ OwnerTexts' = OwnerTexts
  BY <1>1 DEF Messages, OwnerTexts
<1>7. \A n \in OwnerTexts : n # NoMessage /\ (n = m => n \in seen \/ n = taking')
  BY <1>3 DEF OwnerTexts, Messages, NoMessage
<1>8. \A n \in OwnerTexts : n < m => n \in seen
  <2> SUFFICES ASSUME NEW n \in OwnerTexts, n < m PROVE n \in seen
    OBVIOUS
  <2>1. n \in seen \/ n = taking \/ \E j \in DOMAIN pushes : j < 1 /\ pushes[j] = n
    BY <1>4, <1>5 DEF Order, PushedInOrder
  <2>2. ~\E j \in DOMAIN pushes : j < 1
    BY <1>4
  <2> QED BY <1>2, <1>7, <2>1, <2>2
<1>9. NoBackfill' /\ TakenInOrder'
  BY <1>1, SameTaken DEF Order, NoBackfill
<1>10. SeenInOrder'
  BY <1>1, <1>3, <1>5, <1>6, <1>8 DEF Order, SeenInOrder
<1>11. PushedInOrder'
  <2>1. \A n \in OwnerTexts : n \in seen \/ n = taking' \/ n \in Range(pushes')
    BY <1>2, <1>4, <1>7 DEF Order, PushedInOrder
  <2>2. \A i \in DOMAIN pushes' : i + 1 \in DOMAIN pushes /\ pushes'[i] = pushes[i + 1]
    BY <1>4
  <2>3. \A i \in DOMAIN pushes' : history[pushes'[i]].author = "owner"
    BY <2>2 DEF Order, PushedInOrder
  <2>4. ASSUME NEW i \in DOMAIN pushes', NEW n \in OwnerTexts, n < pushes'[i]
        PROVE  n \in seen \/ n = taking' \/ \E j \in DOMAIN pushes' : j < i /\ pushes'[j] = n
    <3>1. n \in seen \/ n = taking \/ \E j \in DOMAIN pushes : j < i + 1 /\ pushes[j] = n
      BY <2>2, <2>4 DEF Order, PushedInOrder
    <3>2. ASSUME NEW j \in DOMAIN pushes, j < i + 1, pushes[j] = n, j # 1
          PROVE  j - 1 \in DOMAIN pushes' /\ j - 1 < i /\ pushes'[j - 1] = n
      BY <1>4, <3>2
    <3>3. \A j \in DOMAIN pushes : pushes[j] = n /\ j = 1 => n = m
      BY <1>4
    <3> QED BY <1>2, <1>7, <3>1, <3>2, <3>3
  <2> QED BY <1>1, <1>6, <2>1, <2>3, <2>4 DEF PushedInOrder
<1> QED BY <1>9, <1>10, <1>11 DEF Order

\* The message is younger than every text that has been taken.
LEMMA OrderSubmits == ASSUME TypeInv, Order, OnMessageSubmits PROVE Order'
<1> DEFINE d == Delivery(taking, "websocket")
<1>1. /\ UNCHANGED <<history, connected, pushes, fills, downloading, handled>>
      /\ seen' = seen \cup {taking} /\ taking' = NoMessage /\ taking # NoMessage
      /\ submitted' = Append(submitted, d)
  BY DEF OnMessageSubmits, feishuVars
<1>2. d.message = taking /\ d.via = "websocket"
  BY NewDelivery
<1> HIDE DEF d
<1>3. Messages' = Messages /\ OwnerTexts' = OwnerTexts
  BY <1>1 DEF Messages, OwnerTexts
<1>4. /\ taking \in Messages /\ taking \notin seen /\ history[taking].author = "owner"
      /\ \A n \in OwnerTexts : n < taking => n \in seen
  BY <1>1 DEF TypeInv, Order, SeenInOrder
<1>5. \A m \in Messages : m \in Nat /\ m # NoMessage
  BY DEF Messages, NoMessage
<1>6. NoBackfill' /\ PushedInOrder'
  BY <1>1, <1>3 DEF Order, NoBackfill, PushedInOrder, OwnerTexts
<1>7. SeenInOrder'
  BY <1>1, <1>3, <1>4 DEF Order, SeenInOrder
<1>8. ASSUME NEW k \in seen, history[taking].kind = "text" PROVE k < taking
  <2>1. taking \in OwnerTexts /\ k \in Messages
    BY <1>4, <1>8 DEF OwnerTexts, Order, SeenInOrder
  <2>2. ~(taking < k) /\ k # taking
    BY <1>4, <2>1 DEF Order, SeenInOrder
  <2> QED BY <1>4, <1>5, <2>1, <2>2
<1>9. \A x \in Taken : IsText(x) /\ IsText(d) => x.message < d.message
  BY <1>2, <1>8 DEF Order, TakenInOrder, IsText
<1>10. /\ Taken' = Taken \cup {d} /\ Range(submitted') = Range(submitted) \cup {d}
       /\ Len(submitted) \in Nat /\ DOMAIN submitted = 1 .. Len(submitted)
       /\ DOMAIN submitted' = 1 .. Len(submitted) + 1 /\ submitted'[Len(submitted) + 1] = d
       /\ \A i \in 1 .. Len(submitted) : submitted'[i] = submitted[i]
  BY <1>1, Submitted, AppendOfSequence DEF TypeInv
<1>11. \A x : IsText(x)' <=> IsText(x)
  BY <1>1 DEF IsText
<1>12. Increasing(submitted)'
  <2> SUFFICES ASSUME NEW i \in DOMAIN submitted', NEW j \in DOMAIN submitted', i < j,
                      IsText(submitted'[i]), IsText(submitted'[j])
               PROVE  submitted'[i].message < submitted'[j].message
    BY <1>1 DEF Increasing, IsText
  <2>1. i \in DOMAIN submitted /\ submitted'[i] = submitted[i] /\ submitted[i] \in Taken
    BY <1>10 DEF Taken, Range
  <2>2. CASE j = Len(submitted) + 1
    BY <1>9, <1>10, <2>1, <2>2
  <2>3. CASE j \in DOMAIN submitted
    BY <1>10, <2>1, <2>3 DEF Order, TakenInOrder, Increasing
  <2> QED BY <1>10, <2>2, <2>3
<1>13. TakenInOrder'
  <2>1. \A x \in Taken' : x.message \in seen'
    BY <1>1, <1>2, <1>10 DEF Order, TakenInOrder
  <2>2. Increasing(handled)'
    BY <1>1, <1>11 DEF Order, TakenInOrder, Increasing, IsText
  <2>3. \A x \in Range(handled), y \in Range(submitted') :
          IsText(x) /\ IsText(y) => x.message < y.message
    BY <1>9, <1>10 DEF Order, TakenInOrder, Taken
  <2>4. \A x \in downloading' : history'[x.message].kind = "attachment"
    BY <1>1 DEF Order, TakenInOrder
  <2>5. (\A x \in Range(handled), y \in Range(submitted) :
           IsText(x) /\ IsText(y) => x.message < y.message)'
    BY <1>1, <2>3 DEF IsText
  <2> QED BY <1>12, <2>1, <2>2, <2>4, <2>5 DEF TakenInOrder
<1> QED BY <1>6, <1>7, <1>13 DEF Order

\* A handler without attachments is the first of those submitted, and one with
\* attachments hands on no text.
LEMMA OrderHandler ==
  ASSUME TypeInv, Order, HandlerStarts \/ Downloaded \/ DownloadFails
  PROVE  Order'
<1>1. UNCHANGED <<history, connected, pushes, seen, taking, fills>>
  BY DEF HandlerStarts, Downloaded, DownloadFails, Fault, feishuVars, gatewayVars
<1>2. NoBackfill' /\ PushedInOrder' /\ SeenInOrder'
  BY <1>1 DEF Order, NoBackfill, PushedInOrder, SeenInOrder, OwnerTexts, Messages
<1>3. \A x : IsText(x)' <=> IsText(x)
  BY <1>1 DEF IsText
<1>4. ASSUME NEW d, handled' = Append(handled, d),
             \A x \in Range(handled) : IsText(x) /\ IsText(d) => x.message < d.message
      PROVE  Increasing(handled)' /\ Range(handled') = Range(handled) \cup {d}
  <2>1. /\ Len(handled) \in Nat /\ DOMAIN handled = 1 .. Len(handled)
        /\ DOMAIN handled' = 1 .. Len(handled) + 1 /\ handled'[Len(handled) + 1] = d
        /\ \A i \in 1 .. Len(handled) : handled'[i] = handled[i]
        /\ Range(handled') = Range(handled) \cup {d}
    BY <1>4, AppendOfSequence DEF TypeInv
  <2>2. ASSUME NEW i \in DOMAIN handled', NEW j \in DOMAIN handled', i < j,
               IsText(handled'[i]), IsText(handled'[j])
        PROVE  handled'[i].message < handled'[j].message
    <3>1. i \in DOMAIN handled /\ handled'[i] = handled[i] /\ handled[i] \in Range(handled)
      BY <2>1, <2>2 DEF Range
    <3>2. CASE j = Len(handled) + 1
      BY <1>4, <2>1, <2>2, <3>1, <3>2
    <3>3. CASE j \in DOMAIN handled
      BY <2>1, <2>2, <3>1, <3>3 DEF Order, TakenInOrder, Increasing
    <3> QED BY <2>1, <3>2, <3>3
  <2> QED BY <1>1, <2>1, <2>2 DEF Increasing, IsText
<1>5. CASE HandlerStarts
  <2> DEFINE d == Head(submitted)
  <2>1. /\ submitted # <<>> /\ submitted' = Tail(submitted)
        /\ Taken' = Taken /\ d \in Range(submitted) /\ Range(submitted) = Range(submitted') \cup {d}
    BY <1>5, Started DEF HandlerStarts
  <2>2. \/ handled' = handled /\ downloading' = downloading \cup {d} /\ history[d.message].kind = "attachment"
        \/ downloading' = downloading /\ handled' = Append(handled, d)
    BY <1>5, Started DEF Downloads
  <2>3. /\ Len(submitted) \in Nat \ {0} /\ DOMAIN submitted = 1 .. Len(submitted) /\ d = submitted[1]
        /\ DOMAIN submitted' = 1 .. Len(submitted) - 1
        /\ \A i \in 1 .. Len(submitted) - 1 : submitted'[i] = submitted[i + 1]
    BY <2>1, TailOfSequence DEF TypeInv
  <2> HIDE DEF d
  <2>4. \A i \in DOMAIN submitted' : i + 1 \in DOMAIN submitted /\ submitted'[i] = submitted[i + 1] /\ 1 < i + 1
    BY <2>3
  <2>5. Increasing(submitted)'
    <3> SUFFICES ASSUME NEW i \in DOMAIN submitted', NEW j \in DOMAIN submitted', i < j,
                        IsText(submitted'[i]), IsText(submitted'[j])
                 PROVE  submitted'[i].message < submitted'[j].message
      BY <1>1 DEF Increasing, IsText
    <3>1. i + 1 < j + 1
      BY <2>3
    <3> QED BY <2>4, <3>1 DEF Order, TakenInOrder, Increasing
  <2>6. \A x \in Range(submitted') : IsText(d) /\ IsText(x) => d.message < x.message
    <3> SUFFICES ASSUME NEW i \in DOMAIN submitted', IsText(d), IsText(submitted'[i])
                 PROVE  d.message < submitted'[i].message
      BY DEF Range
    <3>1. 1 \in DOMAIN submitted
      BY <2>3
    <3> QED BY <2>3, <2>4, <3>1 DEF Order, TakenInOrder, Increasing
  <2>7. \A x \in Range(handled) : IsText(x) /\ IsText(d) => x.message < d.message
    BY <2>1 DEF Order, TakenInOrder
  <2>8. Increasing(handled)' /\ Range(handled') \subseteq Range(handled) \cup {d}
    <3>1. CASE handled' = handled
      BY <1>1, <3>1 DEF Order, TakenInOrder, Increasing, IsText
    <3>2. CASE handled' = Append(handled, d)
      BY <1>4, <2>7, <3>2
    <3> QED BY <2>2, <3>1, <3>2
  <2>9. \A x \in Range(handled'), y \in Range(submitted') :
          IsText(x) /\ IsText(y) => x.message < y.message
    BY <2>1, <2>6, <2>8 DEF Order, TakenInOrder
  <2>10. \A x \in downloading' : history[x.message].kind = "attachment"
    BY <2>2 DEF Order, TakenInOrder
  <2> QED BY <1>1, <1>2, <2>1, <2>5, <2>8, <2>9, <2>10 DEF Order, TakenInOrder, IsText
<1>6. CASE Downloaded
  <2>1. PICK d \in downloading :
          /\ downloading' = downloading \ {d} /\ handled' = Append(handled, d)
          /\ submitted' = submitted /\ Taken' = Taken
    BY <1>6, WasDownloaded
  <2>2. ~IsText(d)
    BY DEF Order, TakenInOrder, IsText
  <2>3. Increasing(handled)' /\ Range(handled') = Range(handled) \cup {d}
    BY <1>4, <2>1, <2>2
  <2>4. Increasing(submitted)'
    BY <1>1, <2>1 DEF Order, TakenInOrder, Increasing, IsText
  <2> QED BY <1>1, <1>2, <2>1, <2>2, <2>3, <2>4 DEF Order, TakenInOrder, IsText
<1>7. CASE DownloadFails
  <2>1. UNCHANGED <<submitted, handled>> /\ downloading' \subseteq downloading
    BY <1>7 DEF DownloadFails
  <2>2. Taken' \subseteq Taken
    BY <2>1 DEF Taken
  <2> QED BY <1>1, <1>2, <2>1, <2>2 DEF Order, TakenInOrder, Increasing, IsText
<1> QED BY <1>5, <1>6, <1>7

LEMMA OrderStep == TypeInv /\ OrderInv /\ [Next]_vars => OrderInv'
<1> SUFFICES ASSUME TypeInv, OrderInv, [Next]_vars, Calm' PROVE Order'
  BY DEF OrderInv
<1>1. Order
  BY HappenedGrows DEF OrderInv, Calm
<1>2. ~OnMessageFails /\ ~Disconnect /\ ~Crash
  BY DEF OnMessageFails, Disconnect, Crash, Fault, Calm
<1>3. ~_on_reconnected /\ ~Connects
  BY <1>1 DEF Order, NoBackfill, _on_reconnected, Connects
<1>4. \A b \in Fills : ~BackfillStep(b) /\ ~BackfillListFails(b) /\ ~BackfillListsCut(b)
  BY <1>1 DEF Order, NoBackfill, BackfillStep, BackfillStarts, BackfillLists, BackfillChecks,
     BackfillSubmits, BackfillListFails, BackfillListsCut
<1>5. ASSUME Age \/ UNCHANGED vars \/ \E chat \in Chats \cup {NoChat} : on_bot_p2p_chat_entered(chat)
      PROVE  Order'
  <2>1. UNCHANGED <<history, connected, pushes, seen, taking, fills, submitted, downloading, handled>>
    BY <1>5 DEF Age, on_bot_p2p_chat_entered, vars, feishuVars, gatewayVars, loopVars
  <2> QED BY <1>1, <2>1, SameTaken DEF Order, NoBackfill, PushedInOrder, SeenInOrder, OwnerTexts, Messages
<1>6. ASSUME NEW chat \in Chats, NEW author \in {"owner", "bot"}, NEW kind \in Kinds,
             Post(chat, author, kind)
      PROVE  Order'
  BY <1>1, <1>6, OrderPost
<1> QED BY <1>1, <1>2, <1>3, <1>4, <1>5, <1>6, OrderRedeliver, OrderChecks, OrderSubmits,
        OrderHandler DEF Next, Websocket, Loop

-----------------------------------------------------------------------------
LEMMA Invariant == Spec => []Inv
<1>1. Init => Inv
  BY TypeInit, OnceInit, OrderInit DEF Inv, OnceInv, OrderInv
<1>2. Inv /\ [Next]_vars => Inv'
  BY TypeStep, OnceStep, OrderStep DEF Inv
<1> QED BY <1>1, <1>2, PTL DEF Spec

\* In a life of the process neither the websocket's thread nor the backfills
\* hand on a message twice (_seen_message_ids of gateway.py, checked and added
\* without a lock), for any number of reconnections, chats and messages.
THEOREM NoThreadHandsOnTwice == Spec => []HandedOnOncePerThread
<1>1. Inv => HandedOnOncePerThread
  <2> SUFFICES ASSUME Inv, "submit" \notin happened,
                      NEW i \in DOMAIN handled, NEW j \in DOMAIN handled, i < j,
                      handled[i].message = handled[j].message, handled[i].life = handled[j].life,
                      handled[i].via = handled[j].via
               PROVE  FALSE
    BY DEF HandedOnOncePerThread
  <2>1. IsDelivery(handled[i]) /\ IsDelivery(handled[j])
    BY DEF Inv, TypeInv, Taken, Range
  <2>2. handled[i] = handled[j]
    BY <2>1 DEF IsDelivery
  <2>3. DOMAIN handled = 1 .. Len(handled) /\ Len(handled) \in Nat
    BY SequenceLength DEF Inv, TypeInv
  <2>4. i # j
    BY <2>3
  <2> QED BY <2>2, <2>4 DEF Inv, OnceInv, Once, Apart, Distinct
<1> QED BY <1>1, Invariant, PTL

\* Texts that come over one connection reach the use cases in the order they
\* were written, whatever is pushed again and however long attachments between
\* them take to download (handle_message of private_chat_adapter.py).
THEOREM TextsAreInOrder == Spec => []TextsStayInOrder
<1>1. Inv => TextsStayInOrder
  BY DEF Inv, OrderInv, Calm, Order, TakenInOrder, Increasing, IsText, TextsStayInOrder
<1> QED BY <1>1, Invariant, PTL

-----------------------------------------------------------------------------
(* Least and greatest numbers, and the first page of a listing. *)

LEMMA MinIsLeast ==
  ASSUME NEW S \in SUBSET Nat, S # {}
  PROVE  Min(S) \in S /\ \A x \in S : Min(S) <= x
<1>1. PICK x \in S : \A y \in S : ~ (<<y, x>> \in OpToRel(<, Nat))
  BY NatLessThanWellFounded, WFMin
<1>2. \A y \in S : x <= y
  <2> TAKE y \in S
  <2>1. ~(y < x)
    BY <1>1 DEF OpToRel
  <2> QED BY <2>1
<1> QED BY <1>2 DEF Min

LEMMA MaxIsGreatest ==
  ASSUME NEW n \in Nat, NEW S \in SUBSET (0 .. n), S # {}
  PROVE  Max(S) \in S /\ \A x \in S : x <= Max(S)
<1> DEFINE T == {k \in 0 .. n : n - k \in S}
<1>1. T \in SUBSET Nat /\ T # {}
  <2>1. PICK x \in S : TRUE
    OBVIOUS
  <2>2. n - x \in 0 .. n /\ n - (n - x) = x
    OBVIOUS
  <2>3. n - x \in T
    BY <2>1, <2>2
  <2>4. T \subseteq 0 .. n /\ 0 .. n \subseteq Nat
    OBVIOUS
  <2> HIDE DEF T
  <2> QED BY <2>3, <2>4
<1>2. Min(T) \in T /\ \A k \in T : Min(T) <= k
  BY <1>1, MinIsLeast
<1>3. n - Min(T) \in S /\ Min(T) \in 0 .. n
  BY <1>2
<1>4. \A x \in S : x <= n - Min(T)
  <2> TAKE x \in S
  <2>1. n - x \in 0 .. n /\ n - (n - x) = x
    OBVIOUS
  <2>2. Min(T) <= n - x
    BY <1>2, <2>1
  <2> QED BY <1>3, <2>2
<1> HIDE DEF T
<1>5. \E x \in S : \A y \in S : x >= y
  BY <1>3, <1>4
<1> QED BY <1>5 DEF Max

\* A page is what comes first in a listing, and is empty only if the listing is.
LEMMA PageIsFirst ==
  ASSUME NEW n \in Nat, NEW S \in SUBSET (0 .. n)
  PROVE  /\ Page(S) \subseteq S
         /\ S # {} => Page(S) # {}
         /\ \A m \in S \ Page(S) : \A x \in Page(S) : x < m
<1> DEFINE Upto(m) == {k \in S : k <= m}
<1>1. \A m \in S : IsFiniteSet(Upto(m)) /\ Cardinality(Upto(m)) \in Nat
  <2> TAKE m \in S
  <2>1. IsFiniteSet(0 .. n)
    BY FS_Interval
  <2>2. Upto(m) \in SUBSET (0 .. n)
    OBVIOUS
  <2>3. IsFiniteSet(Upto(m))
    BY <2>1, <2>2, FS_Subset
  <2> QED BY <2>3, FS_CardinalityType
<1>2. Page(S) = {m \in S : Cardinality(Upto(m)) <= PageSize}
  BY DEF Page
<1>3. ASSUME NEW m \in S \ Page(S), NEW x \in Page(S) PROVE x < m
  <2>1. /\ x \in S /\ m \in S /\ x \in 0 .. n /\ m \in 0 .. n
        /\ Cardinality(Upto(x)) <= PageSize /\ ~(Cardinality(Upto(m)) <= PageSize)
    BY <1>2, <1>3
  <2> SUFFICES ASSUME m <= x PROVE FALSE
    BY <2>1
  <2>2. Upto(m) \in SUBSET Upto(x)
    <3> SUFFICES ASSUME NEW k \in S, k <= m PROVE k <= x
      OBVIOUS
    <3>1. k \in 0 .. n
      OBVIOUS
    <3> QED BY <2>1, <3>1
  <2>3. Cardinality(Upto(m)) <= Cardinality(Upto(x))
    BY <1>1, <2>1, <2>2, FS_Subset
  <2> HIDE DEF Upto
  <2> QED BY <1>1, <2>1, <2>3, MessageIntakeAssumption
<1>4. ASSUME S # {} PROVE Page(S) # {}
  <2>1. PICK x \in S : \A y \in S : x <= y
    <3>1. S \in SUBSET Nat
      OBVIOUS
    <3>2. Min(S) \in S /\ \A y \in S : Min(S) <= y
      BY <1>4, <3>1, MinIsLeast
    <3> QED BY <3>2
  <2>2. Upto(x) = {x}
    <3>1. \A y \in S : y <= x <=> y = x
      BY <2>1
    <3> QED BY <3>1
  <2>3. Cardinality(Upto(x)) = 1
    BY <2>2, FS_Singleton
  <2> HIDE DEF Upto
  <2> QED BY <1>2, <2>1, <2>3, MessageIntakeAssumption
<1> QED BY <1>2, <1>3, <1>4

-----------------------------------------------------------------------------
(* A backfill leaves nothing out: what it has not handed on it still has   *)
(* to list, or has in hand.                                                *)

FillsOver(n) ==
  [pc : {"none", "scheduled", "listing", "page", "done", "failed"},
   left : SUBSET Chats, chats : SUBSET Chats, cut : SUBSET Chats, after : 0 .. n, upTo : 0 .. n,
   at : 0 .. n, items : SUBSET (1 .. n), checked : BOOLEAN]

Fit(f) ==
  /\ f.pc \in {"none", "scheduled"} => f.chats = {}
  /\ f.pc \in {"listing", "page"} => f.left # {} /\ f.after <= f.at
  /\ f.pc \in {"none", "scheduled", "listing"} => f.items = {}
  /\ f.pc = "page" => f.items # {}
Shape == TypeOK /\ \A b \in Fills : Fit(fills[b])

Readable(m) == history[m].kind \in {"text", "attachment"}
Span(f) == {m \in f.after + 1 .. f.upTo : history[m].chat \in f.chats \ f.cut /\ Readable(m)}
Awaits(f, m) ==
  \/ m \in f.items
  \/ history[m].chat \in f.left /\ (history[m].chat = Min(f.left) => f.at < m)
Covers(b) == \A m \in Span(fills[b]) : m \in seen \/ Awaits(fills[b], m)
CoverInv ==
  "submit" \notin happened =>
    \A b \in Fills : fills[b].pc \in {"listing", "page"} => Covers(b)

\* A step of backfill b that goes on from f to g, with the ids of s seen.
Passes(f, g, s) ==
  /\ g \in FillsOver(Len(history)) /\ Fit(g)
  /\ g.after = f.after /\ g.upTo = f.upTo /\ g.chats = f.chats /\ g.cut = f.cut
  /\ \A m \in Span(f) : Awaits(f, m) => m \in s \/ Awaits(g, m)
  /\ g.pc = "done" => g.items = {} /\ g.left = {}

LEMMA TypedFills ==
  ASSUME Shape
  PROVE  /\ Len(history) \in Nat /\ Messages = 1 .. Len(history)
         /\ fills \in [Fills -> FillsOver(Len(history))]
         /\ \A m \in Messages : history[m].chat \in Chats /\ history[m].kind \in Kinds
<1>1. Messages = 1 .. Len(history)
  BY DEF Messages
<1> DEFINE R == [chat : Chats, author : {"owner", "bot"}, kind : Kinds]
<1>2. history \in Seq(R)
  BY DEF Shape, TypeOK
<1>3. fills \in [Fills -> FillsOver(Len(history))]
  BY <1>1 DEF Shape, TypeOK, FillsOver
<1>4. Len(history) \in Nat /\ \A m \in 1 .. Len(history) : history[m] \in R
  <2> HIDE DEF R
  <2>1. Len(history) \in Nat
    BY <1>2
  <2> QED BY <1>2, <2>1, ElementOfSeq
<1> QED BY <1>1, <1>3, <1>4

LEMMA NextPagePasses ==
  ASSUME Shape, NEW f \in FillsOver(Len(history)), NEW hasMore \in BOOLEAN,
         f.pc \in {"listing", "page"}, f.left # {}, f.items = {}, f.after <= f.at,
         ~hasMore => \A m \in Span(f) : Awaits(f, m) => history[m].chat # Min(f.left)
  PROVE  Passes(f, NextPage(f, hasMore), {})
<1> DEFINE left == IF hasMore THEN f.left ELSE f.left \ {Min(f.left)}
           at == IF hasMore THEN f.at ELSE f.after
           pc == IF left = {} THEN "done" ELSE "listing"
           g == [f EXCEPT !.pc = pc, !.left = left, !.at = at, !.checked = FALSE]
<1>1. NextPage(f, hasMore) = g
  BY DEF NextPage
<1>2. /\ g.pc = pc /\ g.left = left /\ g.at = at /\ g.after = f.after /\ g.upTo = f.upTo
      /\ g.chats = f.chats /\ g.cut = f.cut /\ g.items = {} /\ g \in FillsOver(Len(history))
  BY DEF FillsOver
<1>3. Fit(g)
  <2>1. f.after \in Nat
    BY TypedFills DEF FillsOver
  <2> HIDE DEF g
  <2> QED BY <1>2, <2>1 DEF Fit
<1>4. ASSUME NEW m \in Span(f), Awaits(f, m) PROVE Awaits(g, m)
  <2>1. m > f.after
    BY TypedFills DEF Span, FillsOver
  <2>2. history[m].chat \in f.left /\ (history[m].chat = Min(f.left) => f.at < m)
    BY <1>4 DEF Awaits
  <2>3. CASE hasMore
    BY <1>2, <2>2, <2>3 DEF Awaits
  <2>4. CASE ~hasMore
    <3>1. history[m].chat # Min(f.left)
      BY <1>4, <2>4
    <3>2. history[m].chat \in g.left /\ g.at < m
      BY <1>2, <2>1, <2>2, <2>4, <3>1
    <3> QED BY <3>2 DEF Awaits
  <2> QED BY <2>3, <2>4
<1> HIDE DEF g
<1> QED BY <1>1, <1>2, <1>3, <1>4 DEF Passes

\* What is listed is to come, of the chat that the backfill is at.
LEMMA ListingIsToCome ==
  ASSUME Shape, NEW b \in Fills
  PROVE  /\ Listing(b) \in SUBSET (0 .. Len(history)) /\ Listing(b) \subseteq Messages
         /\ \A m \in Listing(b) : fills[b].at < m
         /\ \A m \in Span(fills[b]) :
              history[m].chat = Min(fills[b].left) /\ fills[b].at < m => m \in Listing(b)
BY TypedFills DEF Listing, Span, FillsOver

LEMMA ItemDonePasses ==
  ASSUME Shape, NEW b \in Fills, fills[b].pc = "page", ItemDone(b),
         NEW s, Item(b) \in s \/ ~Readable(Item(b))
  PROVE  Passes(fills[b], fills'[b], s) /\ OnlyFill(b)
<1> DEFINE f == fills[b]
           rest == f.items \ {Item(b)}
           e == [f EXCEPT !.items = {}]
           g == IF rest # {} THEN [f EXCEPT !.items = rest, !.checked = FALSE]
                             ELSE NextPage(e, HasMore(b))
<1>1. fills' = [fills EXCEPT ![b] = g] /\ f \in FillsOver(Len(history)) /\ b \in DOMAIN fills
  BY TypedFills DEF ItemDone
<1>2. fills'[b] = g /\ OnlyFill(b)
  BY <1>1 DEF OnlyFill
<1>3. f.left # {} /\ f.after <= f.at /\ f.items # {} /\ f.pc = "page"
  BY DEF Shape, Fit
<1>4. \A m \in Span(f) : Awaits(f, m) =>
        \/ m \in s \/ m \in rest
        \/ history[m].chat \in f.left /\ (history[m].chat = Min(f.left) => f.at < m)
  BY DEF Awaits, Span
<1>5. CASE rest # {}
  <2>1. /\ g = [f EXCEPT !.items = rest, !.checked = FALSE]
        /\ rest \in SUBSET (1 .. Len(history))
    BY <1>1, <1>5 DEF FillsOver
  <2>2. /\ g \in FillsOver(Len(history)) /\ g.pc = "page" /\ g.left = f.left /\ g.at = f.at
        /\ g.after = f.after /\ g.upTo = f.upTo /\ g.chats = f.chats /\ g.cut = f.cut
        /\ g.items = rest
    BY <1>1, <1>3, <2>1 DEF FillsOver
  <2> HIDE DEF g, f, rest
  <2>3. Fit(g)
    BY <1>3, <1>5, <2>2 DEF Fit
  <2>4. \A m \in Span(f) : Awaits(f, m) => m \in s \/ Awaits(g, m)
    BY <1>4, <2>2 DEF Awaits
  <2>5. Passes(f, g, s)
    BY <2>2, <2>3, <2>4 DEF Passes
  <2> QED BY <1>2, <2>5 DEF f
<1>6. CASE rest = {}
  <2>1. g = NextPage(e, HasMore(b)) /\ HasMore(b) \in BOOLEAN
    BY <1>6 DEF HasMore
  <2>2. /\ e \in FillsOver(Len(history)) /\ e.pc = "page" /\ e.left = f.left /\ e.at = f.at
        /\ e.after = f.after /\ e.upTo = f.upTo /\ e.chats = f.chats /\ e.cut = f.cut
        /\ e.items = {}
    BY <1>1, <1>3 DEF FillsOver
  <2>3. Span(e) = Span(f)
    BY <2>2 DEF Span
  <2>4. ~HasMore(b) => \A m \in Span(f) : Awaits(e, m) => history[m].chat # Min(f.left)
    BY <2>2, ListingIsToCome DEF HasMore, Awaits, Span
  <2> HIDE DEF g, e
  <2>5. Passes(e, g, {})
    BY <1>3, <2>1, <2>2, <2>3, <2>4, NextPagePasses
  <2>6. \A m \in Span(f) : Awaits(f, m) => m \in s \/ Awaits(e, m)
    BY <1>4, <1>6, <2>2 DEF Awaits
  <2>7. Passes(f, g, s)
    BY <2>2, <2>3, <2>5, <2>6 DEF Passes
  <2> QED BY <1>2, <2>7
<1> QED BY <1>5, <1>6

LEMMA ListsPasses ==
  ASSUME Shape, NEW b \in Fills, BackfillLists(b)
  PROVE  Passes(fills[b], fills'[b], {}) /\ OnlyFill(b)
<1> DEFINE f == fills[b]
           listing == Listing(b)
           items == Page(listing)
           h == [f EXCEPT !.pc = "page", !.items = items, !.at = Max(items)]
           g == IF items = {} THEN NextPage(f, FALSE) ELSE h
<1>1. /\ fills' = [fills EXCEPT ![b] = g] /\ f \in FillsOver(Len(history)) /\ b \in DOMAIN fills
      /\ f.pc = "listing"
  BY TypedFills DEF BackfillLists
<1>2. fills'[b] = g /\ OnlyFill(b)
  BY <1>1 DEF OnlyFill
<1>3. f.left # {} /\ f.after <= f.at /\ f.items = {}
  BY <1>1 DEF Shape, Fit
<1>4. /\ Len(history) \in Nat /\ listing \in SUBSET (0 .. Len(history)) /\ listing \subseteq Messages
      /\ items \subseteq listing /\ (listing # {} => items # {})
      /\ \A m \in listing \ items : \A x \in items : x < m
      /\ \A m \in listing : f.at < m
  BY TypedFills, ListingIsToCome, PageIsFirst
<1>5. \A m \in Span(f) : Awaits(f, m) =>
        history[m].chat \in f.left /\ (history[m].chat = Min(f.left) => m \in listing)
  BY <1>3, ListingIsToCome DEF Awaits
<1> HIDE DEF items, listing
<1>6. CASE items = {}
  <2>1. \A m \in Span(f) : Awaits(f, m) => history[m].chat # Min(f.left)
    BY <1>4, <1>5, <1>6
  <2>2. Passes(f, NextPage(f, FALSE), {})
    BY <1>1, <1>3, <2>1, NextPagePasses
  <2> QED BY <1>2, <1>6, <2>2
<1>7. CASE items # {}
  <2>1. Max(items) \in items /\ \A x \in items : x <= Max(items)
    BY <1>4, <1>7, MaxIsGreatest
  <2>2. /\ Max(items) \in 0 .. Len(history) /\ f.at < Max(items)
        /\ items \in SUBSET (1 .. Len(history))
    BY <1>4, <2>1 DEF Messages
  <2>3. /\ h \in FillsOver(Len(history)) /\ h.pc = "page" /\ h.left = f.left /\ h.at = Max(items)
        /\ h.after = f.after /\ h.upTo = f.upTo /\ h.chats = f.chats /\ h.cut = f.cut
        /\ h.items = items
    BY <1>1, <2>2 DEF FillsOver
  <2>4. g = h
    BY <1>7
  <2>5. f.after \in Nat /\ f.at \in Nat /\ Max(items) \in Nat
    BY <1>1, <1>4, <2>2 DEF FillsOver
  <2> HIDE DEF h, g, f
  <2>6. Fit(h)
    BY <1>3, <1>7, <2>2, <2>3, <2>5 DEF Fit
  <2>7. ASSUME NEW m \in Span(f), Awaits(f, m) PROVE Awaits(h, m)
    <3>1. CASE history[m].chat # Min(f.left)
      BY <1>5, <2>3, <2>7, <3>1 DEF Awaits
    <3>2. CASE m \in items
      BY <2>3, <3>2 DEF Awaits
    <3>3. CASE history[m].chat = Min(f.left) /\ m \notin items
      <4>1. Max(items) < m
        BY <1>4, <1>5, <2>1, <2>7, <3>3
      <4> QED BY <1>5, <2>3, <2>7, <4>1 DEF Awaits
    <3> QED BY <3>1, <3>2, <3>3
  <2>8. Passes(f, h, {})
    BY <2>3, <2>6, <2>7 DEF Passes
  <2> QED BY <1>2, <2>4, <2>8 DEF f
<1> QED BY <1>6, <1>7

-----------------------------------------------------------------------------
(* The types of the rest. *)

LEMMA ShapeInit == Init => Shape
<1> SUFFICES ASSUME Init PROVE Shape
  OBVIOUS
<1>1. Messages = {} /\ Len(history) = 0
  BY DEF Init, Messages
<1>2. TypeOK
  BY <1>1, MessageIntakeAssumption DEF Init, TypeOK, NoFill, Deliveries
<1> QED BY <1>2 DEF Init, Shape, Fit, NoFill

\* What the owner writes is longer than what there was.
LEMMA ShapePost ==
  ASSUME Shape, NEW chat \in Chats, NEW author \in {"owner", "bot"}, NEW kind \in Kinds,
         Post(chat, author, kind)
  PROVE  Shape'
<1>1. /\ Len(history) \in Nat /\ Len(history') = Len(history) + 1
      /\ history' \in Seq([chat : Chats, author : {"owner", "bot"}, kind : Kinds])
  BY DEF Post, Shape, TypeOK
<1>2. Messages \subseteq Messages' /\ Len(history') \in Messages'
  BY <1>1 DEF Messages
<1>3. pushes' \in Seq(Messages')
  <2>1. pushes \in Seq(Messages')
    BY <1>2 DEF Shape, TypeOK
  <2> QED BY <1>2, <2>1 DEF Post
<1>4. Deliveries \subseteq Deliveries'
  BY <1>2 DEF Deliveries
<1>5. submitted \in Seq(Deliveries') /\ handled \in Seq(Deliveries') /\ downloading \subseteq Deliveries'
  BY <1>4 DEF Shape, TypeOK
<1>6. fills \in [Fills -> FillsOver(Len(history'))]
  <2>1. FillsOver(Len(history)) \subseteq FillsOver(Len(history'))
    <3>1. 0 .. Len(history) \subseteq 0 .. Len(history') /\ 1 .. Len(history) \subseteq 1 .. Len(history')
      BY <1>1
    <3> QED BY <3>1 DEF FillsOver
  <2> QED BY <2>1, TypedFills
<1>7. /\ UNCHANGED <<aged, connected, seen, known, taking, fills, submitted, downloading, handled,
                     life, happened, faults>>
      /\ aged \in 0 .. Len(history')
  BY <1>1 DEF Post, gatewayVars, loopVars, faultVars, Shape, TypeOK
<1>8. TypeOK'
  BY <1>1, <1>2, <1>3, <1>5, <1>6, <1>7 DEF Shape, TypeOK, FillsOver, Messages
<1> QED BY <1>7, <1>8 DEF Shape, Fit

\* All other steps leave the history alone.
LEMMA ShapeKept ==
  ASSUME Shape, UNCHANGED history,
         aged' \in 0 .. Len(history), connected' \in {"up", "down", "starting"},
         pushes' \in Seq(Messages), seen' \subseteq Messages, known' \subseteq Chats,
         taking' \in {NoMessage} \cup Messages,
         fills' \in [Fills -> FillsOver(Len(history))], \A b \in Fills : Fit(fills'[b]),
         submitted' \in Seq(Deliveries), downloading' \subseteq Deliveries, handled' \in Seq(Deliveries),
         life' \in Nat, happened' \subseteq Faults, faults' \in 0 .. MaxFaults
  PROVE  Shape'
<1>1. Messages' = Messages /\ Deliveries' = Deliveries
  BY DEF Messages, Deliveries
<1>2. TypeOK'
  BY <1>1 DEF Shape, TypeOK, FillsOver, Messages
<1> QED BY <1>2 DEF Shape, Fit

LEMMA ShapeGives ==
  ASSUME Shape
  PROVE  /\ aged \in 0 .. Len(history) /\ connected \in {"up", "down", "starting"}
         /\ pushes \in Seq(Messages) /\ seen \subseteq Messages /\ known \subseteq Chats
         /\ taking \in {NoMessage} \cup Messages
         /\ fills \in [Fills -> FillsOver(Len(history))] /\ \A b \in Fills : Fit(fills[b])
         /\ submitted \in Seq(Deliveries) /\ downloading \subseteq Deliveries
         /\ handled \in Seq(Deliveries)
         /\ life \in Nat /\ happened \subseteq Faults /\ faults \in 0 .. MaxFaults
BY TypedFills DEF Shape, TypeOK

LEMMA FaultTypes ==
  ASSUME Shape, NEW kind, Fault(kind)
  PROVE  life' \in Nat /\ happened' \subseteq Faults /\ faults' \in 0 .. MaxFaults
BY ShapeGives, MessageIntakeAssumption DEF Fault

LEMMA ShapeFeishu ==
  ASSUME Shape, Redeliver \/ Disconnect \/ Age \/ Connects \/ UNCHANGED vars
  PROVE  Shape'
<1>1. CASE Redeliver
  <2>1. pushes' \in Seq(Messages)
    BY <1>1, ShapeGives DEF Redeliver
  <2> QED BY <1>1, <2>1, ShapeGives, FaultTypes, ShapeKept DEF Redeliver, gatewayVars, loopVars
<1>2. CASE Disconnect
  BY <1>2, ShapeGives, FaultTypes, ShapeKept DEF Disconnect, gatewayVars, loopVars
<1>3. CASE Age
  <2>1. aged' \in 0 .. Len(history)
    BY <1>3, ShapeGives DEF Age
  <2> QED BY <1>3, <2>1, ShapeGives, FaultTypes, ShapeKept DEF Age, gatewayVars, loopVars
<1>4. CASE Connects
  BY <1>4, ShapeGives, ShapeKept DEF Connects, gatewayVars, loopVars, faultVars
<1>5. CASE UNCHANGED vars
  BY <1>5, ShapeGives, ShapeKept DEF vars, feishuVars, gatewayVars, loopVars, faultVars
<1> QED BY <1>1, <1>2, <1>3, <1>4, <1>5

LEMMA DeliveriesAre ==
  ASSUME Shape, NEW m \in Messages, NEW via \in {"websocket", "backfill"}
  PROVE  Delivery(m, via) \in Deliveries
BY ShapeGives DEF Delivery, Deliveries

LEMMA ShapeWebsocket ==
  ASSUME Shape, Websocket \/ OnMessageFails \/ _on_reconnected
                \/ \E chat \in Chats \cup {NoChat} : on_bot_p2p_chat_entered(chat)
  PROVE  Shape'
<1>1. CASE OnMessageChecks
  <2>1. pushes # <<>> /\ pushes' = Tail(pushes) /\ OnMessage(Head(pushes)) /\ UNCHANGED history
    BY <1>1 DEF OnMessageChecks
  <2>2. Head(pushes) \in Messages /\ Tail(pushes) \in Seq(Messages)
    BY <2>1, ShapeGives
  <2>3. history[Head(pushes)].chat \in Chats
    BY <2>2, TypedFills
  <2>4. taking' \in {NoMessage} \cup Messages /\ known' \subseteq Chats
    BY <2>1, <2>2, <2>3, ShapeGives DEF OnMessage
  <2> QED BY <1>1, <2>1, <2>2, <2>4, ShapeGives, ShapeKept DEF OnMessageChecks, loopVars, faultVars
<1>2. CASE OnMessageSubmits
  <2>1. taking \in Messages /\ Delivery(taking, "websocket") \in Deliveries
    BY <1>2, ShapeGives, DeliveriesAre DEF OnMessageSubmits
  <2>2. submitted' \in Seq(Deliveries) /\ seen' \subseteq Messages /\ taking' = NoMessage
    BY <1>2, <2>1, ShapeGives DEF OnMessageSubmits
  <2> QED BY <1>2, <2>2, ShapeGives, ShapeKept DEF OnMessageSubmits, feishuVars, faultVars
<1>3. CASE OnMessageFails
  <2>1. seen' \subseteq Messages /\ taking' = NoMessage
    BY <1>3, ShapeGives DEF OnMessageFails
  <2> QED BY <1>3, <2>1, ShapeGives, FaultTypes, ShapeKept DEF OnMessageFails, feishuVars, loopVars
<1>4. CASE _on_reconnected
  <2>1. PICK b \in Fills : fills[b].pc = "none" /\ fills' = [fills EXCEPT ![b].pc = "scheduled"]
    BY <1>4 DEF _on_reconnected
  <2>2. fills' \in [Fills -> FillsOver(Len(history))]
    <3> DEFINE g == [fills[b] EXCEPT !.pc = "scheduled"]
    <3>1. fills' = [fills EXCEPT ![b] = g] /\ fills[b] \in FillsOver(Len(history))
      BY <2>1, ShapeGives
    <3>2. g \in FillsOver(Len(history))
      BY <3>1 DEF FillsOver
    <3> HIDE DEF g
    <3> QED BY <3>1, <3>2, ShapeGives
  <2>3. \A a \in Fills : Fit(fills'[a])
    BY <2>1, ShapeGives DEF Fit, FillsOver
  <2> QED BY <1>4, <2>2, <2>3, ShapeGives, ShapeKept DEF _on_reconnected, loopVars, faultVars
<1>5. ASSUME NEW chat \in Chats \cup {NoChat}, on_bot_p2p_chat_entered(chat) PROVE Shape'
  <2>1. known' \subseteq Chats
    BY <1>5, ShapeGives DEF on_bot_p2p_chat_entered
  <2> QED BY <1>5, <2>1, ShapeGives, FaultTypes, ShapeKept
          DEF on_bot_p2p_chat_entered, feishuVars, loopVars
<1> QED BY <1>1, <1>2, <1>3, <1>4, <1>5 DEF Websocket

LEMMA ShapeHandlers ==
  ASSUME Shape, HandlerStarts \/ Downloaded \/ DownloadFails
  PROVE  Shape'
<1>1. CASE HandlerStarts
  <2>1. submitted # <<>> /\ submitted' = Tail(submitted)
    BY <1>1 DEF HandlerStarts
  <2>2. Head(submitted) \in Deliveries /\ Tail(submitted) \in Seq(Deliveries)
    BY <2>1, ShapeGives
  <2>3. downloading' \subseteq Deliveries /\ handled' \in Seq(Deliveries)
    <3>1. CASE Downloads(Head(submitted).message)
      BY <1>1, <2>2, <3>1, ShapeGives DEF HandlerStarts
    <3>2. CASE ~Downloads(Head(submitted).message)
      <4>1. downloading' = downloading /\ handled' = Append(handled, Head(submitted))
        BY <1>1, <3>2 DEF HandlerStarts
      <4> QED BY <2>2, <4>1, ShapeGives
    <3> QED BY <3>1, <3>2
  <2> QED BY <1>1, <2>1, <2>2, <2>3, ShapeGives, ShapeKept
          DEF HandlerStarts, feishuVars, gatewayVars, faultVars
<1>2. CASE Downloaded
  <2>1. PICK d \in downloading : downloading' = downloading \ {d} /\ handled' = Append(handled, d)
    BY <1>2 DEF Downloaded
  <2>2. downloading' \subseteq Deliveries /\ handled' \in Seq(Deliveries)
    BY <2>1, ShapeGives
  <2> QED BY <1>2, <2>2, ShapeGives, ShapeKept DEF Downloaded, feishuVars, gatewayVars, faultVars
<1>3. CASE DownloadFails
  <2>1. downloading' \subseteq Deliveries
    BY <1>3, ShapeGives DEF DownloadFails
  <2> QED BY <1>3, <2>1, ShapeGives, FaultTypes, ShapeKept DEF DownloadFails, feishuVars, gatewayVars
<1> QED BY <1>1, <1>2, <1>3

LEMMA ShapeCrash ==
  ASSUME Shape, Crash
  PROVE  Shape'
<1>1. known' \subseteq Chats
  <2>1. \A i \in DOMAIN handled : history[handled[i].message].chat \in Chats
    <3> TAKE i \in DOMAIN handled
    <3>1. handled[i] \in Deliveries
      BY ShapeGives
    <3>2. handled[i].message \in Messages
      BY <3>1 DEF Deliveries
    <3> QED BY <3>2, TypedFills
  <2> QED BY <2>1 DEF Crash
<1>2. /\ fills' = [b \in Fills |-> IF fills[b].pc \in {"none", "done"} THEN fills[b]
                                    ELSE [NoFill EXCEPT !.pc = "failed"]]
  BY DEF Crash
<1> DEFINE lost == [NoFill EXCEPT !.pc = "failed"]
<1>5. lost \in FillsOver(Len(history)) /\ lost.pc = "failed"
  <2>1. 0 \in 0 .. Len(history)
    BY TypedFills
  <2>2. NoFill \in FillsOver(Len(history))
    BY <2>1 DEF NoFill, FillsOver
  <2> QED BY <2>2 DEF FillsOver
<1> HIDE DEF lost
<1>6. Fit(lost)
  BY <1>5 DEF Fit
<1>3. fills' \in [Fills -> FillsOver(Len(history))] /\ \A b \in Fills : Fit(fills'[b])
  BY <1>2, <1>5, <1>6, ShapeGives DEF lost
<1>4. /\ life' \in Nat /\ happened' \subseteq Faults /\ faults' \in 0 .. MaxFaults
      /\ UNCHANGED <<history, aged, handled>> /\ connected' = "starting" /\ pushes' = <<>>
      /\ seen' = {} /\ taking' = NoMessage /\ submitted' = <<>> /\ downloading' = {}
  BY ShapeGives, MessageIntakeAssumption DEF Crash
<1> QED BY <1>1, <1>3, <1>4, ShapeGives, ShapeKept

-----------------------------------------------------------------------------
(* The steps of the backfills. *)

\* A backfill that starts covers all the chats that are known.
LEMMA StartsCovering ==
  ASSUME Shape, NEW b \in Fills, BackfillStarts(b)
  PROVE  /\ fills'[b] \in FillsOver(Len(history)) /\ Fit(fills'[b]) /\ OnlyFill(b)
         /\ fills'[b].pc \in {"listing", "done"}
         /\ fills'[b].pc = "listing" => \A m \in Span(fills'[b]) : Awaits(fills'[b], m)
<1>6. PICK upTo \in aged .. Len(history) :
        fills' = [fills EXCEPT ![b] =
          [@ EXCEPT !.pc = IF known = {} THEN "done" ELSE "listing",
                    !.left = known, !.chats = known, !.after = aged, !.upTo = upTo, !.at = aged]]
  BY DEF BackfillStarts
<1> DEFINE f == fills[b]
           pc == IF known = {} THEN "done" ELSE "listing"
           g == [f EXCEPT !.pc = pc, !.left = known, !.chats = known, !.after = aged,
                          !.upTo = upTo, !.at = aged]
<1>1. /\ fills' = [fills EXCEPT ![b] = g] /\ f \in FillsOver(Len(history)) /\ b \in DOMAIN fills
      /\ f.pc = "scheduled" /\ f.items = {} /\ Len(history) \in Nat
  BY <1>6, TypedFills, ShapeGives DEF BackfillStarts, Fit
<1>2. fills'[b] = g /\ OnlyFill(b)
  BY <1>1 DEF OnlyFill
<1>3. /\ g \in FillsOver(Len(history)) /\ g.pc = pc /\ g.left = known /\ g.chats = known
      /\ g.after = aged /\ g.at = aged /\ g.upTo = upTo /\ g.items = {} /\ aged \in Nat
  <2>1. /\ known \in SUBSET Chats /\ aged \in 0 .. Len(history) /\ aged \in Nat
        /\ upTo \in 0 .. Len(history) /\ pc \in {"done", "listing"}
    BY <1>1, ShapeGives
  <2> HIDE DEF pc, f
  <2> QED BY <1>1, <2>1 DEF FillsOver
<1> HIDE DEF g
<1>4. Fit(g)
  BY <1>3 DEF Fit
<1>5. \A m \in Span(g) : Awaits(g, m)
  <2>1. upTo \in Nat
    BY <1>1, <1>3
  <2> QED BY <1>3, <2>1 DEF Span, Awaits
<1> QED BY <1>2, <1>3, <1>4, <1>5

\* The item that backfill b is at is one of its page, of the messages.
LEMMA ItemOfPage ==
  ASSUME Shape, NEW b \in Fills, fills[b].pc = "page"
  PROVE  Item(b) \in fills[b].items /\ Item(b) \in Messages
<1>1. fills[b].items # {} /\ fills[b].items \subseteq 1 .. Len(history) /\ Len(history) \in Nat
  BY TypedFills, ShapeGives DEF Fit, FillsOver
<1>2. fills[b].items \in SUBSET Nat
  BY <1>1
<1> QED BY <1>1, <1>2, MinIsLeast DEF Item, Messages

\* An item that is not taken has been seen, or holds nothing that could be read.
LEMMA ChecksPasses ==
  ASSUME Shape, NEW b \in Fills, BackfillChecks(b)
  PROVE  Passes(fills[b], fills'[b], seen) /\ OnlyFill(b)
<1>1. CASE Takes(Item(b))
  <2> DEFINE f == fills[b]
             g == [f EXCEPT !.checked = TRUE]
  <2>1. fills' = [fills EXCEPT ![b] = g] /\ f \in FillsOver(Len(history)) /\ f.pc = "page" /\ Fit(f)
    BY <1>1, ShapeGives DEF BackfillChecks
  <2>2. fills'[b] = g /\ OnlyFill(b)
    BY <2>1, ShapeGives DEF OnlyFill
  <2>3. /\ g \in FillsOver(Len(history)) /\ g.pc = f.pc /\ g.left = f.left /\ g.chats = f.chats
        /\ g.after = f.after /\ g.at = f.at /\ g.upTo = f.upTo /\ g.items = f.items
        /\ g.cut = f.cut
    BY <2>1 DEF FillsOver
  <2> HIDE DEF g
  <2>4. Fit(g) /\ \A m \in Span(f) : Awaits(f, m) => Awaits(g, m)
    BY <2>1, <2>3 DEF Fit, Awaits
  <2> QED BY <2>1, <2>2, <2>3, <2>4 DEF Passes
<1>2. CASE ~Takes(Item(b))
  <2>1. fills[b].pc = "page" /\ ItemDone(b)
    BY <1>2 DEF BackfillChecks
  <2>2. Item(b) \in seen \/ ~Readable(Item(b))
    BY <1>2 DEF Takes, Readable, BackfillKinds
  <2> QED BY <2>1, <2>2, ItemDonePasses
<1> QED BY <1>1, <1>2

LEMMA SubmitsPasses ==
  ASSUME Shape, NEW b \in Fills, BackfillSubmits(b)
  PROVE  Passes(fills[b], fills'[b], seen') /\ OnlyFill(b)
<1>1. fills[b].pc = "page" /\ ItemDone(b) /\ Item(b) \in seen'
  BY DEF BackfillSubmits
<1> QED BY <1>1, ItemDonePasses

\* A step that fits one backfill anew leaves all fitting.
LEMMA OneFillFits ==
  ASSUME Shape, NEW b \in Fills, OnlyFill(b), fills' = [fills EXCEPT ![b] = fills'[b]],
         fills'[b] \in FillsOver(Len(history)), Fit(fills'[b])
  PROVE  fills' \in [Fills -> FillsOver(Len(history))] /\ \A a \in Fills : Fit(fills'[a])
<1>1. \A a \in Fills : Fit(fills'[a])
  BY ShapeGives DEF OnlyFill
<1> QED BY <1>1, ShapeGives

LEMMA BackfillChangesOne ==
  ASSUME Shape, NEW b \in Fills, FillActs(b)
  PROVE  fills' = [fills EXCEPT ![b] = fills'[b]]
<1>1. DOMAIN fills = Fills
  BY TypedFills
<1>2. CASE BackfillStarts(b)
  <2>1. PICK upTo \in aged .. Len(history) :
          fills' = [fills EXCEPT ![b] =
            [@ EXCEPT !.pc = IF known = {} THEN "done" ELSE "listing", !.left = known,
                      !.chats = known, !.after = aged, !.upTo = upTo, !.at = aged]]
    BY <1>2 DEF BackfillStarts
  <2> QED BY <1>1, <2>1
<1>3. CASE ~BackfillStarts(b)
  BY <1>1, <1>3 DEF BackfillStep, BackfillLists, BackfillChecks, BackfillSubmits,
     BackfillListFails, BackfillListsCut, FillActs, ItemDone
<1> QED BY <1>2, <1>3

\* The page that does not say how to go on: what is given up is of the chat
\* that is cut.
LEMMA CutFits ==
  ASSUME Shape, NEW b \in Fills, BackfillListsCut(b)
  PROVE  /\ fills'[b] \in FillsOver(Len(history)) /\ Fit(fills'[b]) /\ OnlyFill(b)
         /\ fills[b].pc = "listing" /\ fills'[b].pc = "page"
         /\ \A m \in Span(fills'[b]) :
              m \in Span(fills[b]) /\ (Awaits(fills[b], m) => Awaits(fills'[b], m))
<1> DEFINE f == fills[b]
           listing == Listing(b)
           items == Page(listing)
           h == [f EXCEPT !.pc = "page", !.items = items, !.at = Max(items),
                          !.cut = @ \cup {Min(fills[b].left)}]
<1>1. /\ fills' = [fills EXCEPT ![b] = h] /\ f \in FillsOver(Len(history)) /\ b \in DOMAIN fills
      /\ f.pc = "listing" /\ items # listing
  BY TypedFills DEF BackfillListsCut
<1>2. fills'[b] = h /\ OnlyFill(b)
  BY <1>1 DEF OnlyFill
<1>3. f.left # {} /\ f.after <= f.at /\ f.items = {} /\ f.left \subseteq Chats
  BY <1>1 DEF Shape, Fit, FillsOver
<1>4. /\ Len(history) \in Nat /\ listing \in SUBSET (0 .. Len(history)) /\ listing \subseteq Messages
      /\ items \subseteq listing /\ (listing # {} => items # {})
      /\ \A m \in listing : f.at < m
  BY TypedFills, ListingIsToCome, PageIsFirst
<1>8. Min(f.left) \in Chats
  <2>1. f.left \in SUBSET Nat
    BY <1>3, MessageIntakeAssumption DEF Chats
  <2> QED BY <1>3, <2>1, MinIsLeast
<1> HIDE DEF items, listing
<1>5. items # {} /\ Max(items) \in items
  BY <1>1, <1>4, MaxIsGreatest
<1>6. /\ Max(items) \in 0 .. Len(history) /\ f.at < Max(items)
      /\ items \in SUBSET (1 .. Len(history))
  BY <1>4, <1>5 DEF Messages
<1>7. /\ h \in FillsOver(Len(history)) /\ h.pc = "page" /\ h.left = f.left /\ h.at = Max(items)
      /\ h.after = f.after /\ h.upTo = f.upTo /\ h.chats = f.chats /\ h.items = items
      /\ h.cut = f.cut \cup {Min(f.left)}
  BY <1>1, <1>6, <1>8 DEF FillsOver
<1>9. f.after \in Nat /\ f.at \in Nat /\ Max(items) \in Nat
  BY <1>1, <1>4, <1>6 DEF FillsOver
<1> HIDE DEF h, f
<1>10. Fit(h)
  BY <1>3, <1>5, <1>6, <1>7, <1>9 DEF Fit
<1>11. \A m \in Span(h) : m \in Span(f) /\ (Awaits(f, m) => Awaits(h, m))
  BY <1>3, <1>7 DEF Span, Awaits
<1> QED BY <1>1, <1>2, <1>7, <1>10, <1>11 DEF f

LEMMA ShapeBackfill ==
  ASSUME Shape, NEW b \in Fills, FillActs(b)
  PROVE  Shape'
<1>1. fills'[b] \in FillsOver(Len(history)) /\ Fit(fills'[b]) /\ OnlyFill(b)
  <2>1. CASE BackfillListFails(b)
    <3> DEFINE f == fills[b]
               g == [f EXCEPT !.pc = "failed"]
    <3>1. fills' = [fills EXCEPT ![b] = g] /\ f \in FillsOver(Len(history))
      BY <2>1, ShapeGives DEF BackfillListFails
    <3>2. fills'[b] = g /\ OnlyFill(b)
      BY <3>1, ShapeGives DEF OnlyFill
    <3>3. g \in FillsOver(Len(history)) /\ g.pc = "failed"
      BY <3>1 DEF FillsOver
    <3> QED BY <3>2, <3>3 DEF Fit
  <2> QED BY <2>1, CutFits, StartsCovering, ListsPasses, ChecksPasses, SubmitsPasses
          DEF Passes, FillActs, BackfillStep
<1>2. fills' \in [Fills -> FillsOver(Len(history))] /\ \A a \in Fills : Fit(fills'[a])
  BY <1>1, OneFillFits, BackfillChangesOne
<1>3. CASE BackfillSubmits(b)
  <2>1. Item(b) \in Messages /\ Delivery(Item(b), "backfill") \in Deliveries
    BY <1>3, ItemOfPage, DeliveriesAre DEF BackfillSubmits
  <2>2. history[Item(b)].chat \in Chats
    BY <2>1, TypedFills
  <2>3. known' \subseteq Chats /\ seen' \subseteq Messages /\ submitted' \in Seq(Deliveries)
    BY <1>3, <2>1, <2>2, ShapeGives DEF BackfillSubmits
  <2> QED BY <1>2, <1>3, <2>3, ShapeGives, ShapeKept DEF BackfillSubmits, feishuVars, faultVars
<1>4. CASE BackfillListFails(b) \/ BackfillListsCut(b)
  <2>1. UNCHANGED <<feishuVars, seen, known, taking, loopVars>> /\ \E kind : Fault(kind)
    BY <1>4 DEF BackfillListFails, BackfillListsCut
  <2> QED BY <1>2, <2>1, ShapeGives, FaultTypes, ShapeKept DEF feishuVars, loopVars
<1>5. CASE BackfillStarts(b) \/ BackfillLists(b) \/ BackfillChecks(b)
  <2>1. UNCHANGED <<feishuVars, seen, known, taking, loopVars, faultVars>>
    BY <1>5 DEF BackfillStarts, BackfillLists, BackfillChecks
  <2> QED BY <1>2, <2>1, ShapeGives, ShapeKept DEF feishuVars, loopVars, faultVars
<1> QED BY <1>3, <1>4, <1>5 DEF FillActs, BackfillStep

LEMMA ShapeStep == Shape /\ [Next]_vars => Shape'
BY ShapePost, ShapeFeishu, ShapeWebsocket, ShapeHandlers, ShapeCrash, ShapeBackfill
   DEF Next, Loop, FillActs

-----------------------------------------------------------------------------
LEMMA CoverInit == Init => CoverInv
BY DEF Init, CoverInv, NoFill

\* Only a submit that raises takes an id out of those seen, but for the end of
\* the process, which leaves no backfill at work.
LEMMA CoverStays ==
  ASSUME Shape, CoverInv, "submit" \notin happened', "submit" \notin happened,
         seen \subseteq seen', \A m \in Messages : history'[m] = history[m],
         NEW b \in Fills, fills'[b] = fills[b], fills'[b].pc \in {"listing", "page"}
  PROVE  Covers(b)'
<1> DEFINE f == fills[b]
<1>1. \A m \in Span(f) : m \in seen \/ Awaits(f, m)
  BY DEF CoverInv, Covers
<1>2. \A m \in f.after + 1 .. f.upTo : m \in Messages
  BY TypedFills DEF FillsOver
<1>3. f.items \subseteq Messages
  BY TypedFills DEF FillsOver
<1>4. fills'[b] = f
  OBVIOUS
<1>5. \A m \in f.after + 1 .. f.upTo : history'[m] = history[m]
  BY <1>2
<1>6. \A m \in Span(fills[b])' : m \in Span(f) /\ (Awaits(f, m) => Awaits(fills[b], m)')
  BY <1>4, <1>5 DEF Span, Awaits, Readable
<1> HIDE DEF f
<1> QED BY <1>1, <1>4, <1>6 DEF Covers

LEMMA CoverBackfill ==
  ASSUME Shape, CoverInv, "submit" \notin happened, NEW b \in Fills, BackfillStep(b),
         fills[b].pc # "done", fills'[b].pc \in {"listing", "page", "done"}
  PROVE  \/ fills[b].chats = {} /\ fills[b].pc = "scheduled"
            /\ (fills'[b].pc \in {"listing", "page"} => Covers(b)')
         \/ /\ Passes(fills[b], fills'[b], seen')
            /\ \A m \in Span(fills[b]) : m \in seen' \/ Awaits(fills'[b], m)
            /\ Covers(b)'
<1>1. history' = history /\ seen \subseteq seen'
  BY DEF BackfillStep, BackfillStarts, BackfillLists, BackfillChecks, BackfillSubmits, feishuVars
<1>2. CASE BackfillStarts(b)
  <2>1. fills[b].chats = {} /\ fills[b].pc = "scheduled"
    BY <1>2, ShapeGives DEF BackfillStarts, Fit
  <2>2. fills'[b].pc \in {"listing", "page"} => Covers(b)'
    BY <1>1, <1>2, StartsCovering DEF Covers, Span, Awaits, Readable
  <2> QED BY <2>1, <2>2
<1>3. CASE ~BackfillStarts(b)
  <2>1. fills[b].pc \in {"listing", "page"}
    BY <1>3 DEF BackfillStep, BackfillLists, BackfillChecks, BackfillSubmits
  <2>2. \E s \in SUBSET seen' : Passes(fills[b], fills'[b], s)
    <3>1. {} \in SUBSET seen' /\ seen \in SUBSET seen' /\ seen' \in SUBSET seen'
      BY <1>1
    <3> QED BY <1>3, <3>1, ListsPasses, ChecksPasses, SubmitsPasses DEF BackfillStep
  <2>3. Passes(fills[b], fills'[b], seen')
    BY <2>2 DEF Passes
  <2>4. Covers(b)
    BY <2>1 DEF CoverInv
  <2>5. \A m \in Span(fills[b]) : m \in seen' \/ Awaits(fills'[b], m)
    BY <1>1, <2>3, <2>4 DEF Covers, Passes
  <2>6. Covers(b)'
    BY <1>1, <2>3, <2>5 DEF Covers, Passes, Span, Awaits, Readable
  <2> QED BY <2>3, <2>5, <2>6
<1> QED BY <1>2, <1>3

LEMMA CoverStep == Shape /\ CoverInv /\ [Next]_vars => CoverInv'
<1> SUFFICES ASSUME Shape, CoverInv, [Next]_vars, "submit" \notin happened',
                    NEW b \in Fills, fills'[b].pc \in {"listing", "page"}
             PROVE  Covers(b)'
  BY DEF CoverInv
<1>1. "submit" \notin happened
  BY HappenedGrows
<1>2. CASE \E a \in Fills : BackfillStep(a)
  <2>1. PICK a \in Fills : BackfillStep(a)
    BY <1>2
  <2>2. history' = history /\ seen \subseteq seen'
    BY <2>1 DEF BackfillStep, BackfillStarts, BackfillLists, BackfillChecks, BackfillSubmits, feishuVars
  <2>3. OnlyFill(a) /\ fills[a].pc # "done"
    BY <2>1, StartsCovering, ListsPasses, ChecksPasses, SubmitsPasses
       DEF BackfillStep, BackfillStarts, BackfillLists, BackfillChecks, BackfillSubmits
  <2>4. CASE a = b
    BY <1>1, <2>1, <2>3, <2>4, CoverBackfill
  <2>5. CASE a # b
    BY <1>1, <2>2, <2>3, <2>5, CoverStays DEF OnlyFill
  <2> QED BY <2>4, <2>5
<1>3. CASE Crash
  <2>1. fills'[b].pc \in {"none", "done", "failed"}
    BY <1>3 DEF Crash, NoFill
  <2> QED BY <2>1
<1>4. CASE OnMessageFails
  BY <1>4, FaultTypes DEF OnMessageFails, Fault
<1>5. ASSUME NEW chat \in Chats, NEW author \in {"owner", "bot"}, NEW kind \in Kinds,
             Post(chat, author, kind)
      PROVE  Covers(b)'
  <2>1. seen' = seen /\ fills' = fills
    BY <1>5 DEF Post, gatewayVars
  <2>2. \A m \in Messages : history'[m] = history[m]
    BY <1>5 DEF Post, Shape, TypeOK, Messages
  <2> QED BY <1>1, <2>1, <2>2, CoverStays
<1>6. ASSUME history' = history, seen \subseteq seen', fills'[b] = fills[b] PROVE Covers(b)'
  BY <1>1, <1>6, CoverStays
<1>7. CASE _on_reconnected \/ \E a \in Fills : BackfillListFails(a)
  <2>1. history' = history /\ seen' = seen /\ fills'[b] = fills[b]
    <3>1. CASE _on_reconnected
      BY <3>1, ShapeGives DEF _on_reconnected
    <3>2. ASSUME NEW a \in Fills, BackfillListFails(a) PROVE UNCHANGED <<history, seen, fills[b]>>
      BY <3>2, ShapeGives DEF BackfillListFails, feishuVars
    <3> QED BY <1>7, <3>1, <3>2 DEF _on_reconnected
  <2> QED BY <1>6, <2>1
<1>8. CASE \/ Redeliver \/ Disconnect \/ Age \/ Connects \/ Websocket \/ HandlerStarts \/ Downloaded
           \/ DownloadFails \/ UNCHANGED vars \/ \E chat \in Chats \cup {NoChat} : on_bot_p2p_chat_entered(chat)
  <2>1. history' = history /\ seen \subseteq seen' /\ fills' = fills
    BY <1>8 DEF Redeliver, Disconnect, Age, Connects, Websocket, OnMessageChecks, OnMessageSubmits,
       HandlerStarts, Downloaded, DownloadFails, on_bot_p2p_chat_entered, vars, feishuVars, gatewayVars
  <2> QED BY <1>6, <2>1
<1>9. ASSUME NEW a \in Fills, BackfillListsCut(a) PROVE Covers(b)'
  <2>1. history' = history /\ seen' = seen
    BY <1>9 DEF BackfillListsCut, feishuVars
  <2>2. CASE a = b
    <3>1. \A m \in Span(fills[b]) : m \in seen \/ Awaits(fills[b], m)
      BY <1>1, <1>9, <2>2, CutFits DEF CoverInv, Covers
    <3>2. \A m \in Span(fills'[b]) : m \in seen \/ Awaits(fills'[b], m)
      BY <1>9, <2>2, <3>1, CutFits
    <3> QED BY <2>1, <3>2 DEF Covers, Span, Awaits, Readable
  <2>3. CASE a # b
    BY <1>6, <1>9, <2>1, <2>3, CutFits DEF OnlyFill
  <2> QED BY <2>2, <2>3
<1> QED BY <1>2, <1>3, <1>4, <1>5, <1>7, <1>8, <1>9 DEF Next, Loop

LEMMA CoverInvariant == Spec => [](Shape /\ CoverInv)
<1>1. Init => Shape /\ CoverInv
  BY ShapeInit, CoverInit
<1>2. Shape /\ CoverInv /\ [Next]_vars => Shape' /\ CoverInv'
  BY ShapeStep, CoverStep
<1> QED BY <1>1, <1>2, PTL DEF Spec

\* Every variable of the intake has its type: what a page holds are messages,
\* and no chat is noted that is none (gateway.py, private_chat_adapter.py).
THEOREM IntakeTypeCorrect == Spec => []TypeOK
<1>1. Shape => TypeOK
  BY DEF Shape
<1> QED BY <1>1, CoverInvariant, PTL

\* A backfill that ends without an error has left out no readable message of the
\* time it asked for in a chat known when it started, whatever is taken meanwhile
\* and however the messages fall on pages; a page without the token of the next
\* one costs messages of its own chat only (_backfill_chat).
THEOREM BackfillsAreComplete == Spec => BackfillLeavesNoneOut
<1>1. ASSUME Shape, CoverInv, [Next]_vars, NEW b \in Fills,
             fills[b].pc # "done", fills'[b].pc = "done", "submit" \notin happened,
             NEW m \in fills[b].after + 1 .. fills[b].upTo,
             history[m].chat \in fills[b].chats \ fills[b].cut, history[m].kind \in {"text", "attachment"}
      PROVE  m \in seen'
  <2>1. BackfillStep(b)
    <3>1. ~Crash /\ ~_on_reconnected /\ \A a \in Fills : ~BackfillListFails(a) /\ ~BackfillListsCut(a)
      <4>1. DOMAIN fills = Fills
        BY <1>1, TypedFills
      <4>2. ~Crash
        BY <1>1 DEF Crash, NoFill
      <4>3. ~_on_reconnected
        <5> SUFFICES ASSUME _on_reconnected PROVE FALSE
          OBVIOUS
        <5>1. PICK a \in Fills : fills' = [fills EXCEPT ![a].pc = "scheduled"]
          BY DEF _on_reconnected
        <5>2. fills'[b].pc = IF a = b THEN "scheduled" ELSE fills[b].pc
          <6>1. CASE a = b
            BY <1>1, <4>1, <5>1, <6>1, TypedFills DEF FillsOver
          <6>2. CASE a # b
            BY <4>1, <5>1, <6>2
          <6> QED BY <6>1, <6>2
        <5> QED BY <1>1, <5>2
      <4>4. ASSUME NEW a \in Fills, BackfillListFails(a) PROVE FALSE
        BY <1>1, <4>1, <4>4 DEF BackfillListFails
      <4>5. ASSUME NEW a \in Fills, BackfillListsCut(a) PROVE FALSE
        BY <1>1, <4>5, CutFits DEF OnlyFill
      <4> QED BY <4>2, <4>3, <4>4, <4>5
    <3>2. fills' # fills
      BY <1>1
    <3>3. \A a \in Fills : BackfillStep(a) => OnlyFill(a)
      BY <1>1, StartsCovering, ListsPasses, ChecksPasses, SubmitsPasses DEF BackfillStep
    <3> QED BY <1>1, <3>1, <3>2, <3>3
            DEF Next, Post, Redeliver, Disconnect, Age, Connects, Websocket, OnMessageChecks,
                OnMessageSubmits, OnMessageFails, Loop, HandlerStarts, Downloaded, DownloadFails,
                on_bot_p2p_chat_entered, vars, feishuVars, gatewayVars, OnlyFill
  <2>2. m \in Span(fills[b])
    BY <1>1 DEF Span, Readable
  <2>3. CASE fills[b].chats = {}
    BY <1>1, <2>3
  <2>4. CASE /\ Passes(fills[b], fills'[b], seen')
             /\ \A k \in Span(fills[b]) : k \in seen' \/ Awaits(fills'[b], k)
    BY <1>1, <2>2, <2>4 DEF Passes, Awaits
  <2> QED BY <1>1, <2>1, <2>3, <2>4, CoverBackfill
<1>2. Shape /\ CoverInv /\ [Next]_vars =>
        [\A b \in Fills :
           fills[b].pc # "done" /\ fills'[b].pc = "done" /\ "submit" \notin happened =>
             \A m \in fills[b].after + 1 .. fills[b].upTo :
               history[m].chat \in fills[b].chats \ fills[b].cut /\ history[m].kind \in {"text", "attachment"}
                 => m \in seen']_vars
  BY <1>1
<1> QED BY <1>2, CoverInvariant, PTL DEF Spec, BackfillLeavesNoneOut

=============================================================================
