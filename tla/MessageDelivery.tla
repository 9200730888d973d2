-------------------------- MODULE MessageDelivery --------------------------
(***************************************************************************)
(* What the bridge promises about the messages of the owner, whatever      *)
(* interleaving of handlers, faults and restarts brings it about: a message*)
(* that the bridge holds is given to at most one Agent Turn, a turn gets   *)
(* its prompt once, and a message that was given to a turn or dropped is   *)
(* never held again.  RunControllerProps shows that RunController          *)
(* implements this specification.                                          *)
(***************************************************************************)
EXTENDS Naturals

CONSTANTS Messages, Turns

VARIABLES
  seen,   \* the inputs that have reached the bridge
  held,   \* the messages it holds for a turn that is still to start
  given   \* the messages in the prompt of each turn

Init == seen = {} /\ held = {} /\ given = [t \in Turns |-> {}]

\* An ordinary message is held until a turn takes it.
Receive(m) ==
  /\ m \notin seen /\ seen' = seen \union {m}
  /\ held' = held \union {m}
  /\ UNCHANGED given

\* A command, an answer or a rejected input; an interrupting command empties
\* the queue at once.
Command(m) ==
  /\ m \notin seen /\ seen' = seen \union {m}
  /\ held' \in SUBSET held
  /\ UNCHANGED given

\* A turn starts with some of the held messages as its prompt.
Deliver(t, S) ==
  /\ S # {} /\ S \subseteq held /\ given[t] = {}
  /\ given' = [given EXCEPT ![t] = S]
  /\ held' = held \ S
  /\ UNCHANGED seen

\* Messages are given up: a failed start, an Idle Timeout, a restart.
Drop ==
  /\ held' \in SUBSET held
  /\ UNCHANGED <<seen, given>>

Next ==
  \/ \E m \in Messages : Receive(m) \/ Command(m)
  \/ \E t \in Turns, S \in SUBSET held : Deliver(t, S)
  \/ Drop

Spec == Init /\ [][Next]_<<seen, held, given>>
=============================================================================
