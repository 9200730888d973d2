--------------------------- MODULE EventDelivery ---------------------------
(***************************************************************************)
(* What the agent adapters promise the run controller about the events of  *)
(* an Agent Turn: its consumer is handed the events the agent sent about   *)
(* the turn one by one, in the order they were sent, each once and none    *)
(* left out, up to the terminal one, which is the last.                    *)
(***************************************************************************)
EXTENDS Naturals, Sequences, SequencesExt

CONSTANTS Turns, Events, Terminal \* the events that end a turn

VARIABLES
  sent, \* what the agent has sent about each turn
  heard \* what the consumer of each turn has been handed

Init ==
  /\ sent = [t \in Turns |-> <<>>]
  /\ heard = [t \in Turns |-> <<>>]

\* The agent sends something about turn t, or several things at once.
Send(t) ==
  /\ sent'[t] \in Seq(Events) /\ IsStrictPrefix(sent[t], sent'[t])
  /\ sent' = [sent EXCEPT ![t] = sent'[t]]
  /\ UNCHANGED heard

IsOver(t) == heard[t] # <<>> /\ heard[t][Len(heard[t])] \in Terminal

\* The consumer of turn t is handed the next event.
Hear(t) ==
  /\ ~IsOver(t) /\ Len(heard[t]) < Len(sent[t])
  /\ heard' = [heard EXCEPT ![t] = Append(@, sent[t][Len(@) + 1])]
  /\ UNCHANGED sent

Next == \E t \in Turns : Send(t) \/ Hear(t)

Spec == Init /\ [][Next]_<<sent, heard>>
=============================================================================
