---------------------------- MODULE AtLeastOnce ----------------------------
(***************************************************************************)
(* Delivery that loses nothing once it has begun: a message is given up by *)
(* the broker only after it was handled, or if it was missed because it    *)
(* was sent before a consumer was there and nothing had been given up yet. *)
(* It says nothing about how often or in which order messages are handled. *)
(***************************************************************************)
EXTENDS Integers

VARIABLES
  sent,     \* the messages sent so far
  gone,     \* the messages that will not be delivered again
  handled,  \* the messages that were handled at least once
  missed    \* the messages passed over before the first one was given up

vars == <<sent, gone, handled, missed>>

Init == sent = {} /\ gone = {} /\ handled = {} /\ missed = {}

Send ==
  /\ sent \subseteq sent'
  /\ UNCHANGED <<gone, handled, missed>>

Handle ==
  /\ handled \subseteq handled' /\ handled' \subseteq sent
  /\ UNCHANGED <<sent, gone, missed>>

Miss ==
  /\ gone = {}
  /\ missed \subseteq missed' /\ missed' \subseteq sent
  /\ UNCHANGED <<sent, gone, handled>>

GiveUp ==
  /\ gone \subseteq gone'
  /\ gone' \subseteq handled \cup missed
  /\ UNCHANGED <<sent, handled, missed>>

Next == Send \/ Handle \/ Miss \/ GiveUp

Spec == Init /\ [][Next]_vars
=============================================================================
