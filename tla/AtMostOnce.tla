----------------------------- MODULE AtMostOnce -----------------------------
(***************************************************************************)
(* Delivery that repeats nothing: the broker gives a message up before it  *)
(* is handled, and handles it never again; what is given up and not        *)
(* handled may be lost.                                                    *)
(***************************************************************************)
EXTENDS Integers

VARIABLES
  sent,     \* the messages sent so far
  gone,     \* the messages that will not be delivered again
  runs      \* how often each message was handled

vars == <<sent, gone, runs>>

Init ==
  /\ sent = {} /\ gone = {}
  /\ \A m \in DOMAIN runs : runs[m] = 0

Send ==
  /\ sent \subseteq sent'
  /\ UNCHANGED <<gone, runs>>

GiveUp ==
  /\ gone \subseteq gone' /\ gone' \subseteq sent
  /\ UNCHANGED <<sent, runs>>

Handle ==
  /\ \E m \in gone :
       /\ m \in DOMAIN runs /\ runs[m] = 0
       /\ runs' = [runs EXCEPT ![m] = 1]
  /\ UNCHANGED <<sent, gone>>

Next == Send \/ GiveUp \/ Handle

Spec == Init /\ [][Next]_vars
=============================================================================
