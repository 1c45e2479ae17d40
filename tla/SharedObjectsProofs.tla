------------------------ MODULE SharedObjectsProofs ------------------------
(***************************************************************************)
(* What requests that share an object without a lock can do to each other: *)
(* the rabbitmq-producer service, and the actions MongodbQuery,            *)
(* PostgresqlQuery and MysqlQuery, for any number of requests, messages    *)
(* and failures.                                                           *)
(***************************************************************************)
EXTENDS RabbitProducer, DatabaseActions, TLAPS

-----------------------------------------------------------------------------
(***************************************************************************)
(* The rabbitmq-producer service                                           *)
(***************************************************************************)

-----------------------------------------------------------------------------
(* The inductive invariants *)

(* Without overlap: the fields as the one produce p finds them.  An open
   connection has its channel in the field, but while p opens it. *)
Solo(p) ==
  /\ pc[p] \in {"closed", "forget"} => conn # Nil
  /\ pc[p] = "forget" => conn \notin open
  /\ pc[p] \in {"forgetChannel", "dial"} => conn = Nil
  /\ pc[p] = "channel" => conn # Nil /\ own[p] = conn
  /\ pc[p] = "fresh" => conn = Nil \/ channel = conn
  /\ pc[p] = "take" => conn # Nil /\ channel = conn
  /\ pc[p] \in {"declare", "publish", "close", "closeConn"} =>
       conn # Nil /\ channel = conn /\ ch[p] = conn
  /\ pc[p] \notin {"clear", "clearChannel"}

SoloInv ==
  ~raced =>
    /\ \A p, q \in Busy : p = q
    /\ ~panicked
    /\ open \subseteq {conn}
    /\ conn \in open => channel = conn \/ \E p \in Busy : pc[p] = "channel"
    /\ \A p \in Busy : Solo(p)

(* How many more messages what went wrong so far will cost, without overlap:
   the ones of p, or the first after it. *)
Owed(p) ==
  CASE pc[p] \in {"idle", "check", "closed"} ->
         IF conn \in open /\ channel \notin usable THEN 1 ELSE 0
    [] pc[p] \in {"fresh", "take", "declare"} ->
         IF conn # Nil /\ (conn \notin open \/ channel \notin usable) THEN 1 ELSE 0
    [] pc[p] = "channel" -> IF conn \in open THEN 0 ELSE 1
    [] pc[p] \in {"close", "closeConn"} -> 1
    [] pc[p] = "publish" ->
         IF conn \notin open THEN 1 ELSE IF channel \notin usable THEN 2 ELSE 0
    [] OTHER -> 0

DebtInv ==
  ~raced => /\ failed <= 2 * failures
            /\ \A p \in Producers : Busy \subseteq {p} => failed + Owed(p) <= 2 * failures

(* A produce on its way into the trap, *)
Stuck(p) ==
  \/ pc[p] \in {"check", "closed", "fresh", "take"}
  \/ pc[p] = "declare" /\ ch[p] = Nil

(* a lone undisturbed one that finds a closed connection and replaces it, *)
Healing(p) ==
  /\ pc[p] \in {"check", "closed"} => conn \notin open
  /\ pc[p] = "fresh" => conn = Nil
  /\ pc[p] = "take" => channel \in open \cap usable
  /\ pc[p] \in {"declare", "publish"} => Alive(p)
  /\ pc[p] \notin {"close", "closeConn", "clear", "clearChannel"}

(* and any lone undisturbed one, whatever it began with. *)
Lone(p) ==
  /\ pc[p] = "closed" => conn # Nil
  /\ pc[p] = "forgetChannel" => conn = Nil
  /\ pc[p] = "fresh" => conn = Nil \/ conn \in open
  /\ pc[p] = "channel" => own[p] \in open /\ own[p] = conn
  /\ pc[p] = "take" => conn \in open
  /\ pc[p] = "declare" => conn \in open /\ (ch[p] = Nil => channel = Nil)
  /\ pc[p] = "publish" => Alive(p)
  /\ pc[p] \in {"close", "closeConn"} => conn # Nil
  /\ pc[p] \notin {"clear", "clearChannel"}

HealInv ==
  /\ ~disturbed => \A p, q \in Busy : p = q
  /\ ~disturbed => \A p \in Busy : Lone(p)
  /\ calm > 1 => Wedged /\ \A p \in Busy : Stuck(p)
  /\ calm = 1 =>
       /\ Busy = {} => Wedged \/ conn \notin open
       /\ ~disturbed => \A p \in Busy : (Wedged /\ Stuck(p)) \/ Healing(p)

-----------------------------------------------------------------------------
(* Types *)

LEMMA InitTypeOK == Init => TypeOK
<1> SUFFICES ASSUME Init PROVE TypeOK
  OBVIOUS
<1>1. Nil \in 0..dialled /\ 0 \in 0..MaxProduces /\ failures \in 0..MaxFailures /\ calm \in 0..failed
  BY ProducerAssumption DEF Init, Nil
<1>2. /\ pc = [p \in Producers |-> "idle"] /\ own = [p \in Producers |-> Nil]
      /\ ch = [p \in Producers |-> Nil] /\ produces = [p \in Producers |-> 0]
  BY DEF Init
<1>3. QED
  BY <1>1, <1>2 DEF Init, TypeOK

Places == {"idle", "check", "closed", "forget", "forgetChannel", "fresh", "dial",
     "channel",
           "take", "declare", "close", "closeConn", "clear", "clearChannel", "publish"}

(* Leaving and panicking keep the types. *)
LEMMA LeaveTyped ==
  ASSUME TypeOK, NEW p \in Producers, Leave(p)
  PROVE  /\ pc' \in [Producers -> Places]
         /\ own' \in [Producers -> 0..dialled] /\ ch' \in [Producers -> 0..dialled]
         /\ \A q \in Producers : pc'[q] = "channel" => own'[q] # Nil
  BY DEF Leave, Goto, TypeOK, Nil, Places

LEMMA PanicTyped ==
  ASSUME TypeOK, NEW p \in Producers, PanicIn(p)
  PROVE  TypeOK'
<1>1. /\ failed' = failed + 1 /\ panicked' = TRUE
      /\ UNCHANGED <<dialled, produces, failures, raced, disturbed>>
      /\ calm' \in {0, calm + 1}
  BY DEF PanicIn, broker
<1>2. CASE p \in Requests
  <2>1. Leave(p) /\ UNCHANGED <<conn, channel, open, usable>>
    BY <1>2 DEF PanicIn, service, broker
  <2>2. QED
    BY <1>1, <2>1, LeaveTyped DEF TypeOK, Places
<1>3. CASE p \notin Requests
  <2>1. /\ conn' = Nil /\ channel' = Nil /\ open' = {} /\ usable' = {}
        /\ pc' = [q \in Producers |-> "idle"]
        /\ own' = [q \in Producers |-> Nil] /\ ch' = [q \in Producers |-> Nil]
    BY <1>3 DEF PanicIn
  <2>2. QED
    BY <1>1, <2>1 DEF TypeOK, Nil
<1>4. QED
  BY <1>2, <1>3

LEMMA NextTypeOK == TypeOK /\ [Next]_vars => TypeOK'
<1> SUFFICES ASSUME TypeOK, [Next]_vars PROVE TypeOK'
  OBVIOUS
<1> USE DEF service, broker, history
<1>1. ASSUME NEW p \in Producers, Produce(p) PROVE TypeOK'
  <2>1. produces' \in [Producers -> 0..MaxProduces]
    BY <1>1, ProducerAssumption DEF Produce, TypeOK
  <2>2. raced' \in BOOLEAN /\ disturbed' \in BOOLEAN
    BY <1>1 DEF Produce, TypeOK
  <2>3. QED
    BY <1>1, <2>1, <2>2 DEF Produce, Goto, TypeOK
<1>2. ASSUME NEW p \in Producers,
             \/ Check(p) \/ ForgetConn(p) \/ ForgetChannel(p) \/ CheckFresh(p) \/ Take(p) \/ CheckConn(p)
      PROVE  TypeOK'
  <2>1. /\ pc' \in [Producers -> Places] /\ \A q \in Producers : pc'[q] = "channel" => pc[q] = "channel"
        /\ UNCHANGED <<open, usable, dialled, own, produces, failures, history>>
    BY <1>2 DEF Check, ForgetConn, ForgetChannel, CheckFresh, Take, CheckConn, Step,
                Goto, TypeOK, Places
  <2>2. Nil \in 0..dialled
    BY DEF TypeOK, Nil
  <2>3. conn' \in 0..dialled /\ channel' \in 0..dialled /\ ch' \in [Producers -> 0..dialled]
    BY <1>2, <2>2
       DEF Check, ForgetConn, ForgetChannel, CheckFresh, Take, CheckConn, Step,
           TypeOK
  <2>4. QED
    BY <2>1, <2>3 DEF TypeOK, Places
<1>3. ASSUME NEW p \in Producers, Dial(p) PROVE TypeOK'
  <2>1. /\ dialled' = dialled + 1 /\ dialled' \in Nat /\ dialled' # Nil
        /\ 0..dialled \subseteq 0..dialled' /\ 1..dialled \subseteq 1..dialled'
        /\ dialled' \in 1..dialled' /\ dialled' \in 0..dialled'
    BY <1>3 DEF Dial, TypeOK, Nil
  <2>2. /\ open' = open \cup {dialled'} /\ conn' = dialled'
        /\ own' = [own EXCEPT ![p] = dialled'] /\ pc' = [pc EXCEPT ![p] = "channel"]
        /\ UNCHANGED <<channel, usable, ch, produces, failures, history>>
    BY <1>3 DEF Dial, Goto
  <2>3. own' \in [Producers -> 0..dialled'] /\ \A q \in Producers : pc'[q] = "channel" => own'[q] # Nil
    BY <2>1, <2>2 DEF TypeOK
  <2>4. QED
    BY <2>1, <2>2, <2>3 DEF TypeOK
<1>4. ASSUME NEW p \in Producers, DialFails(p) PROVE TypeOK'
  <2>1. Leave(p) /\ failures' \in 0..MaxFailures
    BY <1>4, ProducerAssumption DEF DialFails, TypeOK
  <2>2. QED
    BY <1>4, <2>1, LeaveTyped DEF DialFails, TypeOK, Places
<1>5. ASSUME NEW p \in Producers, OpenChannel(p) PROVE TypeOK'
  BY <1>5 DEF OpenChannel, Step, Goto, TypeOK, Nil
<1>6. ASSUME NEW p \in Producers,
             OpenChannelFails(p) \/ ClearChannel(p) \/ Publish(p)
      PROVE  TypeOK'
  <2>1. Fail(p) \/ Succeed(p)
    BY <1>6 DEF OpenChannelFails, ClearChannel, Publish
  <2>2. /\ Leave(p) /\ failed' \in {failed, failed + 1} /\ calm' \in 0..failed'
        /\ UNCHANGED <<produces, failures, raced, panicked, disturbed>>
    BY <2>1 DEF Fail, Succeed, TypeOK
  <2>3. UNCHANGED <<conn, open, usable, dialled>> /\ channel' \in {channel, Nil}
    BY <1>6 DEF OpenChannelFails, ClearChannel, Publish
  <2>4. QED
    BY <2>2, <2>3, LeaveTyped DEF TypeOK, Places, Nil
<1>7. ASSUME NEW p \in Producers, CheckClosed(p) \/ Declare(p) PROVE TypeOK'
  <2>1. CASE PanicIn(p)
    BY <2>1, PanicTyped
  <2>2. CASE ~PanicIn(p)
    BY <1>7, <2>2 DEF CheckClosed, Declare, Step, Goto, TypeOK
  <2>3. QED
    BY <2>1, <2>2
<1>8. ASSUME NEW p \in Producers, CloseConn(p) PROVE TypeOK'
  <2>1. CASE PanicIn(p)
    BY <2>1, PanicTyped
  <2>2. CASE ~PanicIn(p)
    <3>1. /\ Leave(p) /\ failed' = failed + 1 /\ calm' \in 0..failed'
          /\ UNCHANGED <<produces, failures, raced, panicked, disturbed>>
          /\ open' = open \ {conn} /\ UNCHANGED <<service, usable, dialled>>
      BY <1>8, <2>2 DEF CloseConn, Fail, TypeOK
    <3>2. QED
      BY <3>1, LeaveTyped DEF TypeOK, Places
  <2>3. QED
    BY <2>1, <2>2
<1>9. ASSUME NEW c \in open, LoseConnection(c) \/ LoseChannel(c) PROVE TypeOK'
  <2>1. failures' \in 0..MaxFailures
    BY <1>9, ProducerAssumption DEF LoseConnection, LoseChannel, Disturb, TypeOK
  <2>2. /\ open' \subseteq open /\ usable' \subseteq usable /\ disturbed' = TRUE /\ calm' = 0
        /\ UNCHANGED <<service, dialled, pc, own, ch, produces, raced, failed,
             panicked>>
    BY <1>9 DEF LoseConnection, LoseChannel, Disturb
  <2>3. calm' \in 0..failed
    BY <2>2 DEF TypeOK
  <2>4. QED
    BY <2>1, <2>2, <2>3 DEF TypeOK
<1>10. CASE UNCHANGED vars
  BY <1>10 DEF vars, TypeOK
<1>11. QED
  BY <1>1, <1>2, <1>3, <1>4, <1>5, <1>6, <1>7, <1>8, <1>9, <1>10
  DEF Next, GetChannel, Send, AllSent

(* The variables keep their types: what a field or a produce refers to was
   dialled. *)
THEOREM TypeCorrect == Spec => []TypeOK
<1>1. QED
  BY InitTypeOK, NextTypeOK, PTL DEF Spec

-----------------------------------------------------------------------------
(* Produces that do not overlap *)

(* SoloInv, as the one produce in progress sees it *)
SoloAt(p) ==
  /\ ~panicked
  /\ open \subseteq {conn}
  /\ conn \in open => channel = conn \/ pc[p] = "channel"
  /\ pc[p] # "idle" => Solo(p)

LEMMA Alone ==
  ASSUME TypeOK, SoloInv, ~raced, NEW p \in Producers, Busy \subseteq {p}
  PROVE  SoloAt(p) /\ Nil \notin open /\ \A q \in Producers : q # p => pc[q] = "idle"
<1>1. Nil \notin open
  BY DEF TypeOK, Nil
<1>2. QED
  BY <1>1 DEF SoloInv, SoloAt, Busy

LEMMA BusyAlone ==
  ASSUME SoloInv, ~raced, NEW p \in Producers, pc[p] # "idle"
  PROVE  Busy \subseteq {p}
  BY DEF SoloInv, Busy

(* Every step but the beginning of another produce leaves it alone. *)
LEMMA StaysAlone ==
  ASSUME TypeOK, NEW p \in Producers, Busy \subseteq {p},
         pc' = [pc EXCEPT ![p] = pc'[p]]
  PROVE  Busy' \subseteq {p}
  BY DEF Busy, TypeOK

(* One step of the only produce in progress *)
LEMMA SoloStep ==
  ASSUME TypeOK, NEW p \in Producers, SoloAt(p), pc[p] # "idle", Nil \notin open,
         GetChannel(p) \/ Send(p)
  PROVE  SoloAt(p)' /\ pc' = [pc EXCEPT ![p] = pc'[p]] /\ raced' = raced
<1> USE DEF service, broker, history
<1>0. Solo(p) /\ pc \in [Producers -> Places]
  BY DEF SoloAt, TypeOK, Places
<1>1. CASE Check(p) \/ CheckFresh(p) \/ ForgetConn(p) \/ ForgetChannel(p)
  BY <1>0, <1>1
     DEF Check, CheckFresh, ForgetConn, ForgetChannel, Step, Goto, Solo, SoloAt
<1>2. CASE CheckClosed(p)
  <2>1. conn # Nil
    BY <1>0, <1>2 DEF CheckClosed, Solo
  <2>2. QED
    BY <1>0, <1>2, <2>1 DEF CheckClosed, Step, Goto, Solo, SoloAt
<1>3. CASE Dial(p)
  <2>1. conn = Nil /\ open = {} /\ dialled' # Nil
    BY <1>0, <1>3 DEF Dial, Solo, SoloAt, TypeOK, Nil
  <2>2. /\ open' = {dialled'} /\ conn' = dialled' /\ own'[p] = dialled' /\ pc'[p] = "channel"
        /\ pc' = [pc EXCEPT ![p] = "channel"] /\ UNCHANGED <<panicked, raced>>
    BY <1>0, <1>3, <2>1 DEF Dial, Goto, TypeOK
  <2>3. QED
    BY <2>1, <2>2 DEF Solo, SoloAt
<1>4. CASE DialFails(p)
  BY <1>0, <1>4 DEF DialFails, Leave, Goto, SoloAt
<1>5. CASE OpenChannel(p) \/ Take(p)
  <2>1. CASE OpenChannel(p)
    BY <1>0, <2>1 DEF OpenChannel, Step, Goto, Solo, SoloAt
  <2>2. CASE Take(p)
    BY <1>0, <2>2 DEF Take, Goto, Solo, SoloAt, TypeOK
  <2>3. QED
    BY <1>5, <2>1, <2>2
<1>6. CASE OpenChannelFails(p)
  BY <1>0, <1>6 DEF OpenChannelFails, Fail, Leave, Goto, Solo, SoloAt
<1>7. CASE Declare(p)
  <2>1. conn # Nil /\ ch[p] = conn
    BY <1>0, <1>7 DEF Declare, Solo
  <2>2. QED
    BY <1>0, <1>7, <2>1 DEF Declare, Step, Goto, Solo, SoloAt
<1>8. CASE CheckConn(p)
  BY <1>0, <1>8 DEF CheckConn, Step, Goto, Solo, SoloAt
<1>9. CASE CloseConn(p)
  <2>1. conn # Nil
    BY <1>0, <1>9 DEF CloseConn, Solo
  <2>2. QED
    BY <1>0, <1>9, <2>1 DEF CloseConn, Fail, Leave, Goto, Solo, SoloAt
<1>10. CASE ClearChannel(p)
  BY <1>0, <1>10 DEF ClearChannel, Solo
<1>11. CASE Publish(p)
  BY <1>0, <1>11 DEF Publish, Succeed, Fail, Leave, Goto, Solo, SoloAt
<1>12. QED
  BY <1>1, <1>2, <1>3, <1>4, <1>5, <1>6, <1>7, <1>8, <1>9, <1>10, <1>11
     DEF GetChannel, Send

(* A produce that begins: alone, or the race has begun. *)
LEMMA SoloBegins ==
  ASSUME TypeOK, SoloInv, NEW p \in Producers, Produce(p), ~raced'
  PROVE  ~raced /\ Busy = {} /\ SoloAt(p)' /\ Busy' \subseteq {p}
<1>1. ~raced /\ Busy = {}
  BY DEF Produce
<1>2. /\ UNCHANGED <<conn, channel, open, panicked>> /\ pc' = [pc EXCEPT ![p] = "check"]
  BY DEF Produce, Goto, service, broker
<1>3. SoloAt(p)
  BY <1>1, Alone
<1>4. pc[p] = "idle"
  BY DEF Produce
<1>5. QED
  BY <1>1, <1>2, <1>3, <1>4, StaysAlone DEF SoloAt, Solo, TypeOK

(* Something goes wrong outside. *)
LEMMA SoloDisturbed ==
  ASSUME TypeOK, SoloInv, NEW c \in open, LoseConnection(c) \/ LoseChannel(c)
  PROVE  SoloInv'
<1>1. /\ UNCHANGED <<conn, channel, pc, own, ch, raced, panicked>>
      /\ open' \subseteq open
  BY DEF LoseConnection, LoseChannel, Disturb, service
<1>2. Busy' = Busy
  BY <1>1 DEF Busy
<1>3. QED
  BY <1>1, <1>2 DEF SoloInv, Solo

LEMMA NextSoloInv == TypeOK /\ SoloInv /\ [Next]_vars => SoloInv'
<1> SUFFICES ASSUME TypeOK, SoloInv, [Next]_vars PROVE SoloInv'
  OBVIOUS
<1>1. ASSUME NEW p \in Producers, Produce(p) PROVE SoloInv'
  <2> SUFFICES ASSUME ~raced' PROVE SoloInv'
    BY DEF SoloInv
  <2>1. SoloAt(p)' /\ Busy' \subseteq {p}
    BY <1>1, SoloBegins
  <2>2. QED
    BY <2>1 DEF SoloInv, SoloAt, Busy
<1>2. ASSUME NEW p \in Producers, GetChannel(p) \/ Send(p) PROVE SoloInv'
  <2> SUFFICES ASSUME ~raced' PROVE SoloInv'
    BY DEF SoloInv
  <2>1. pc[p] # "idle" /\ raced' = raced
    BY <1>2 DEF GetChannel, Send, Check, CheckClosed, ForgetConn, ForgetChannel,
                CheckFresh, Dial, DialFails, OpenChannel, OpenChannelFails, Take,
                Declare, CheckConn, CloseConn, ClearChannel, Publish, Step, Succeed,
                Fail, PanicIn, history
  <2>2. SoloAt(p)' /\ Busy' \subseteq {p}
    BY <1>2, <2>1, BusyAlone, Alone, SoloStep, StaysAlone
  <2>3. QED
    BY <2>2 DEF SoloInv, SoloAt, Busy
<1>3. CASE UNCHANGED vars
  BY <1>3 DEF vars, SoloInv, Solo, Busy
<1>4. QED
  BY <1>1, <1>2, <1>3, SoloDisturbed DEF Next, AllSent

LEMMA SoloInvHolds == Spec => [](TypeOK /\ SoloInv)
<1>1. Init => SoloInv
  BY DEF Init, SoloInv, Busy, Nil
<1>2. QED
  BY <1>1, InitTypeOK, NextTypeOK, NextSoloInv, PTL DEF Spec

(* However many produces follow each other, and whatever goes wrong, none
   panics. *)
THEOREM NoPanicWithoutRace == Spec => []PanicNeedsRace
<1>1. SoloInv => PanicNeedsRace
  BY DEF SoloInv, PanicNeedsRace
<1>2. QED
  BY <1>1, SoloInvHolds, PTL

(* Nor does any leave a connection open that the service has forgotten. *)
THEOREM NoLeakWithoutRace == Spec => []LeakNeedsRace
<1>1. SoloInv => LeakNeedsRace
  BY DEF SoloInv, LeakNeedsRace
<1>2. QED
  BY <1>1, SoloInvHolds, PTL

-----------------------------------------------------------------------------
(* What a failure costs *)

LEMMA DebtStep ==
  ASSUME TypeOK, NEW p \in Producers, SoloAt(p), pc[p] # "idle", Nil \notin open,
         GetChannel(p) \/ Send(p), failed + Owed(p) <= 2 * failures
  PROVE  failed' + Owed(p)' <= 2 * failures'
<1> USE DEF service, broker, history
<1>0. /\ Solo(p) /\ pc \in [Producers -> Places] /\ failed \in Nat /\ failures \in Nat
      /\ conn \in open => channel = conn \/ pc[p] = "channel"
  BY ProducerAssumption DEF SoloAt, TypeOK, Places
<1>1. CASE Check(p) \/ CheckFresh(p)
  <2>1. /\ pc[p] \in {"check", "fresh"} /\ pc'[p] \in {"fresh", "closed", "dial",
                                           "take"}
        /\ pc[p] = "check" => pc'[p] = IF conn = Nil THEN "fresh" ELSE "closed"
        /\ pc[p] = "fresh" => pc'[p] = IF conn = Nil THEN "dial" ELSE "take"
        /\ UNCHANGED <<conn, channel, open, usable, failed, failures>>
    BY <1>0, <1>1 DEF Check, CheckFresh, Step, Goto
  <2>2. Owed(p) \in 0..2 /\ Owed(p)' \in 0..2 /\ Owed(p)' <= Owed(p)
    BY <2>1 DEF Owed
  <2>3. QED
    BY <1>0, <2>1, <2>2
<1>2. CASE CheckClosed(p)
  <2>1. conn # Nil
    BY <1>0, <1>2 DEF CheckClosed, Solo
  <2>2. /\ pc[p] = "closed" /\ pc'[p] = IF conn \in open THEN "fresh" ELSE "forget"
        /\ UNCHANGED <<conn, channel, open, usable, failed, failures>>
    BY <1>0, <1>2, <2>1 DEF CheckClosed, Step, Goto
  <2>3. Owed(p) \in 0..2 /\ Owed(p)' \in 0..2 /\ Owed(p)' <= Owed(p)
    BY <2>2 DEF Owed
  <2>4. QED
    BY <1>0, <2>2, <2>3
<1>3. CASE ForgetConn(p) \/ ForgetChannel(p) \/ Dial(p)
  <2>1. /\ pc[p] \in {"forget", "forgetChannel", "dial"}
        /\ pc'[p] \in {"forgetChannel", "fresh", "channel"}
        /\ pc'[p] = "fresh" => conn' = Nil
        /\ pc'[p] = "channel" => conn' \in open'
        /\ UNCHANGED <<failed, failures>>
    BY <1>0, <1>3 DEF ForgetConn, ForgetChannel, Dial, Step, Goto, Solo
  <2>2. Owed(p) = 0 /\ Owed(p)' = 0
    BY <2>1 DEF Owed
  <2>3. QED
    BY <1>0, <2>1, <2>2
<1>4. CASE DialFails(p)
  <2>1. /\ pc[p] = "dial" /\ pc'[p] = "idle" /\ conn' = Nil /\ open' = open
        /\ failed' = failed + 1 /\ failures' = failures + 1
    BY <1>0, <1>4 DEF DialFails, Leave, Goto, Solo
  <2>2. Owed(p) = 0 /\ Owed(p)' = 0
    BY <2>1 DEF Owed
  <2>3. QED
    BY <1>0, <2>1, <2>2
<1>5. CASE OpenChannel(p)
  <2>1. /\ pc[p] = "channel" /\ pc'[p] = "take" /\ own[p] = conn /\ conn \in open
        /\ conn' = conn /\ open' = open /\ channel' = conn /\ conn \in usable'
        /\ UNCHANGED <<failed, failures>>
    BY <1>0, <1>5 DEF OpenChannel, Step, Goto, Solo
  <2>2. Owed(p) = 0 /\ Owed(p)' = 0
    BY <2>1 DEF Owed
  <2>3. QED
    BY <1>0, <2>1, <2>2
<1>6. CASE OpenChannelFails(p)
  <2>1. /\ pc[p] = "channel" /\ pc'[p] = "idle" /\ conn \notin open
        /\ UNCHANGED <<conn, open>> /\ failed' = failed + 1 /\ failures' = failures
    BY <1>0, <1>6 DEF OpenChannelFails, Fail, Leave, Goto, Solo
  <2>2. Owed(p) = 1 /\ Owed(p)' = 0
    BY <2>1 DEF Owed
  <2>3. QED
    BY <1>0, <2>1, <2>2
<1>7. CASE Take(p)
  <2>1. /\ pc[p] = "take" /\ pc'[p] = "declare"
        /\ UNCHANGED <<conn, channel, open, usable, failed, failures>>
    BY <1>0, <1>7 DEF Take, Goto
  <2>2. Owed(p)' = Owed(p)
    BY <2>1 DEF Owed
  <2>3. QED
    BY <2>1, <2>2
<1>8. CASE Declare(p)
  <2>1. conn # Nil /\ channel = conn /\ ch[p] = conn
    BY <1>0, <1>8 DEF Declare, Solo
  <2>2. /\ pc[p] = "declare"
        /\ pc'[p] = IF conn \in usable /\ conn \in open THEN "publish" ELSE "close"
        /\ UNCHANGED <<conn, channel, open, usable, failed, failures>>
    BY <1>0, <1>8, <2>1 DEF Declare, Alive, Step, Goto
  <2>3. Owed(p)' = Owed(p)
    BY <2>1, <2>2 DEF Owed
  <2>4. QED
    BY <2>2, <2>3
<1>9. CASE CheckConn(p)
  <2>1. /\ pc[p] = "close" /\ pc'[p] = "closeConn" /\ UNCHANGED <<failed, failures>>
    BY <1>0, <1>9 DEF CheckConn, Step, Goto, Solo
  <2>2. Owed(p)' = Owed(p)
    BY <2>1 DEF Owed
  <2>3. QED
    BY <2>1, <2>2
<1>10. CASE CloseConn(p)
  <2>1. /\ pc[p] = "closeConn" /\ pc'[p] = "idle" /\ conn' \notin open'
        /\ failed' = failed + 1 /\ failures' = failures
    BY <1>0, <1>10 DEF CloseConn, Fail, Leave, Goto, Solo
  <2>2. Owed(p) = 1 /\ Owed(p)' = 0
    BY <2>1 DEF Owed
  <2>3. QED
    BY <1>0, <2>1, <2>2
<1>11. CASE ClearChannel(p)
  BY <1>0, <1>11 DEF ClearChannel, Solo
<1>12. CASE Publish(p)
  <2>1. /\ pc[p] = "publish" /\ pc'[p] = "idle" /\ channel = conn
        /\ UNCHANGED <<conn, channel, open, usable, failures>>
        /\ failed' = IF conn \in usable /\ conn \in open THEN failed ELSE failed + 1
    BY <1>0, <1>12 DEF Publish, Succeed, Fail, Leave, Goto, Solo, Alive
  <2>2. Owed(p)' = IF conn \in open /\ conn \notin usable THEN 1 ELSE 0
    BY <2>1 DEF Owed
  <2>3. Owed(p) = IF conn \notin open THEN 1 ELSE IF conn \notin usable THEN 2 ELSE 0
    BY <2>1 DEF Owed
  <2>4. QED
    BY <1>0, <2>1, <2>2, <2>3
<1>13. QED
  BY <1>1, <1>2, <1>3, <1>4, <1>5, <1>6, <1>7, <1>8, <1>9, <1>10, <1>11, <1>12
  DEF GetChannel, Send

LEMMA DebtPaid ==
  ASSUME NEW f \in Nat, NEW g \in Nat, NEW d \in 0..2, f + d <= 2 * g
  PROVE  f <= 2 * g
  OBVIOUS

LEMMA NextDebtInv == TypeOK /\ SoloInv /\ DebtInv /\ [Next]_vars => DebtInv'
<1> SUFFICES ASSUME TypeOK, SoloInv, DebtInv, [Next]_vars, ~raced' PROVE DebtInv'
  BY DEF DebtInv
<1>0. failed \in Nat /\ failures \in Nat
  BY ProducerAssumption DEF TypeOK
<1>1. ASSUME NEW p \in Producers, Produce(p) PROVE DebtInv'
  <2>1. ~raced /\ Busy = {} /\ pc[p] = "idle" /\ Busy' \subseteq {p}
    BY <1>1, SoloBegins DEF Produce
  <2>2. /\ UNCHANGED <<conn, channel, open, usable, failed, failures>>
        /\ pc' = [pc EXCEPT ![p] = "check"]
    BY <1>1 DEF Produce, Goto, service, broker
  <2>3. pc'[p] = "check" /\ p \in Busy'
    BY <2>2 DEF TypeOK, Busy
  <2>4. Owed(p)' = Owed(p)
    BY <2>1, <2>2, <2>3 DEF Owed
  <2>5. QED
    BY <2>1, <2>2, <2>3, <2>4 DEF DebtInv
<1>2. ASSUME NEW p \in Producers, GetChannel(p) \/ Send(p) PROVE DebtInv'
  <2>1. pc[p] # "idle" /\ raced' = raced
    BY <1>2 DEF GetChannel, Send, Check, CheckClosed, ForgetConn, ForgetChannel,
                CheckFresh, Dial, DialFails, OpenChannel, OpenChannelFails, Take,
                Declare, CheckConn, CloseConn, ClearChannel, Publish, Step, Succeed,
                Fail, PanicIn, history
  <2>2. Busy \subseteq {p} /\ SoloAt(p) /\ Nil \notin open
    BY <2>1, BusyAlone, Alone
  <2>3. failed + Owed(p) <= 2 * failures
    BY <2>1, <2>2 DEF DebtInv
  <2>4. failed' + Owed(p)' <= 2 * failures' /\ Busy' \subseteq {p}
    BY <1>2, <2>1, <2>2, <2>3, DebtStep, SoloStep, StaysAlone
  <2>5. ASSUME NEW q \in Producers, Busy' \subseteq {q} PROVE Owed(q)' = Owed(p)'
    <3>1. q = p \/ (pc'[p] = "idle" /\ pc'[q] = "idle")
      BY <2>4, <2>5 DEF Busy
    <3>2. CASE q = p
      BY <3>2
    <3>3. CASE pc'[p] = "idle" /\ pc'[q] = "idle"
      BY <3>3 DEF Owed
    <3>4. QED
      BY <3>1, <3>2, <3>3
  <2>6. \E d \in 0..2 : failed' + d <= 2 * failures'
    BY <2>4 DEF Owed
  <2>7. failed' <= 2 * failures'
    <3>1. failed' \in Nat /\ failures' \in Nat
      BY NextTypeOK, ProducerAssumption DEF TypeOK
    <3>2. QED
      BY <2>6, <3>1, DebtPaid, Zenon
  <2>8. QED
    BY <2>4, <2>5, <2>7 DEF DebtInv
<1>3. ASSUME NEW c \in open, LoseConnection(c) \/ LoseChannel(c) PROVE DebtInv'
  <2>1. /\ UNCHANGED <<raced, failed>> /\ failures' = failures + 1
    BY <1>3 DEF LoseConnection, LoseChannel, Disturb
  <2>2. failed <= 2 * failures
    BY <2>1 DEF DebtInv
  <2>3. \A p \in Producers : Owed(p)' \in 0..2
    BY DEF Owed
  <2>4. QED
    BY <1>0, <2>1, <2>2, <2>3 DEF DebtInv
<1>4. CASE UNCHANGED vars
  BY <1>4 DEF vars, DebtInv, Owed, Busy
<1>5. QED
  BY <1>1, <1>2, <1>3, <1>4 DEF Next, AllSent

(* Whatever goes wrong between and during produces that do not overlap, each
   failure costs at most two messages. *)
THEOREM OneFailureCostsTwo == Spec => []FailureCostsTwo
<1>1. Init => DebtInv
  BY DEF Init, DebtInv, Owed, Nil
<1>2. DebtInv => FailureCostsTwo
  BY DEF DebtInv, FailureCostsTwo
<1>3. QED
  BY <1>1, <1>2, SoloInvHolds, NextDebtInv, PTL DEF Spec

-----------------------------------------------------------------------------
(* After produces have overlapped *)

(* What a step of p does to the history: p stays, or leaves with a success or
   after a disturbance, or fails alone and undisturbed. *)
Stays(p) ==
  /\ pc'[p] # "idle"
  /\ \A q \in Producers : q # p => pc'[q] = pc[q] /\ ch'[q] = ch[q]
  /\ UNCHANGED <<calm, disturbed>>

LeavesCalm(p) ==
  /\ calm' = 0 /\ (disturbed => disturbed')
  /\ Busy' \subseteq Busy \ {p}

FailsCalm(p) ==
  /\ ~disturbed /\ UNCHANGED disturbed /\ calm' = calm + 1
  /\ pc' = [pc EXCEPT ![p] = "idle"]

(* A panic, wherever it happens *)
LEMMA PanicEffect ==
  ASSUME TypeOK, NEW p \in Producers, PanicIn(p)
  PROVE  LeavesCalm(p) \/ (FailsCalm(p) /\ UNCHANGED <<conn, channel, open>>)
<1>1. CASE p \in Requests
  BY <1>1 DEF PanicIn, Leave, Goto, LeavesCalm, FailsCalm, Busy, TypeOK, service,
              broker
<1>2. CASE p \notin Requests
  <2>1. calm' = 0 /\ disturbed' = disturbed /\ pc' = [q \in Producers |-> "idle"]
    BY <1>2 DEF PanicIn
  <2>2. QED
    BY <2>1 DEF LeavesCalm, Busy
<1>3. QED
  BY <1>1, <1>2

LEMMA FailEffect ==
  ASSUME TypeOK, NEW p \in Producers, Fail(p)
  PROVE  LeavesCalm(p) \/ FailsCalm(p)
  BY DEF Fail, Leave, Goto, LeavesCalm, FailsCalm, Busy, TypeOK

LEMMA SucceedEffect ==
  ASSUME TypeOK, NEW p \in Producers, Succeed(p)
  PROVE  LeavesCalm(p)
  BY DEF Succeed, Leave, Goto, LeavesCalm, Busy, TypeOK

(* Where a lone produce can fail: in the trap, or when it closes *)
Effect(p) ==
  \/ Stays(p)
  \/ LeavesCalm(p)
  \/ /\ FailsCalm(p)
     /\ Lone(p) => /\ Wedged' \/ conn' \notin open'
                   /\ Wedged /\ Stuck(p) => Wedged'
                   /\ Healing(p) => Wedged /\ Stuck(p)

LEMMA StepEffect ==
  ASSUME TypeOK, NEW p \in Producers, GetChannel(p) \/ Send(p)
  PROVE  pc[p] # "idle" /\ Effect(p)
<1> USE DEF service, broker, history
<1>0. Nil \notin open /\ pc \in [Producers -> Places]
  BY DEF TypeOK, Nil, Places
<1>1. CASE \/ Check(p) \/ CheckFresh(p) \/ ForgetConn(p) \/ ForgetChannel(p)
           \/ Dial(p) \/ OpenChannel(p) \/ Take(p) \/ CheckConn(p)
  <2>1. CASE Check(p) \/ CheckFresh(p) \/ ForgetConn(p) \/ ForgetChannel(p)
    BY <1>0, <2>1
       DEF Check, CheckFresh, ForgetConn, ForgetChannel, Step, Goto, Effect, Stays
  <2>2. CASE OpenChannel(p) \/ CheckConn(p)
    BY <1>0, <2>2 DEF OpenChannel, CheckConn, Step, Goto, Effect, Stays
  <2>3. CASE Dial(p)
    BY <1>0, <2>3 DEF Dial, Goto, Effect, Stays
  <2>4. CASE Take(p)
    BY <1>0, <2>4 DEF Take, Goto, Effect, Stays, TypeOK
  <2>5. QED
    BY <1>1, <2>1, <2>2, <2>3, <2>4
<1>2. CASE CheckClosed(p)
  <2>1. CASE PanicIn(p)
    <3>1. pc[p] = "closed"
      BY <1>2 DEF CheckClosed
    <3>2. Lone(p) => conn # Nil
      BY <3>1 DEF Lone
    <3>3. CASE conn = Nil
      BY <2>1, <3>1, <3>2, <3>3, PanicEffect DEF Effect
    <3>4. CASE conn # Nil
      BY <1>0, <1>2, <3>1, <3>4 DEF CheckClosed, Step, Goto, Effect, Stays
    <3>5. QED
      BY <3>3, <3>4
  <2>2. CASE ~PanicIn(p)
    BY <1>0, <1>2, <2>2 DEF CheckClosed, Step, Goto, Effect, Stays
  <2>3. QED
    BY <2>1, <2>2
<1>3. CASE DialFails(p)
  BY <1>0, <1>3 DEF DialFails, Leave, Goto, Effect, LeavesCalm, Busy
<1>4. CASE OpenChannelFails(p)
  <2>1. pc[p] = "channel" /\ own[p] \notin open /\ Fail(p)
    BY <1>4 DEF OpenChannelFails
  <2>2. ~Lone(p)
    BY <2>1 DEF Lone
  <2>3. QED
    BY <2>1, <2>2, FailEffect DEF Effect
<1>5. CASE Declare(p)
  <2>1. CASE ch[p] = Nil
    <3>1. PanicIn(p) /\ pc[p] = "declare"
      BY <1>5, <2>1 DEF Declare
    <3>2. Lone(p) => Wedged /\ Stuck(p)
      BY <2>1, <3>1 DEF Lone, Wedged, Stuck
    <3>3. QED
      BY <3>1, <3>2, PanicEffect DEF Effect, Wedged
  <2>2. CASE ch[p] # Nil
    BY <1>0, <1>5, <2>2 DEF Declare, Step, Goto, Effect, Stays
  <2>3. QED
    BY <2>1, <2>2
<1>6. CASE CloseConn(p)
  <2>1. pc[p] = "closeConn" /\ ~Stuck(p) /\ ~Healing(p)
    BY <1>6 DEF CloseConn, Stuck, Healing
  <2>2. CASE conn = Nil
    <3>1. PanicIn(p) /\ ~Lone(p)
      BY <1>6, <2>1, <2>2 DEF CloseConn, Lone
    <3>2. QED
      BY <2>1, <3>1, PanicEffect DEF Effect
  <2>3. CASE conn # Nil
    <3>1. Fail(p) /\ conn' \notin open'
      BY <1>6, <2>3 DEF CloseConn
    <3>2. QED
      BY <2>1, <3>1, FailEffect DEF Effect
  <2>4. QED
    BY <2>2, <2>3
<1>7. CASE ClearChannel(p)
  <2>1. pc[p] = "clearChannel" /\ Fail(p) /\ ~Lone(p)
    BY <1>7 DEF ClearChannel, Lone
  <2>2. QED
    BY <2>1, FailEffect DEF Effect
<1>8. CASE Publish(p)
  <2>1. pc[p] = "publish" /\ (Succeed(p) \/ (Fail(p) /\ ~Lone(p)))
    BY <1>8 DEF Publish, Lone
  <2>2. QED
    BY <2>1, FailEffect, SucceedEffect DEF Effect
<1>9. QED
  BY <1>1, <1>2, <1>3, <1>4, <1>5, <1>6, <1>7, <1>8 DEF GetChannel, Send

(* What a produce knows, it goes on knowing. *)
LEMMA KeepsKnowing ==
  ASSUME TypeOK, NEW p \in Producers, GetChannel(p) \/ Send(p), Stays(p)
  PROVE  /\ Lone(p) => Lone(p)'
         /\ Lone(p) /\ Healing(p) => Healing(p)'
         /\ Wedged /\ Stuck(p) => (Wedged /\ Stuck(p))'
<1> USE DEF service, broker, history
<1>0. Nil \notin open /\ pc \in [Producers -> Places] /\ pc'[p] # "idle"
  BY DEF TypeOK, Nil, Places, Stays
<1>1. CASE Check(p) \/ CheckFresh(p) \/ ForgetConn(p) \/ ForgetChannel(p) \/ CheckConn(p)
  BY <1>0, <1>1 DEF Check, CheckFresh, ForgetConn, ForgetChannel, CheckConn, Step,
                    Goto, Lone, Healing, Stuck, Wedged
<1>2. CASE CheckClosed(p)
  <2>1. ~PanicIn(p)
    BY <1>0 DEF PanicIn, Leave, Goto
  <2>2. QED
    BY <1>0, <1>2, <2>1 DEF CheckClosed, Step, Goto, Lone, Healing, Stuck, Wedged
<1>3. CASE Dial(p)
  BY <1>0, <1>3 DEF Dial, Goto, Lone, Healing, Stuck, Wedged, TypeOK
<1>4. CASE OpenChannel(p)
  BY <1>0, <1>4 DEF OpenChannel, Step, Goto, Lone, Healing, Stuck, Wedged
<1>5. CASE Take(p)
  <2>1. /\ pc[p] = "take" /\ pc'[p] = "declare" /\ ch'[p] = channel
        /\ UNCHANGED <<conn, channel, open, usable>>
    BY <1>0, <1>5 DEF Take, Goto, TypeOK
  <2>2. QED
    BY <2>1 DEF Lone, Healing, Stuck, Wedged, Alive
<1>6. CASE Declare(p)
  <2>1. ch[p] # Nil /\ pc[p] = "declare"
    BY <1>0, <1>6 DEF Declare, PanicIn, Leave, Goto
  <2>2. /\ pc'[p] = IF Alive(p) THEN "publish" ELSE "close"
        /\ UNCHANGED <<conn, channel, open, usable, ch>>
    BY <1>0, <1>6, <2>1 DEF Declare, Step, Goto
  <2>3. QED
    BY <1>0, <2>1, <2>2 DEF Lone, Healing, Stuck, Wedged, Alive
<1>7. CASE DialFails(p) \/ OpenChannelFails(p) \/ CloseConn(p) \/ ClearChannel(p) \/ Publish(p)
  BY <1>0, <1>7
     DEF DialFails, OpenChannelFails, CloseConn, ClearChannel, Publish, Fail, Succeed,
         PanicIn, Leave, Goto
<1>8. QED
  BY <1>1, <1>2, <1>3, <1>4, <1>5, <1>6, <1>7 DEF GetChannel, Send

LEMMA HealStep ==
  ASSUME TypeOK, HealInv, NEW p \in Producers, GetChannel(p) \/ Send(p)
  PROVE  HealInv'
<1>1. pc[p] # "idle" /\ Effect(p) /\ p \in Busy
  BY StepEffect DEF Busy
<1>2. calm \in Nat
  BY DEF TypeOK
<1>3. ~disturbed => Busy = {p} /\ Lone(p)
  BY <1>1 DEF HealInv
<1>4. CASE LeavesCalm(p)
  <2>1. calm' = 0 /\ (~disturbed' => Busy' = {})
    BY <1>3, <1>4 DEF LeavesCalm
  <2>2. QED
    BY <2>1 DEF HealInv
<1>5. CASE Stays(p)
  <2>1. Busy' = Busy /\ UNCHANGED <<calm, disturbed>>
    BY <1>1, <1>5 DEF Stays, Busy
  <2>2. calm > 1 => Wedged' /\ \A q \in Busy : Stuck(q)'
    <3>1. calm > 1 => Wedged /\ \A q \in Busy : Stuck(q)
      BY DEF HealInv
    <3>2. \A q \in Busy : q # p => (Stuck(q)' <=> Stuck(q))
      BY <1>5 DEF Stays, Stuck, Busy
    <3>3. QED
      BY <1>1, <1>5, <3>1, <3>2, KeepsKnowing
  <2>3. ~disturbed => Lone(p)'
    BY <1>3, <1>5, KeepsKnowing
  <2>4. calm = 1 /\ ~disturbed => (Wedged /\ Stuck(p))' \/ Healing(p)'
    BY <1>1, <1>3, <1>5, KeepsKnowing DEF HealInv
  <2>5. QED
    BY <1>1, <1>3, <2>1, <2>2, <2>3, <2>4 DEF HealInv
<1>6. CASE FailsCalm(p)
  <2>1. ~disturbed /\ calm' = calm + 1 /\ pc' = [pc EXCEPT ![p] = "idle"]
    BY <1>6 DEF FailsCalm
  <2>2. Busy' = {}
    BY <1>3, <2>1 DEF Busy, TypeOK
  <2>3. CASE ~Effect(p) \/ Stays(p) \/ LeavesCalm(p)
    BY <1>1, <1>4, <1>5, <2>3
  <2>4. CASE (Wedged' \/ conn' \notin open') /\ (Wedged /\ Stuck(p) => Wedged')
             /\ (Healing(p) => Wedged /\ Stuck(p))
    <3>1. calm = 1 \/ calm > 1 => Wedged'
      BY <1>1, <1>3, <2>1, <2>4 DEF HealInv
    <3>2. calm' > 1 => Wedged'
      BY <1>2, <2>1, <3>1
    <3>3. QED
      BY <2>2, <2>4, <3>2 DEF HealInv
  <2>5. QED
    BY <1>1, <1>3, <2>1, <2>3, <2>4 DEF Effect
<1>7. QED
  BY <1>1, <1>4, <1>5, <1>6 DEF Effect

LEMMA NextHealInv == TypeOK /\ HealInv /\ [Next]_vars => HealInv'
<1> SUFFICES ASSUME TypeOK, HealInv, [Next]_vars PROVE HealInv'
  OBVIOUS
<1>1. ASSUME NEW p \in Producers, Produce(p) PROVE HealInv'
  <2>1. /\ UNCHANGED <<conn, channel, open, ch, calm>> /\ pc[p] = "idle"
        /\ pc' = [pc EXCEPT ![p] = "check"] /\ (disturbed' <=> Busy # {})
    BY <1>1 DEF Produce, Goto, service, broker
  <2>2. /\ pc'[p] = "check" /\ Busy' = Busy \cup {p}
        /\ \A q \in Busy : q # p /\ pc'[q] = pc[q]
    BY <2>1 DEF TypeOK, Busy
  <2>3. Stuck(p)' /\ Lone(p)' /\ (conn \notin open => Healing(p)')
    BY <2>1, <2>2 DEF Stuck, Lone, Healing
  <2>4. \A q \in Busy : Stuck(q)' <=> Stuck(q)
    BY <2>1, <2>2 DEF Stuck
  <2>5. Wedged' <=> Wedged
    BY <2>1 DEF Wedged
  <2>6. CASE Busy = {}
    BY <2>1, <2>2, <2>3, <2>5, <2>6 DEF HealInv
  <2>7. CASE Busy # {}
    BY <2>1, <2>2, <2>3, <2>4, <2>5, <2>7 DEF HealInv
  <2>8. QED
    BY <2>6, <2>7
<1>2. ASSUME NEW c \in open, LoseConnection(c) \/ LoseChannel(c) PROVE HealInv'
  <2>1. disturbed' = TRUE /\ calm' = 0
    BY <1>2 DEF LoseConnection, LoseChannel, Disturb
  <2>2. QED
    BY <2>1 DEF HealInv
<1>3. CASE UNCHANGED vars
  BY <1>3 DEF vars, HealInv, Busy, Lone, Stuck, Healing, Wedged, Alive
<1>4. QED
  BY <1>1, <1>2, <1>3, HealStep DEF Next, AllSent

(* However produces have overlapped: of the lone and undisturbed produces
   that follow, at most the first fails, unless the service is trapped. *)
THEOREM RaceHeals == Spec => []HealsUnlessWedged
<1>1. Init => HealInv
  BY DEF Init, HealInv, Busy
<1>2. HealInv => HealsUnlessWedged
  BY DEF HealInv, HealsUnlessWedged
<1>3. QED
  BY <1>1, <1>2, InitTypeOK, NextTypeOK, NextHealInv, PTL DEF Spec

-----------------------------------------------------------------------------
(***************************************************************************)
(* The database actions                                                    *)
(***************************************************************************)

-----------------------------------------------------------------------------
(* The inductive invariant *)

Company(h) == {request[h]} \cup met[request[h]]

Early(h) == at[h] \notin {"store", "database", "query", "deferred"}

(* Handlers in progress have numbers of their own and know of each other. *)
Acquainted ==
  \A g, h \in Handlers :
    at[g] # "idle" /\ at[h] # "idle" /\ g # h =>
      request[g] # request[h] /\ request[g] \in met[request[h]]

(* What is in a field while a request is about to read it, and what it read,
   was written by itself or in its company. *)
Shared(h) ==
  /\ at[h] = "connect" => clientOpts \in Company(h)
  /\ at[h] = "database" => mongoClient \in Company(h) /\ mongoClient # 0
  /\ at[h] \in {"query", "deferred"} => db[h] \in Company(h)
  /\ at[h] \notin {"query", "deferred"} => db[h] = 0

(* Nobody can have closed a client that is not stored, and who closes one
   that a request is about to query is in progress together with it. *)
Closing(h) ==
  /\ Early(h) /\ at[h] # "idle" => request[h] \notin connected
  /\ at[h] \in {"mongo", "connect", "store"} =>
       /\ closedBy[request[h]] = 0
       /\ mongoClient # request[h]
       /\ \A g \in Handlers : db[g] # request[h]
  /\ at[h] = "store" => request[h] \in connected
  /\ at[h] = "database" => closedBy[mongoClient] \in {0} \cup met[request[h]]
  /\ at[h] \in {"query", "deferred"} => closedBy[db[h]] \in {0} \cup met[request[h]]

(* A client that was taken is connected or has been closed by somebody; one
   that was not made has not been closed. *)
Accounted ==
  /\ \A r \in Numbers : closedBy[r] # 0 => r \in 1..count
  /\ mongoClient # 0 => mongoClient \in connected \/ closedBy[mongoClient] # 0
  /\ \A h \in Handlers :
       db[h] # 0 => db[h] \in connected \/ closedBy[db[h]] # 0

(* A request that met a closed client is about to leave, or gone. *)
Orphaned(h) ==
  request[h] \in orphans /\ at[h] # "idle" =>
    at[h] = "deferred" /\ closedBy[db[h]] # 0

MadeInCompany == \A c \in connected : madeWith[c] \in {c} \cup met[c]

CompanyInv ==
  /\ DatabaseTypeOK
  /\ Acquainted
  /\ \A h \in Handlers : Shared(h) /\ Closing(h) /\ Orphaned(h)
  /\ Accounted
  /\ MadeInCompany

(* Until it is overtaken, a request finds its own client in the field and
   queries that. *)
Own(h) ==
  at[h] # "idle" /\ request[h] \notin overtaken =>
    /\ at[h] = "database" => mongoClient = request[h]
    /\ at[h] \in {"query", "deferred"} => db[h] = request[h]

LeakInv ==
  /\ CompanyInv
  /\ \A h \in Handlers : Own(h)
  /\ LeaksNeedOvertaking

(* Only the one caller that Once lets in registers; when it is through, the
   driver is there or it was told. *)
DriverInv ==
  /\ DatabaseTypeOK
  /\ Acquainted
  /\ \A h \in Handlers : at[h] = "register" => once = "running"
  /\ \A g, h \in Handlers : at[g] = "register" /\ at[h] = "register" => g = h
  /\ \A h \in Handlers : at[h] = "check" => once = "done"
  /\ once # "done" => told = {}
  /\ once = "done" => driverName \/ told # {}
  /\ told = {} \/ \E r \in Numbers : told = {r}
  /\ nilled # {} => told # {}

-----------------------------------------------------------------------------
(* Types *)

(* A request in progress has a number, and the numbers are below the bound. *)
LEMMA Numbered ==
  ASSUME DatabaseTypeOK
  PROVE  /\ count \in Nat /\ MaxRequests \in Nat /\ count <= MaxRequests
         /\ \A h \in Handlers : at[h] # "idle" => request[h] \in 1..count
         /\ 1..count \subseteq Numbers
         /\ InProgress \subseteq 1..count
<1>1. count \in Nat /\ MaxRequests \in Nat /\ count <= MaxRequests
  BY ActionsAssumption DEF DatabaseTypeOK
<1>2. \A h \in Handlers : at[h] # "idle" => request[h] \in 1..count
  BY <1>1 DEF DatabaseTypeOK
<1>3. QED
  BY <1>1, <1>2 DEF Numbers, InProgress

LEMMA DatabaseInitTypeOK == DatabaseInit => DatabaseTypeOK
<1> SUFFICES ASSUME DatabaseInit PROVE DatabaseTypeOK
  OBVIOUS
<1>1. count = 0 /\ count \in 0..MaxRequests
  BY ActionsAssumption DEF DatabaseInit
<1>2. /\ at = [h \in Handlers |-> "idle"] /\ request = [h \in Handlers |-> 0]
      /\ db = [h \in Handlers |-> 0]
  BY DEF DatabaseInit
<1>3. /\ madeWith \in [Numbers -> 0..count] /\ closedBy \in [Numbers -> 0..count]
      /\ met \in [Numbers -> SUBSET (1..count)]
  BY <1>1 DEF DatabaseInit
<1>4. /\ clientOpts \in 0..count /\ mongoClient \in 0..count
      /\ request \in [Handlers -> 0..count] /\ db \in [Handlers -> 0..count]
  BY <1>1, <1>2 DEF DatabaseInit
<1>5. QED
  BY <1>1, <1>2, <1>3, <1>4 DEF DatabaseInit, DatabaseTypeOK

LEMMA DatabaseNextTypeOK == DatabaseTypeOK /\ [DatabaseNext]_(databaseVars) => DatabaseTypeOK'
<1> SUFFICES ASSUME DatabaseTypeOK, [DatabaseNext]_(databaseVars) PROVE DatabaseTypeOK'
  OBVIOUS
<1> USE DEF fields, clients, driver, meetings
<1>0. /\ count \in Nat /\ MaxRequests \in Nat /\ count <= MaxRequests
      /\ \A h \in Handlers : at[h] # "idle" => request[h] \in 1..count
      /\ 1..count \subseteq Numbers /\ InProgress \subseteq 1..count
  BY Numbered
<1>1. ASSUME NEW h \in Handlers, NEW action \in {"mongo", "sql"}, Execute(h, action)
      PROVE  DatabaseTypeOK'
  <2>1. /\ UNCHANGED <<fields, clients, driver, db, overtaken, orphans, told, nilled>>
        /\ count' = count + 1 /\ count' \in 0..MaxRequests /\ 0..count \subseteq 0..count'
        /\ 1..count \subseteq 1..count' /\ count' \in 1..count'
        /\ at' = [at EXCEPT ![h] = action] /\ request' = [request EXCEPT ![h] = count']
    BY <1>0, <1>1 DEF Execute, MoveTo
  <2>2. met' \in [Numbers -> SUBSET (1..count')]
    BY <1>0, <1>1, <2>1 DEF Execute, DatabaseTypeOK
  <2>3. request' \in [Handlers -> 0..count'] /\ \A g \in Handlers : at'[g] = "idle" <=> request'[g] = 0
    BY <2>1 DEF DatabaseTypeOK
  <2>4. \A g \in Handlers : /\ at'[g] = "database" => mongoClient' # 0
                            /\ at'[g] \in {"query", "deferred"} => db'[g] # 0
    BY <2>1 DEF DatabaseTypeOK
  <2>5. QED
    BY <2>1, <2>2, <2>3, <2>4 DEF DatabaseTypeOK
<1>2. ASSUME NEW h \in Handlers,
             ConnectFails(h) \/ Query(h) \/ OpenNil(h) \/ RegisterFails(h) \/ Disconnect(h)
      PROVE  DatabaseTypeOK'
  <2>1. /\ UNCHANGED <<fields, madeWith, driverName, count, met, overtaken, orphans>>
        /\ at' = [at EXCEPT ![h] = "idle"] /\ request' = [request EXCEPT ![h] = 0]
        /\ db' = [db EXCEPT ![h] = 0]
        /\ at[h] # "idle"
    BY <1>2 DEF ConnectFails, Query, OpenNil, RegisterFails, Disconnect,
                ReturnFromAction, MoveTo
  <2>2. /\ once' \in {once, "done"}
        /\ told' \in {told, told \cup {request[h]}} /\ nilled' \in {nilled,
                                                       nilled \cup {request[h]}}
    BY <1>2 DEF ConnectFails, Query, OpenNil, RegisterFails, Disconnect
  <2>3. connected' \subseteq connected /\ closedBy' \in [Numbers -> 0..count]
    BY <1>0, <1>2
       DEF ConnectFails, Query, OpenNil, RegisterFails, Disconnect,
           DatabaseTypeOK
  <2>4. \A g \in Handlers : at'[g] = "idle" <=> request'[g] = 0
    BY <2>1 DEF DatabaseTypeOK
  <2>5. \A g \in Handlers : /\ at'[g] = "database" => mongoClient' # 0
                            /\ at'[g] \in {"query", "deferred"} => db'[g] # 0
    BY <2>1 DEF DatabaseTypeOK
  <2>6. QED
    BY <1>0, <2>1, <2>2, <2>3, <2>4, <2>5 DEF DatabaseTypeOK
<1>3. ASSUME NEW h \in Handlers,
             BuildClientOpts(h) \/ StoreClient(h) \/ TakeDatabase(h)
      PROVE  DatabaseTypeOK'
  <2>1. request[h] \in 1..count
    BY <1>0, <1>3 DEF BuildClientOpts, StoreClient, TakeDatabase
  <2>2. UNCHANGED <<madeWith, connected, closedBy, driver, request, count, met,
                    orphans, told, nilled>>
    BY <1>3 DEF BuildClientOpts, StoreClient, TakeDatabase, Proceed
  <2>8. overtaken' \subseteq 1..count
    <3>1. {request[g] : g \in {f \in Handlers : at[f] = "database"}} \subseteq 1..count
      BY <1>0
    <3>2. overtaken' \subseteq
            overtaken \cup {request[g] : g \in {f \in Handlers : at[f] = "database"}}
      BY <1>3 DEF BuildClientOpts, StoreClient, TakeDatabase, Proceed
    <3>3. QED
      BY <3>1, <3>2 DEF DatabaseTypeOK
  <2>3. clientOpts' \in 0..count /\ mongoClient' \in 0..count
    BY <1>0, <1>3, <2>1 DEF BuildClientOpts, StoreClient, TakeDatabase,
                            DatabaseTypeOK
  <2>4. /\ at' \in [Handlers -> {"idle", "mongo", "connect", "store", "database",
           "query",
                                  "deferred", "sql", "register", "check"}]
        /\ \A g \in Handlers : at'[g] = "idle" <=> at[g] = "idle"
    BY <1>3 DEF BuildClientOpts, StoreClient, TakeDatabase, Proceed, MoveTo,
                DatabaseTypeOK
  <2>5. db' \in [Handlers -> 0..count]
    BY <1>3 DEF BuildClientOpts, StoreClient, TakeDatabase, DatabaseTypeOK
  <2>6. \A g \in Handlers : /\ at'[g] = "database" => mongoClient' # 0
                            /\ at'[g] \in {"query", "deferred"} => db'[g] # 0
    BY <1>3, <2>1
       DEF BuildClientOpts, StoreClient, TakeDatabase, Proceed, MoveTo, DatabaseTypeOK
  <2>7. QED
    BY <2>2, <2>3, <2>4, <2>5, <2>6, <2>8 DEF DatabaseTypeOK
<1>4. ASSUME NEW h \in Handlers, RunCommand(h) PROVE DatabaseTypeOK'
  BY <1>0, <1>4 DEF RunCommand, MoveTo, DatabaseTypeOK
<1>5. ASSUME NEW h \in Handlers, Connect(h) PROVE DatabaseTypeOK'
  <2>1. request[h] \in 1..count
    BY <1>0, <1>5 DEF Connect
  <2>2. madeWith' \in [Numbers -> 0..count] /\ connected' \subseteq 1..count
    BY <1>5, <2>1 DEF Connect, DatabaseTypeOK
  <2>3. QED
    BY <1>5, <2>2 DEF Connect, Proceed, MoveTo, DatabaseTypeOK
<1>6. ASSUME NEW h \in Handlers, DoOnce(h) \/ Register(h) PROVE DatabaseTypeOK'
  BY <1>0, <1>6 DEF DoOnce, Register, Proceed, MoveTo, DatabaseTypeOK
<1>7. CASE UNCHANGED databaseVars
  BY <1>7 DEF databaseVars, DatabaseTypeOK
<1>8. QED
  BY <1>1, <1>2, <1>3, <1>4, <1>5, <1>6, <1>7 DEF DatabaseNext, Mongo, Sql, AllServed

(* The variables keep their types. *)
THEOREM DatabaseTypeCorrect == DatabaseSpec => []DatabaseTypeOK
<1>1. QED
  BY DatabaseInitTypeOK, DatabaseNextTypeOK, PTL DEF DatabaseSpec

-----------------------------------------------------------------------------
(* Who is in progress with whom *)

LEMMA NextAcquainted ==
  ASSUME DatabaseTypeOK, Acquainted, [DatabaseNext]_(databaseVars)
  PROVE  Acquainted' /\ \A r \in 1..count : met[r] \subseteq met'[r]
<1>0. /\ count \in Nat /\ MaxRequests \in Nat /\ count <= MaxRequests
      /\ \A h \in Handlers : at[h] # "idle" => request[h] \in 1..count
      /\ 1..count \subseteq Numbers /\ InProgress \subseteq 1..count
  BY Numbered
<1>1. ASSUME NEW h \in Handlers, NEW action \in {"mongo", "sql"}, Execute(h, action)
      PROVE  Acquainted' /\ \A r \in 1..count : met[r] \subseteq met'[r]
  <2>1. count' = count + 1 /\ count' \in Numbers /\ count' \notin 1..count
    BY <1>0, <1>1 DEF Execute, Numbers
  <2>2. /\ met' = [r \in Numbers |-> IF r = count' THEN InProgress
                                       ELSE IF r \in InProgress THEN met[r] \cup {count'}
                                       ELSE met[r]]
        /\ request' = [request EXCEPT ![h] = count'] /\ at[h] = "idle"
        /\ at' = [at EXCEPT ![h] = action]
    BY <1>1 DEF Execute, MoveTo
  <2>3. \A r \in 1..count : met[r] \subseteq met'[r]
    BY <1>0, <2>1, <2>2
  <2>4. ASSUME NEW f \in Handlers, NEW g \in Handlers, at'[f] # "idle",
               at'[g] # "idle", f # g
        PROVE  request'[f] # request'[g] /\ request'[f] \in met'[request'[g]]
    <3>1. \A e \in Handlers : e # h /\ at'[e] # "idle" =>
             request'[e] = request[e] /\ at[e] # "idle" /\ request[e] \in InProgress
             /\ request[e] \in 1..count
      BY <1>0, <2>2 DEF DatabaseTypeOK, InProgress
    <3>2. request'[h] = count'
      BY <2>2 DEF DatabaseTypeOK
    <3>3. CASE f = h
      BY <1>0, <2>1, <2>2, <2>4, <3>1, <3>2, <3>3
    <3>4. CASE g = h
      BY <1>0, <2>1, <2>2, <2>4, <3>1, <3>2, <3>4
    <3>5. CASE f # h /\ g # h
      <4>1. request[f] # request[g] /\ request[f] \in met[request[g]]
        BY <2>4, <3>1, <3>5 DEF Acquainted
      <4>2. request[g] \in 1..count
        BY <2>4, <3>1, <3>5
      <4>3. QED
        BY <2>3, <2>4, <3>1, <3>5, <4>1, <4>2
    <3>6. QED
      BY <3>3, <3>4, <3>5
  <2>5. QED
    BY <2>3, <2>4 DEF Acquainted
<1>2. ASSUME NEW h \in Handlers,
             ConnectFails(h) \/ Query(h) \/ OpenNil(h) \/ RegisterFails(h) \/ Disconnect(h)
      PROVE  Acquainted' /\ \A r \in 1..count : met[r] \subseteq met'[r]
  <2>1. /\ UNCHANGED met
        /\ at' = [at EXCEPT ![h] = "idle"] /\ request' = [request EXCEPT ![h] = 0]
    BY <1>2 DEF ConnectFails, Query, OpenNil, RegisterFails, Disconnect,
                ReturnFromAction, MoveTo, meetings
  <2>2. QED
    BY <2>1 DEF Acquainted, DatabaseTypeOK
<1>3. ASSUME NEW h \in Handlers,
             \/ BuildClientOpts(h) \/ Connect(h) \/ StoreClient(h) \/ TakeDatabase(h)
             \/ RunCommand(h) \/ DoOnce(h) \/ Register(h)
      PROVE  Acquainted' /\ \A r \in 1..count : met[r] \subseteq met'[r]
  <2>1. /\ UNCHANGED <<met, request>>
        /\ \A g \in Handlers : at'[g] = "idle" <=> at[g] = "idle"
    BY <1>3 DEF BuildClientOpts, Connect, StoreClient, TakeDatabase,
                RunCommand, DoOnce, Register, Proceed, MoveTo, meetings,
                DatabaseTypeOK
  <2>2. QED
    BY <2>1 DEF Acquainted
<1>4. CASE UNCHANGED databaseVars
  BY <1>4 DEF databaseVars, Acquainted
<1>5. QED
  BY <1>1, <1>2, <1>3, <1>4 DEF DatabaseNext, Mongo, Sql, AllServed

-----------------------------------------------------------------------------
(* Fields, clients and who closes them *)

LEMMA InitCompanyInv == DatabaseInit => CompanyInv
<1> SUFFICES ASSUME DatabaseInit PROVE CompanyInv
  OBVIOUS
<1>1. /\ \A h \in Handlers : at[h] = "idle" /\ db[h] = 0
      /\ connected = {} /\ mongoClient = 0
  BY DEF DatabaseInit
<1>2. DatabaseTypeOK
  BY DatabaseInitTypeOK
<1>3. Acquainted /\ Accounted /\ MadeInCompany
  BY <1>1 DEF DatabaseInit, Acquainted, Accounted, MadeInCompany
<1>4. \A h \in Handlers : Shared(h) /\ Closing(h) /\ Orphaned(h)
  BY <1>1 DEF Shared, Closing, Orphaned, Early
<1>5. QED
  BY <1>2, <1>3, <1>4 DEF CompanyInv

(* What every step below starts from *)
LEMMA CompanyFacts ==
  ASSUME CompanyInv, [DatabaseNext]_(databaseVars)
  PROVE  /\ DatabaseTypeOK' /\ Acquainted'
         /\ count \in Nat /\ 1..count \subseteq Numbers /\ count <= MaxRequests
         /\ \A h \in Handlers : at[h] # "idle" => request[h] \in 1..count
         /\ \A r \in 1..count : met[r] \subseteq met'[r] /\ met[r] \subseteq 1..count
         /\ \A h \in Handlers : at[h] # "idle" => request[h] \in InProgress
<1>1. DatabaseTypeOK' /\ Acquainted' /\ \A r \in 1..count : met[r] \subseteq met'[r]
  BY DatabaseNextTypeOK, NextAcquainted DEF CompanyInv
<1>2. QED
  BY <1>1, Numbered DEF CompanyInv, DatabaseTypeOK, InProgress

LEMMA ExecuteCompany ==
  ASSUME CompanyInv, [DatabaseNext]_(databaseVars), NEW h \in Handlers,
         NEW action \in {"mongo", "sql"}, Execute(h, action)
  PROVE  CompanyInv'
<1> USE CompanyFacts
<1>0. count' = count + 1 /\ count' \in Numbers /\ count' \notin 1..count /\ count' # 0
  BY ActionsAssumption DEF Execute, Numbers
<1>1. /\ UNCHANGED <<clientOpts, mongoClient, madeWith, connected, closedBy, db,
         orphans>>
      /\ at[h] = "idle"
      /\ at' = [at EXCEPT ![h] = action] /\ request' = [request EXCEPT ![h] = count']
  BY DEF Execute, MoveTo, fields, clients
<1>2. \A g \in Handlers : g # h => at'[g] = at[g] /\ request'[g] = request[g]
  BY <1>1 DEF CompanyInv, DatabaseTypeOK
<1>3. /\ at'[h] = action /\ request'[h] = count' /\ db[h] = 0
      /\ count' \notin connected /\ count' \notin orphans /\ closedBy[count'] = 0
      /\ mongoClient # count' /\ \A g \in Handlers : db[g] # count'
  <2>1. at'[h] = action /\ request'[h] = count'
    BY <1>1 DEF CompanyInv, DatabaseTypeOK
  <2>2. count' \notin connected /\ count' \notin orphans
    BY <1>0 DEF CompanyInv, DatabaseTypeOK
  <2>3. closedBy[count'] = 0
    BY <1>0 DEF CompanyInv, Accounted
  <2>4. mongoClient # count' /\ \A g \in Handlers : db[g] # count'
    BY <1>0 DEF CompanyInv, DatabaseTypeOK
  <2>5. db[h] = 0
    BY <1>1 DEF CompanyInv, Shared
  <2>6. QED
    BY <2>1, <2>2, <2>3, <2>4, <2>5
<1>4. ASSUME NEW g \in Handlers PROVE (Shared(g) /\ Closing(g) /\ Orphaned(g))'
  <2>1. CASE g = h
    BY <1>1, <1>3, <2>1 DEF Shared, Closing, Orphaned, Early
  <2>2. CASE g # h
    <3>1. (Company(g) \subseteq Company(g)' /\ met[request[g]] \subseteq met'[request'[g]])
          \/ at[g] = "idle"
      BY <1>2, <2>2 DEF Company
    <3>2. Shared(g) /\ Closing(g) /\ Orphaned(g)
      BY DEF CompanyInv
    <3>3. Shared(g)'
      BY <1>1, <1>2, <2>2, <3>1, <3>2 DEF Shared
    <3>4. Closing(g)'
      BY <1>1, <1>2, <2>2, <3>1, <3>2 DEF Closing, Early
    <3>5. QED
      BY <1>1, <1>2, <2>2, <3>2, <3>3, <3>4 DEF Orphaned
  <2>3. QED
    BY <2>1, <2>2
<1>5. Accounted' /\ MadeInCompany'
  <2>1. \A c \in connected : c \in 1..count
    BY DEF CompanyInv, DatabaseTypeOK
  <2>2. 1..count \subseteq 1..count'
    BY <1>0
  <2>3. QED
    BY <1>1, <2>1, <2>2 DEF CompanyInv, Accounted, MadeInCompany
<1>6. QED
  BY <1>4, <1>5 DEF CompanyInv

(* What a handler's step leaves of the others: its own request is met by all
   of them. *)
LEMMA Others ==
  ASSUME CompanyInv, NEW h \in Handlers, NEW g \in Handlers, g # h,
         at[g] # "idle", at[h] # "idle"
  PROVE  /\ request[h] # request[g] /\ request[h] \in met[request[g]]
         /\ request[h] \in Company(g) /\ request[h] # 0
  BY Numbered DEF CompanyInv, Acquainted, Company

LEMMA BuildCompany ==
  ASSUME CompanyInv, [DatabaseNext]_(databaseVars), NEW h \in Handlers, BuildClientOpts(h)
  PROVE  CompanyInv'
<1>1. /\ UNCHANGED <<mongoClient, madeWith, connected, closedBy, db, request, count,
         met, orphans>>
      /\ clientOpts' = request[h] /\ at[h] = "mongo" /\ at' = [at EXCEPT ![h] = "connect"]
  BY DEF BuildClientOpts, Proceed, MoveTo, clients, meetings
<1>2. at'[h] = "connect" /\ \A g \in Handlers : g # h => at'[g] = at[g]
  BY <1>1 DEF CompanyInv, DatabaseTypeOK
<1>3. ASSUME NEW g \in Handlers PROVE (Shared(g) /\ Closing(g) /\ Orphaned(g))'
  <2>1. Shared(g) /\ Closing(g) /\ Orphaned(g) /\ Company(g)' = Company(g)
    BY <1>1 DEF CompanyInv, Company
  <2>2. g # h /\ at[g] # "idle" => request[h] \in Company(g)
    BY <1>1, Others
  <2>3. Shared(g)'
    BY <1>1, <1>2, <2>1, <2>2 DEF Shared, Company
  <2>4. Closing(g)' /\ Orphaned(g)'
    BY <1>1, <1>2, <2>1 DEF Closing, Orphaned, Early
  <2>5. QED
    BY <2>3, <2>4
<1>4. Accounted' /\ MadeInCompany'
  BY <1>1 DEF CompanyInv, Accounted, MadeInCompany
<1>5. QED
  BY CompanyFacts, <1>3, <1>4 DEF CompanyInv

LEMMA ConnectCompany ==
  ASSUME CompanyInv, [DatabaseNext]_(databaseVars), NEW h \in Handlers, Connect(h)
  PROVE  CompanyInv'
<1>1. /\ UNCHANGED <<clientOpts, mongoClient, closedBy, db, request, count, met,
         orphans>>
      /\ madeWith' = [madeWith EXCEPT ![request[h]] = clientOpts]
      /\ connected' = connected \cup {request[h]}
      /\ at[h] = "connect" /\ at' = [at EXCEPT ![h] = "store"]
  BY DEF Connect, Proceed, MoveTo, fields, meetings
<1>2. at'[h] = "store" /\ \A g \in Handlers : g # h => at'[g] = at[g]
  BY <1>1 DEF CompanyInv, DatabaseTypeOK
<1>3. ASSUME NEW g \in Handlers PROVE (Shared(g) /\ Closing(g) /\ Orphaned(g))'
  <2>1. Shared(g) /\ Closing(g) /\ Orphaned(g) /\ Company(g)' = Company(g)
    BY <1>1 DEF CompanyInv, Company
  <2>2. g # h /\ at[g] # "idle" => request[h] # request[g]
    BY <1>1, Others
  <2>3. Shared(g)' /\ Orphaned(g)'
    BY <1>1, <1>2, <2>1 DEF Shared, Orphaned
  <2>4. Closing(g)'
    BY <1>1, <1>2, <2>1, <2>2 DEF Closing, Early
  <2>5. QED
    BY <2>3, <2>4
<1>5. MadeInCompany'
  <2>1. clientOpts \in {request[h]} \cup met[request[h]]
    BY <1>1 DEF CompanyInv, Shared, Company
  <2>2. request[h] \in Numbers
    BY <1>1, CompanyFacts
  <2>3. QED
    BY <1>1, <2>1, <2>2 DEF CompanyInv, MadeInCompany, DatabaseTypeOK
<1>6. Accounted'
  BY <1>1 DEF CompanyInv, Accounted
<1>7. QED
  BY CompanyFacts, <1>3, <1>5, <1>6 DEF CompanyInv

LEMMA StoreCompany ==
  ASSUME CompanyInv, [DatabaseNext]_(databaseVars), NEW h \in Handlers, StoreClient(h)
  PROVE  CompanyInv'
<1>1. /\ UNCHANGED <<clientOpts, madeWith, connected, closedBy, db, request, count,
         met, orphans>>
      /\ mongoClient' = request[h] /\ at[h] = "store" /\ at' = [at EXCEPT ![h] = "database"]
  BY DEF StoreClient, MoveTo, clients
<1>2. at'[h] = "database" /\ \A g \in Handlers : g # h => at'[g] = at[g]
  BY <1>1 DEF CompanyInv, DatabaseTypeOK
<1>3. closedBy[request[h]] = 0 /\ request[h] # 0 /\ request[h] \in connected
  BY <1>1, CompanyFacts DEF CompanyInv, Closing, DatabaseTypeOK
<1>4. ASSUME NEW g \in Handlers PROVE (Shared(g) /\ Closing(g) /\ Orphaned(g))'
  <2>1. Shared(g) /\ Closing(g) /\ Orphaned(g) /\ Company(g)' = Company(g)
    BY <1>1 DEF CompanyInv, Company
  <2>2. g # h /\ at[g] # "idle" => request[h] # request[g] /\ request[h] \in Company(g)
    BY <1>1, Others
  <2>3. Shared(g)'
    BY <1>1, <1>2, <1>3, <2>1, <2>2 DEF Shared, Company
  <2>4. Closing(g)' /\ Orphaned(g)'
    BY <1>1, <1>2, <1>3, <2>1, <2>2 DEF Closing, Orphaned, Early
  <2>5. QED
    BY <2>3, <2>4
<1>5. Accounted' /\ MadeInCompany'
  BY <1>1, <1>3 DEF CompanyInv, Accounted, MadeInCompany
<1>6. QED
  BY CompanyFacts, <1>4, <1>5 DEF CompanyInv

LEMMA TakeCompany ==
  ASSUME CompanyInv, [DatabaseNext]_(databaseVars), NEW h \in Handlers, TakeDatabase(h)
  PROVE  CompanyInv'
<1>1. /\ UNCHANGED <<clientOpts, mongoClient, madeWith, connected, closedBy, request,
         count, met, orphans>>
      /\ db' = [db EXCEPT ![h] = mongoClient]
      /\ at[h] = "database" /\ at' = [at EXCEPT ![h] = "query"]
  BY DEF TakeDatabase, Proceed, MoveTo, fields, clients, meetings
<1>2. /\ at'[h] = "query" /\ db'[h] = mongoClient
      /\ \A g \in Handlers : g # h => at'[g] = at[g] /\ db'[g] = db[g]
  BY <1>1 DEF CompanyInv, DatabaseTypeOK
<1>3. ASSUME NEW g \in Handlers PROVE (Shared(g) /\ Closing(g) /\ Orphaned(g))'
  <2>1. /\ Shared(g) /\ Closing(g) /\ Orphaned(g)
        /\ Shared(h) /\ Closing(h) /\ Orphaned(h) /\ Company(g)' = Company(g)
    BY <1>1 DEF CompanyInv, Company
  <2>2. Shared(g)' /\ Orphaned(g)'
    BY <1>1, <1>2, <2>1 DEF Shared, Orphaned
  <2>3. Closing(g)'
    BY <1>1, <1>2, <2>1 DEF Closing, Early
  <2>4. QED
    BY <2>2, <2>3
<1>4. Accounted' /\ MadeInCompany'
  BY <1>1, <1>2 DEF CompanyInv, Accounted, MadeInCompany
<1>5. QED
  BY CompanyFacts, <1>3, <1>4 DEF CompanyInv

LEMMA RunCompany ==
  ASSUME CompanyInv, [DatabaseNext]_(databaseVars), NEW h \in Handlers, RunCommand(h)
  PROVE  CompanyInv'
<1>1. /\ UNCHANGED <<clientOpts, mongoClient, madeWith, connected, closedBy, request,
         db, count, met>>
      /\ orphans' = IF db[h] \in connected THEN orphans ELSE orphans \cup {request[h]}
      /\ at[h] = "query" /\ at' = [at EXCEPT ![h] = "deferred"]
  BY DEF RunCommand, MoveTo, fields, clients
<1>2. at'[h] = "deferred" /\ \A g \in Handlers : g # h => at'[g] = at[g]
  BY <1>1 DEF CompanyInv, DatabaseTypeOK
<1>3. ASSUME NEW g \in Handlers PROVE (Shared(g) /\ Closing(g) /\ Orphaned(g))'
  <2>1. Shared(g) /\ Closing(g) /\ Orphaned(g) /\ Company(g)' = Company(g)
    BY <1>1 DEF CompanyInv, Company
  <2>2. g # h /\ at[g] # "idle" => request[h] # request[g]
    BY <1>1, Others
  <2>3. db[h] \in connected \/ closedBy[db[h]] # 0
    BY <1>1 DEF CompanyInv, Accounted, DatabaseTypeOK
  <2>4. Shared(g)' /\ Closing(g)'
    BY <1>1, <1>2, <2>1 DEF Shared, Closing, Early
  <2>5. Orphaned(g)'
    BY <1>1, <1>2, <2>1, <2>2, <2>3 DEF Orphaned
  <2>6. QED
    BY <2>4, <2>5
<1>4. Accounted' /\ MadeInCompany'
  BY <1>1 DEF CompanyInv, Accounted, MadeInCompany
<1>5. QED
  BY CompanyFacts, <1>3, <1>4 DEF CompanyInv

LEMMA OnceCompany ==
  ASSUME CompanyInv, [DatabaseNext]_(databaseVars), NEW h \in Handlers, DoOnce(h) \/ Register(h)
  PROVE  CompanyInv'
<1>1. /\ UNCHANGED <<clientOpts, mongoClient, madeWith, connected, closedBy, request,
         db,
                     count, met, orphans>>
      /\ at[h] \in {"sql", "register"} /\ at'[h] \in {"register", "check"}
      /\ \A g \in Handlers : g # h => at'[g] = at[g]
  BY DEF DoOnce, Register, Proceed, MoveTo, fields, clients, meetings,
         CompanyInv, DatabaseTypeOK
<1>2. ASSUME NEW g \in Handlers PROVE (Shared(g) /\ Closing(g) /\ Orphaned(g))'
  <2>1. Shared(g) /\ Closing(g) /\ Orphaned(g) /\ Company(g)' = Company(g)
    BY <1>1 DEF CompanyInv, Company
  <2>2. QED
    BY <1>1, <2>1 DEF Shared, Closing, Orphaned, Early
<1>3. Accounted' /\ MadeInCompany'
  BY <1>1 DEF CompanyInv, Accounted, MadeInCompany
<1>4. QED
  BY CompanyFacts, <1>2, <1>3 DEF CompanyInv

(* A request that leaves without having made a client *)
LEMMA LeaveCompany ==
  ASSUME CompanyInv, [DatabaseNext]_(databaseVars), NEW h \in Handlers,
         ConnectFails(h) \/ RegisterFails(h) \/ OpenNil(h) \/ Query(h)
  PROVE  CompanyInv'
<1>1. /\ UNCHANGED <<clientOpts, mongoClient, madeWith, connected, closedBy, count,
         met, orphans>>
      /\ at[h] \in {"connect", "register", "check"}
      /\ at' = [at EXCEPT ![h] = "idle"] /\ request' = [request EXCEPT ![h] = 0]
      /\ db' = [db EXCEPT ![h] = 0]
  BY DEF ConnectFails, RegisterFails, OpenNil, Query, ReturnFromAction, MoveTo,
         fields, clients, meetings
<1>2. /\ at'[h] = "idle" /\ db'[h] = 0
      /\ \A g \in Handlers : g # h => at'[g] = at[g] /\ request'[g] = request[g] /\ db'[g] = db[g]
  BY <1>1 DEF CompanyInv, DatabaseTypeOK
<1>3. ASSUME NEW g \in Handlers PROVE (Shared(g) /\ Closing(g) /\ Orphaned(g))'
  <2>1. CASE g = h
    BY <1>2, <2>1 DEF Shared, Closing, Orphaned, Early
  <2>2. CASE g # h
    <3>1. Shared(g) /\ Closing(g) /\ Orphaned(g) /\ Company(g)' = Company(g)
      BY <1>1, <1>2, <2>2 DEF CompanyInv, Company
    <3>2. \A f \in Handlers : db'[f] \in {0, db[f]}
      BY <1>2
    <3>3. at[g] # "idle" => request[g] # 0
      BY CompanyFacts
    <3>4. QED
      BY <1>1, <1>2, <2>2, <3>1, <3>2, <3>3 DEF Shared, Closing, Orphaned, Early
  <2>3. QED
    BY <2>1, <2>2
<1>4. Accounted' /\ MadeInCompany'
  BY <1>1, <1>2 DEF CompanyInv, Accounted, MadeInCompany
<1>5. QED
  BY CompanyFacts, <1>3, <1>4 DEF CompanyInv

LEMMA DisconnectCompany ==
  ASSUME CompanyInv, [DatabaseNext]_(databaseVars), NEW h \in Handlers, Disconnect(h)
  PROVE  CompanyInv'
<1>1. /\ UNCHANGED <<clientOpts, mongoClient, madeWith, count, met, orphans>>
      /\ at[h] = "deferred"
      /\ connected' = connected \ {db[h]}
      /\ closedBy' = [closedBy EXCEPT ![db[h]] = IF @ = 0 THEN request[h] ELSE @]
      /\ at' = [at EXCEPT ![h] = "idle"] /\ request' = [request EXCEPT ![h] = 0]
      /\ db' = [db EXCEPT ![h] = 0]
  BY DEF Disconnect, ReturnFromAction, MoveTo, fields, meetings
<1>2. /\ at'[h] = "idle" /\ db'[h] = 0
      /\ \A g \in Handlers : g # h => at'[g] = at[g] /\ request'[g] = request[g] /\ db'[g] = db[g]
      /\ \A f \in Handlers : db'[f] \in {0, db[f]}
  BY <1>1 DEF CompanyInv, DatabaseTypeOK
<1>3. /\ db[h] \in 1..count /\ db[h] \in Numbers /\ request[h] # 0 /\ db[h] # 0
      /\ closedBy'[db[h]] # 0 /\ closedBy'[db[h]] \in {closedBy[db[h]], request[h]}
      /\ closedBy[db[h]] # 0 => closedBy'[db[h]] = closedBy[db[h]]
      /\ \A c \in Numbers : c # db[h] => closedBy'[c] = closedBy[c]
  <2>1. db[h] \in 1..count /\ request[h] # 0
    BY <1>1, CompanyFacts DEF CompanyInv, DatabaseTypeOK
  <2>2. db[h] \in Numbers /\ closedBy \in [Numbers -> 0..count]
    BY <2>1, CompanyFacts DEF CompanyInv, DatabaseTypeOK
  <2>3. QED
    BY <1>1, <2>1, <2>2
<1>4. ASSUME NEW g \in Handlers PROVE (Shared(g) /\ Closing(g) /\ Orphaned(g))'
  <2>1. CASE g = h
    BY <1>2, <2>1 DEF Shared, Closing, Orphaned, Early
  <2>2. CASE g # h
    <3>1. /\ Shared(g) /\ Closing(g) /\ Orphaned(g) /\ Company(g)' = Company(g)
          /\ met'[request'[g]] = met[request[g]]
      BY <1>1, <1>2, <2>2 DEF CompanyInv, Company
    <3>2. at[g] # "idle" => request[g] \in Numbers /\ request[g] # 0 /\ request[h] \in met[request[g]]
      BY <1>1, <2>2, CompanyFacts, Others
    <3>3. Shared(g)'
      BY <1>1, <1>2, <2>2, <3>1 DEF Shared
    <3>4. Orphaned(g)'
      <4>1. at[g] = "deferred" => db[g] \in Numbers
        BY CompanyFacts DEF CompanyInv, DatabaseTypeOK
      <4>2. QED
        BY <1>1, <1>2, <1>3, <2>2, <3>1, <4>1 DEF Orphaned
    <3>5. Closing(g)'
      <4>1. at[g] \in {"mongo", "connect", "store"} => db[h] # request[g]
        BY <3>1 DEF Closing
      <4>2. \A c \in Numbers : closedBy'[c] \in {closedBy[c], request[h]}
        BY <1>3
      <4>3. at[g] = "database" => mongoClient \in Numbers
        BY CompanyFacts DEF CompanyInv, DatabaseTypeOK
      <4>4. at[g] \in {"query", "deferred"} => db[g] \in Numbers
        BY CompanyFacts DEF CompanyInv, DatabaseTypeOK
      <4>5. QED
        BY <1>1, <1>2, <1>3, <2>2, <3>1, <3>2, <4>1, <4>2, <4>3, <4>4 DEF Closing,
                                                                          Early
    <3>6. QED
      BY <3>3, <3>4, <3>5
  <2>3. QED
    BY <2>1, <2>2
<1>5. Accounted'
  <2>1. \A c \in Numbers : (c \in connected \/ closedBy[c] # 0) => (c \in connected' \/ closedBy'[c] # 0)
    BY <1>1, <1>3
  <2>2. \A c \in 0..count : c # 0 => c \in Numbers
    BY CompanyFacts
  <2>3. mongoClient \in 0..count /\ \A f \in Handlers : db[f] \in 0..count
    BY DEF CompanyInv, DatabaseTypeOK
  <2>4. \A r \in Numbers : closedBy'[r] # 0 => r \in 1..count
    BY <1>1, <1>3 DEF CompanyInv, Accounted
  <2>5. QED
    BY <1>1, <1>2, <2>1, <2>2, <2>3, <2>4 DEF CompanyInv, Accounted
<1>6. MadeInCompany'
  BY <1>1 DEF CompanyInv, MadeInCompany
<1>7. QED
  BY CompanyFacts, <1>4, <1>5, <1>6 DEF CompanyInv

LEMMA NextCompanyInv == CompanyInv /\ [DatabaseNext]_(databaseVars) => CompanyInv'
<1> SUFFICES ASSUME CompanyInv, [DatabaseNext]_(databaseVars) PROVE CompanyInv'
  OBVIOUS
<1>1. CASE UNCHANGED databaseVars
  <2>1. \A h \in Handlers : (Shared(h) /\ Closing(h) /\ Orphaned(h))'
    BY <1>1 DEF databaseVars, CompanyInv, Shared, Closing, Orphaned, Early, Company
  <2>2. QED
    BY CompanyFacts, <1>1, <2>1
    DEF databaseVars, CompanyInv, Accounted, MadeInCompany
<1>2. QED
  BY <1>1, ExecuteCompany, BuildCompany, ConnectCompany, StoreCompany, TakeCompany,
     RunCompany, OnceCompany, LeaveCompany, DisconnectCompany
  DEF DatabaseNext, Mongo, Sql, AllServed

LEMMA CompanyInvHolds == DatabaseSpec => []CompanyInv
<1>1. QED
  BY InitCompanyInv, NextCompanyInv, PTL DEF DatabaseSpec

(* Whatever requests interleave, and however many, nothing in the fields of
   MongodbQuery outlives the requests that share them. *)
THEOREM FieldsStayFresh == DatabaseSpec => []FieldsAreFresh
<1>1. CompanyInv => FieldsAreFresh
  BY DEF CompanyInv, FieldsAreFresh, MadeInCompany, Shared, Company
<1>2. QED
  BY <1>1, CompanyInvHolds, PTL

(* A query whose client somebody closed was in progress together with that
   request. *)
THEOREM OnlyCompanyCloses == DatabaseSpec => []ClosedByCompany
<1>1. CompanyInv => ClosedByCompany
  BY DEF CompanyInv, ClosedByCompany, Closing, Orphaned
<1>2. QED
  BY <1>1, CompanyInvHolds, PTL

(* A step that leaves the field, what was made of it and the requests in
   progress alone *)
LEMMA StillLeakInv ==
  ASSUME LeakInv, CompanyInv', UNCHANGED <<mongoClient, db, request, overtaken>>,
         \A g \in Handlers :
           /\ at'[g] = "idle" <=> at[g] = "idle"
           /\ at'[g] = "database" => at[g] = "database"
           /\ at'[g] \in {"query", "deferred"} => at[g] \in {"query", "deferred"},
         connected' \subseteq connected \cup InProgress
  PROVE  LeakInv'
<1>1. InProgress' = InProgress
  BY DEF InProgress
<1>2. LeaksNeedOvertaking'
  BY <1>1 DEF LeakInv, LeaksNeedOvertaking
<1>3. ASSUME NEW g \in Handlers PROVE Own(g)'
  BY DEF LeakInv, Own
<1>4. QED
  BY <1>2, <1>3 DEF LeakInv

(* A request that leaves takes its client along, unless it was overtaken. *)
LEMMA LeaveLeakInv ==
  ASSUME LeakInv, CompanyInv', NEW h \in Handlers,
         UNCHANGED <<mongoClient, overtaken>>,
         at' = [at EXCEPT ![h] = "idle"], request' = [request EXCEPT ![h] = 0],
         db' = [db EXCEPT ![h] = 0],
         connected' \subseteq connected,
         request[h] \in connected' => request[h] \in overtaken
  PROVE  LeakInv'
<1>1. /\ at'[h] = "idle"
      /\ \A g \in Handlers :
           g # h => at'[g] = at[g] /\ request'[g] = request[g] /\ db'[g] = db[g]
  BY DEF LeakInv, CompanyInv, DatabaseTypeOK
<1>2. InProgress \subseteq InProgress' \cup {request[h]}
  BY <1>1 DEF InProgress
<1>3. LeaksNeedOvertaking'
  BY <1>2 DEF LeakInv, LeaksNeedOvertaking
<1>4. ASSUME NEW g \in Handlers PROVE Own(g)'
  BY <1>1 DEF LeakInv, Own
<1>5. QED
  BY <1>3, <1>4 DEF LeakInv

LEMMA NextLeakInv == LeakInv /\ [DatabaseNext]_(databaseVars) => LeakInv'
<1> SUFFICES ASSUME LeakInv, [DatabaseNext]_(databaseVars) PROVE LeakInv'
  OBVIOUS
<1>0. CompanyInv /\ CompanyInv' /\ DatabaseTypeOK
  BY NextCompanyInv DEF LeakInv, CompanyInv
<1>1. ASSUME NEW h \in Handlers, NEW action \in {"mongo", "sql"}, Execute(h, action)
      PROVE  LeakInv'
  <2>1. /\ UNCHANGED <<mongoClient, connected, db, overtaken>> /\ at[h] = "idle"
        /\ at'[h] = action
        /\ \A g \in Handlers : g # h => at'[g] = at[g] /\ request'[g] = request[g]
    BY <1>0, <1>1 DEF Execute, MoveTo, fields, clients, DatabaseTypeOK
  <2>2. InProgress \subseteq InProgress'
    BY <2>1 DEF InProgress
  <2>3. LeaksNeedOvertaking'
    BY <2>1, <2>2 DEF LeakInv, LeaksNeedOvertaking
  <2>4. ASSUME NEW g \in Handlers PROVE Own(g)'
    BY <2>1 DEF LeakInv, Own
  <2>5. QED
    BY <1>0, <2>3, <2>4 DEF LeakInv
<1>2. ASSUME NEW h \in Handlers, StoreClient(h) PROVE LeakInv'
  <2>1. /\ UNCHANGED <<connected, db, request>>
        /\ mongoClient' = request[h] /\ at[h] = "store" /\ at'[h] = "database"
        /\ \A g \in Handlers : g # h => at'[g] = at[g]
        /\ overtaken' = overtaken \cup {request[g] : g \in {f \in Handlers : at[f] = "database"}}
    BY <1>0, <1>2 DEF StoreClient, MoveTo, clients, DatabaseTypeOK
  <2>2. InProgress' = InProgress
    BY <2>1 DEF InProgress
  <2>3. LeaksNeedOvertaking'
    BY <2>1, <2>2 DEF LeakInv, LeaksNeedOvertaking
  <2>4. ASSUME NEW g \in Handlers PROVE Own(g)'
    <3>1. g # h /\ at[g] = "database" => request[g] \in overtaken'
      BY <2>1
    <3>2. QED
      BY <2>1, <3>1 DEF LeakInv, Own
  <2>5. QED
    BY <1>0, <2>3, <2>4 DEF LeakInv
<1>3. ASSUME NEW h \in Handlers, TakeDatabase(h) PROVE LeakInv'
  <2>1. /\ UNCHANGED <<mongoClient, connected, request, overtaken>>
        /\ at[h] = "database" /\ at'[h] = "query" /\ db'[h] = mongoClient
        /\ \A g \in Handlers : g # h => at'[g] = at[g] /\ db'[g] = db[g]
    BY <1>0, <1>3
       DEF TakeDatabase, Proceed, MoveTo, fields, clients, meetings, DatabaseTypeOK
  <2>2. InProgress' = InProgress
    BY <2>1 DEF InProgress
  <2>3. LeaksNeedOvertaking'
    BY <2>1, <2>2 DEF LeakInv, LeaksNeedOvertaking
  <2>4. ASSUME NEW g \in Handlers PROVE Own(g)'
    BY <2>1 DEF LeakInv, Own
  <2>5. QED
    BY <1>0, <2>3, <2>4 DEF LeakInv
<1>4. ASSUME NEW h \in Handlers,
             ConnectFails(h) \/ RegisterFails(h) \/ OpenNil(h) \/ Query(h)
      PROVE  LeakInv'
  <2>1. /\ UNCHANGED <<mongoClient, connected, overtaken>>
        /\ at[h] \in {"connect", "register", "check"}
        /\ at' = [at EXCEPT ![h] = "idle"] /\ request' = [request EXCEPT ![h] = 0]
        /\ db' = [db EXCEPT ![h] = 0]
    BY <1>4 DEF ConnectFails, RegisterFails, OpenNil, Query, ReturnFromAction,
                MoveTo, fields, clients, meetings
  <2>2. request[h] \notin connected
    BY <2>1, <1>0 DEF CompanyInv, Closing, Early
  <2>3. QED
    BY <1>0, <2>1, <2>2, LeaveLeakInv
<1>5. ASSUME NEW h \in Handlers, Disconnect(h) PROVE LeakInv'
  <2>1. /\ UNCHANGED <<mongoClient, overtaken>>
        /\ at[h] = "deferred" /\ connected' = connected \ {db[h]}
        /\ at' = [at EXCEPT ![h] = "idle"] /\ request' = [request EXCEPT ![h] = 0]
        /\ db' = [db EXCEPT ![h] = 0]
    BY <1>5 DEF Disconnect, ReturnFromAction, MoveTo, fields, meetings
  <2>2. request[h] \in overtaken \/ db[h] = request[h]
    BY <2>1 DEF LeakInv, Own
  <2>3. QED
    BY <1>0, <2>1, <2>2, LeaveLeakInv
<1>6. ASSUME NEW h \in Handlers,
             \/ BuildClientOpts(h) \/ Connect(h) \/ RunCommand(h)
             \/ DoOnce(h) \/ Register(h)
      PROVE  LeakInv'
  <2>1. /\ UNCHANGED <<mongoClient, db, request, overtaken>>
        /\ connected' \in {connected, connected \cup {request[h]}}
        /\ at[h] \notin {"idle", "database"}
        /\ at'[h] \notin {"idle", "database"}
        /\ at'[h] \in {"query", "deferred"} => at[h] \in {"query", "deferred"}
        /\ \A g \in Handlers : g # h => at'[g] = at[g]
    BY <1>0, <1>6
       DEF BuildClientOpts, Connect, RunCommand, DoOnce, Register, Proceed, MoveTo,
           fields, clients, meetings, DatabaseTypeOK
  <2>2. request[h] \in InProgress
    BY <2>1 DEF InProgress
  <2>3. QED
    BY <1>0, <2>1, <2>2, StillLeakInv
<1>7. CASE UNCHANGED databaseVars
  BY <1>0, <1>7, StillLeakInv DEF databaseVars
<1>8. QED
  BY <1>1, <1>2, <1>3, <1>4, <1>5, <1>6, <1>7 DEF DatabaseNext, Mongo, Sql, AllServed

(* A request leaves a connected client behind only if another one stored its
   own client between this one's StoreClient and its TakeDatabase: whatever
   fails, and whoever else is in progress. *)
THEOREM OnlyTheOvertakenLeak == DatabaseSpec => []LeaksNeedOvertaking
<1>1. DatabaseInit => LeakInv
  BY InitCompanyInv DEF LeakInv, Own, LeaksNeedOvertaking, DatabaseInit
<1>2. LeakInv => LeaksNeedOvertaking
  BY DEF LeakInv
<1>3. QED
  BY <1>1, <1>2, NextLeakInv, PTL DEF DatabaseSpec

-----------------------------------------------------------------------------
(* The driver that is registered once *)

LEMMA NextDriverInv == DriverInv /\ [DatabaseNext]_(databaseVars) => DriverInv'
<1> SUFFICES ASSUME DriverInv, [DatabaseNext]_(databaseVars) PROVE DriverInv'
  OBVIOUS
<1>1. DatabaseTypeOK' /\ Acquainted'
  BY DatabaseNextTypeOK, NextAcquainted DEF DriverInv
<1>2. ASSUME NEW h \in Handlers, NEW action \in {"mongo", "sql"}, Execute(h, action)
      PROVE  DriverInv'
  BY <1>1, <1>2 DEF Execute, MoveTo, driver, DriverInv, DatabaseTypeOK
<1>3. ASSUME NEW h \in Handlers, DoOnce(h)
      PROVE  DriverInv'
  <2>1. UNCHANGED <<driverName, told, nilled>> /\ at[h] = "sql" /\ once # "running"
    BY <1>3 DEF DoOnce, Proceed, meetings
  <2>2. \A g \in Handlers : at[g] # "register"
    BY <2>1 DEF DriverInv
  <2>3. \A g \in Handlers : g # h => at'[g] = at[g]
    BY <1>3 DEF DoOnce, Proceed, MoveTo, DriverInv, DatabaseTypeOK
  <2>4. CASE once = "new"
    <3>1. once' = "running" /\ at'[h] = "register"
      BY <1>3, <2>4 DEF DoOnce, Proceed, MoveTo, DriverInv, DatabaseTypeOK
    <3>2. QED
      BY <1>1, <2>1, <2>2, <2>3, <2>4, <3>1 DEF DriverInv
  <2>5. CASE once = "done"
    <3>1. once' = "done" /\ at'[h] = "check"
      BY <1>3, <2>5 DEF DoOnce, Proceed, MoveTo, DriverInv, DatabaseTypeOK
    <3>2. QED
      BY <1>1, <2>1, <2>2, <2>3, <2>5, <3>1 DEF DriverInv
  <2>6. QED
    BY <2>1, <2>4, <2>5 DEF DriverInv, DatabaseTypeOK
<1>4. ASSUME NEW h \in Handlers, Register(h)
      PROVE  DriverInv'
  <2>1. /\ UNCHANGED <<told, nilled>> /\ at[h] = "register"
        /\ once' = "done" /\ driverName' = TRUE
        /\ at'[h] = "check" /\ \A g \in Handlers : g # h => at'[g] = at[g]
    BY <1>4 DEF Register, Proceed, MoveTo, meetings, DriverInv, DatabaseTypeOK
  <2>2. QED
    BY <1>1, <2>1 DEF DriverInv
<1>5. ASSUME NEW h \in Handlers, RegisterFails(h)
      PROVE  DriverInv'
  <2>1. /\ UNCHANGED <<driverName, nilled>> /\ at[h] = "register"
        /\ once' = "done" /\ told' = told \cup {request[h]}
        /\ at'[h] = "idle" /\ \A g \in Handlers : g # h => at'[g] = at[g]
    BY <1>5 DEF RegisterFails, ReturnFromAction, MoveTo, DriverInv, DatabaseTypeOK
  <2>2. told' = {request[h]} /\ request[h] \in Numbers
    BY <2>1, Numbered DEF DriverInv
  <2>3. QED
    BY <1>1, <2>1, <2>2 DEF DriverInv
<1>6. ASSUME NEW h \in Handlers, OpenNil(h)
      PROVE  DriverInv'
  <2>1. /\ UNCHANGED <<once, driverName, told>> /\ at[h] = "check" /\ ~driverName
        /\ \A g \in Handlers : at'[g] \in {at[g], "idle"}
    BY <1>6 DEF OpenNil, ReturnFromAction, MoveTo, driver, DriverInv, DatabaseTypeOK
  <2>2. told # {}
    BY <2>1 DEF DriverInv
  <2>3. QED
    BY <1>1, <2>1, <2>2 DEF DriverInv
<1>7. ASSUME NEW h \in Handlers, Mongo(h) \/ Query(h)
      PROVE  DriverInv'
  <2>1. UNCHANGED <<once, driverName, told, nilled>>
    BY <1>7 DEF Mongo, BuildClientOpts, Connect, ConnectFails, StoreClient,
                TakeDatabase, RunCommand, Disconnect, Query, Proceed, ReturnFromAction,
                driver, meetings
  <2>2. \A g \in Handlers : at'[g] = at[g] \/ at'[g] \notin {"register", "check"}
    BY <1>7 DEF Mongo, BuildClientOpts, Connect, ConnectFails, StoreClient,
                TakeDatabase, RunCommand, Disconnect, Query, Proceed, ReturnFromAction,
                MoveTo, DriverInv, DatabaseTypeOK
  <2>3. QED
    BY <1>1, <2>1, <2>2 DEF DriverInv
<1>8. CASE UNCHANGED databaseVars
  BY <1>1, <1>8 DEF databaseVars, DriverInv
<1>9. QED
  BY <1>2, <1>3, <1>4, <1>5, <1>6, <1>7, <1>8 DEF DatabaseNext, Sql, AllServed

(* However first callers race, at most one is told, and nobody gets a nil
   database before. *)
THEOREM OneIsTold == DatabaseSpec => []NilAfterOneError
<1>1. DatabaseInit => DriverInv
  <2> SUFFICES ASSUME DatabaseInit PROVE DriverInv
    OBVIOUS
  <2>1. \A h \in Handlers : at[h] = "idle"
    BY DEF DatabaseInit
  <2>2. QED
    BY <2>1, DatabaseInitTypeOK DEF DatabaseInit, DriverInv, Acquainted
<1>2. DriverInv => NilAfterOneError
  BY DEF DriverInv, NilAfterOneError
<1>3. QED
  BY <1>1, <1>2, NextDriverInv, PTL DEF DatabaseSpec
=============================================================================
