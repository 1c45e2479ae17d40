--------------------------- MODULE RabbitProducer ---------------------------
(***************************************************************************)
(* The rabbitmq-producer service (pkg/actions/rabbitmq_producer_service.go)*)
(* of one server.  Scripts of requests and of background services share    *)
(* the object; getChannel and Close read and write its two fields without  *)
(* a lock, and every read and write here is a step of its own.             *)
(*                                                                         *)
(* A connection has one channel, which the produce that dialled it opens,  *)
(* so a channel is named by its connection.                                *)
(***************************************************************************)
EXTENDS Integers

CONSTANTS
  Requests,      \* handlers of HTTP requests that may produce
  Background,    \* goroutines of background services that may produce
  MaxProduces,   \* bound on the messages each of them tries to send
  MaxFailures    \* bound on what goes wrong outside the server

Producers == Requests \cup Background

ASSUME ProducerAssumption ==
  /\ Requests \cap Background = {}
  /\ MaxProduces \in Nat /\ MaxFailures \in Nat

Nil == 0

VARIABLES
  conn,        \* producer.conn
  channel,     \* producer.channel
  open,        \* the connections that are open
  usable,      \* the channels that are open
  dialled,     \* how many connections have been made
  pc,          \* where each produce is
  own,         \* the connection it has dialled
  ch,          \* the channel getChannel gave it
  produces,    \* the messages it has tried to send
  failures,    \* for the bound
  raced,       \* history: two produces have been in progress together
  failed,      \* history: produces that failed, with an error or a panic
  panicked,    \* history: one of them panicked
  calm,        \* history: how many produces of this process before now failed
               \* in a row, each alone and with nothing going wrong meanwhile
  disturbed    \* history: something has gone wrong since a produce began, or
               \* another one has been in progress

service == <<conn, channel>>
broker == <<open, usable, dialled>>
history == <<raced, failed, panicked, calm, disturbed>>
vars == <<conn, channel, open, usable, dialled, pc, own, ch, produces,
          failures, raced, failed, panicked, calm, disturbed>>

Init ==
  /\ conn = Nil /\ channel = Nil
  /\ open = {} /\ usable = {} /\ dialled = 0
  /\ pc = [p \in Producers |-> "idle"]
  /\ own = [p \in Producers |-> Nil]
  /\ ch = [p \in Producers |-> Nil]
  /\ produces = [p \in Producers |-> 0]
  /\ failures = 0
  /\ raced = FALSE /\ failed = 0 /\ panicked = FALSE
  /\ calm = 0 /\ disturbed = FALSE

Busy == {p \in Producers : pc[p] # "idle"}

Goto(p, where) == pc' = [pc EXCEPT ![p] = where]

-----------------------------------------------------------------------------
(* The beginning and the end of a produce *)

Produce(p) ==
  /\ pc[p] = "idle"
  /\ produces[p] < MaxProduces
  /\ produces' = [produces EXCEPT ![p] = @ + 1]
  /\ Goto(p, "check")
  /\ raced' = (raced \/ Busy # {})
  /\ disturbed' = (Busy # {})
  /\ UNCHANGED <<service, broker, own, ch, failures, failed, panicked, calm>>

Leave(p) ==
  /\ Goto(p, "idle")
  /\ own' = [own EXCEPT ![p] = Nil]
  /\ ch' = [ch EXCEPT ![p] = Nil]

Succeed(p) ==
  /\ Leave(p)
  /\ calm' = 0
  /\ UNCHANGED <<produces, failures, raced, failed, panicked, disturbed>>

Fail(p) ==
  /\ Leave(p)
  /\ failed' = failed + 1
  /\ calm' = IF disturbed THEN 0 ELSE calm + 1
  /\ UNCHANGED <<produces, failures, raced, panicked, disturbed>>

(* A nil pointer.  net/http recovers it in a request; in the goroutine of a
   background service it ends the process, which starts again with a new
   service. *)
PanicIn(p) ==
  /\ failed' = failed + 1
  /\ panicked' = TRUE
  /\ IF p \in Requests
     THEN /\ Leave(p)
          /\ calm' = IF disturbed THEN 0 ELSE calm + 1
          /\ UNCHANGED <<service, broker>>
     ELSE /\ calm' = 0
          /\ conn' = Nil /\ channel' = Nil
          /\ open' = {} /\ usable' = {}
          /\ pc' = [q \in Producers |-> "idle"]
          /\ own' = [q \in Producers |-> Nil]
          /\ ch' = [q \in Producers |-> Nil]
          /\ UNCHANGED dialled
  /\ UNCHANGED <<produces, failures, raced, disturbed>>

Step(p, where) ==
  /\ Goto(p, where)
  /\ UNCHANGED <<own, ch, produces, failures, history>>

-----------------------------------------------------------------------------
(* getChannel *)

(* producer.conn != nil *)
Check(p) ==
  /\ pc[p] = "check"
  /\ Step(p, IF conn = Nil THEN "fresh" ELSE "closed")
  /\ UNCHANGED <<service, broker>>

(* Faulty variant: a connection that is closed is kept.                    *)
CheckClosedNever(p) ==
  /\ pc[p] = "closed"
  /\ \/ conn = Nil /\ PanicIn(p)
     \/ conn # Nil /\ Step(p, "fresh") /\ UNCHANGED <<service, broker>>

(* producer.conn.IsClosed(), after another look at the field *)
CheckClosed(p) ==
  /\ pc[p] = "closed"
  /\ \/ conn = Nil /\ PanicIn(p)
     \/ /\ conn # Nil
        /\ Step(p, IF conn \in open THEN "fresh" ELSE "forget")
        /\ UNCHANGED <<service, broker>>

(* producer.conn = nil and producer.channel = nil, here or in Close *)
ForgetConn(p) ==
  /\ pc[p] \in {"forget", "clear"}
  /\ conn' = Nil
  /\ Step(p, IF pc[p] = "forget" THEN "forgetChannel" ELSE "clearChannel")
  /\ UNCHANGED <<channel, broker>>

ForgetChannel(p) ==
  /\ pc[p] = "forgetChannel"
  /\ channel' = Nil
  /\ Step(p, "fresh")
  /\ UNCHANGED <<conn, broker>>

(* Faulty variant: the connection is not looked at again before dialling.  *)
CheckFreshDials(p) ==
  /\ pc[p] = "fresh"
  /\ Step(p, "dial")
  /\ UNCHANGED <<service, broker>>

(* producer.conn == nil *)
CheckFresh(p) ==
  /\ pc[p] = "fresh"
  /\ Step(p, IF conn = Nil THEN "dial" ELSE "take")
  /\ UNCHANGED <<service, broker>>

(* Dial, and producer.conn = conn *)
Dial(p) ==
  /\ pc[p] = "dial"
  /\ dialled' = dialled + 1
  /\ open' = open \cup {dialled'}
  /\ conn' = dialled'
  /\ own' = [own EXCEPT ![p] = dialled']
  /\ Goto(p, "channel")
  /\ UNCHANGED <<channel, usable, ch, produces, failures, history>>

DialFails(p) ==
  /\ pc[p] = "dial"
  /\ failures < MaxFailures
  /\ failures' = failures + 1
  /\ Leave(p)
  /\ failed' = failed + 1
  /\ calm' = 0
  /\ disturbed' = TRUE
  /\ UNCHANGED <<service, broker, produces, raced, panicked>>

(* conn.Channel() of the connection just dialled, and producer.channel *)
OpenChannel(p) ==
  /\ pc[p] = "channel"
  /\ own[p] \in open
  /\ usable' = usable \cup {own[p]}
  /\ channel' = own[p]
  /\ Step(p, "take")
  /\ UNCHANGED <<conn, open, dialled>>

(* It fails if that connection is gone; conn keeps it, channel what it was. *)
OpenChannelFails(p) ==
  /\ pc[p] = "channel"
  /\ own[p] \notin open
  /\ Fail(p)
  /\ UNCHANGED <<service, broker>>

(* return producer.channel *)
Take(p) ==
  /\ pc[p] = "take"
  /\ ch' = [ch EXCEPT ![p] = channel]
  /\ Goto(p, "declare")
  /\ UNCHANGED <<service, broker, own, produces, failures, history>>

-----------------------------------------------------------------------------
(* Produce, after getChannel, and Close *)

Alive(p) == ch[p] \in usable /\ ch[p] \in open

(* QueueDeclare, a round trip to the broker *)
Declare(p) ==
  /\ pc[p] = "declare"
  /\ \/ ch[p] = Nil /\ PanicIn(p)
     \/ ch[p] # Nil /\ Step(p, IF Alive(p) THEN "publish" ELSE "close")
        /\ UNCHANGED <<service, broker>>

(* Faulty variant: the error of QueueDeclare is returned without Close.    *)
CheckConnReturns(p) ==
  /\ pc[p] = "close"
  /\ Fail(p)
  /\ UNCHANGED <<service, broker>>

(* Close: producer.conn != nil *)
CheckConn(p) ==
  /\ pc[p] = "close"
  /\ Step(p, IF conn = Nil THEN "clear" ELSE "closeConn")
  /\ UNCHANGED <<service, broker>>

(* Faulty variant: only the channel is closed and forgotten.               *)
CloseChannelOnly(p) ==
  /\ pc[p] = "closeConn"
  /\ channel' = Nil
  /\ usable' = usable \ {channel}
  /\ Fail(p)
  /\ UNCHANGED <<conn, open, dialled>>

(* producer.conn.Close(), after another look at the field: whichever
   connection it holds by now, which stays in the field *)
CloseConn(p) ==
  /\ pc[p] = "closeConn"
  /\ \/ conn = Nil /\ PanicIn(p)
     \/ /\ conn # Nil
        /\ open' = open \ {conn}
        /\ Fail(p)
        /\ UNCHANGED <<service, usable, dialled>>

ClearChannel(p) ==
  /\ pc[p] = "clearChannel"
  /\ channel' = Nil
  /\ Fail(p)
  /\ UNCHANGED <<conn, broker>>

(* Publish waits for no answer; on a channel known to be closed it fails,
   without Close. *)
Publish(p) ==
  /\ pc[p] = "publish"
  /\ IF Alive(p) THEN Succeed(p) ELSE Fail(p)
  /\ UNCHANGED <<service, broker>>

-----------------------------------------------------------------------------
(* What goes wrong outside *)

Disturb ==
  /\ failures < MaxFailures
  /\ failures' = failures + 1
  /\ disturbed' = TRUE
  /\ calm' = 0
  /\ UNCHANGED <<service, dialled, pc, own, ch, produces, raced, failed, panicked>>

(* The broker or the network ends a connection. *)
LoseConnection(c) ==
  /\ c \in open
  /\ open' = open \ {c}
  /\ Disturb
  /\ UNCHANGED usable

(* The broker closes a channel, for a queue that exists with other
   properties, say. *)
LoseChannel(c) ==
  /\ c \in open \cap usable
  /\ usable' = usable \ {c}
  /\ Disturb
  /\ UNCHANGED open

-----------------------------------------------------------------------------

GetChannel(p) ==
  \/ Check(p) \/ CheckClosed(p) \/ ForgetConn(p) \/ ForgetChannel(p)
  \/ CheckFresh(p) \/ Dial(p) \/ DialFails(p)
  \/ OpenChannel(p) \/ OpenChannelFails(p) \/ Take(p)

Send(p) ==
  Declare(p) \/ CheckConn(p) \/ CloseConn(p) \/ ClearChannel(p) \/ Publish(p)

AllSent ==
  /\ \A p \in Producers : pc[p] = "idle" /\ produces[p] = MaxProduces
  /\ UNCHANGED vars

Next ==
  \/ \E p \in Producers : Produce(p) \/ GetChannel(p) \/ Send(p)
  \/ \E c \in open : LoseConnection(c) \/ LoseChannel(c)
  \/ AllSent

Spec == Init /\ [][Next]_vars

-----------------------------------------------------------------------------

(* The next produce finds an open connection without a channel. *)
Wedged == conn \in open /\ channel = Nil

(* The types of the variables; what a field or a produce refers to was
   dialled. *)
TypeOK ==
  /\ dialled \in Nat
  /\ conn \in 0..dialled /\ channel \in 0..dialled
  /\ open \subseteq 1..dialled /\ usable \subseteq 1..dialled
  /\ pc \in [Producers -> {"idle", "check", "closed", "forget", "forgetChannel",
                           "fresh", "dial", "channel", "take", "declare", "close",
                           "closeConn", "clear", "clearChannel", "publish"}]
  /\ own \in [Producers -> 0..dialled]
  /\ ch \in [Producers -> 0..dialled]
  /\ \A p \in Producers : pc[p] = "channel" => own[p] # Nil
  /\ produces \in [Producers -> 0..MaxProduces]
  /\ failures \in 0..MaxFailures
  /\ raced \in BOOLEAN /\ disturbed \in BOOLEAN
  /\ failed \in Nat /\ panicked \in BOOLEAN /\ calm \in 0..failed

(* As long as produces do not overlap there is no nil pointer: neither a
   lost connection nor a failed dial leaves the fields in a state in which
   the next produce panics, so no message ends the process. *)
PanicNeedsRace == panicked => raced

(* As long as produces do not overlap, one failure outside makes at most two
   of them fail: one on the dead channel in Publish, which does not close,
   and the next one, whose QueueDeclare fails, which does.  Not counted are
   messages that Publish took and the broker never got: no caller is told. *)
FailureCostsTwo == ~raced => failed <= 2 * failures

(* As long as produces do not overlap, no connection is left open that the
   service has forgotten. *)
LeakNeedsRace == ~raced => open \subseteq {conn}

(* However produces have overlapped, the service heals itself: of the lone
   produces that follow, undisturbed, at most the first fails, unless the
   race has left an open connection without a channel. *)
HealsUnlessWedged == calm > 1 => Wedged
=============================================================================
