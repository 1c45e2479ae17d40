--------------------------- MODULE RabbitConsumer ---------------------------
(***************************************************************************)
(* The rabbitmq-consumer background service                                *)
(* (pkg/actions/rabbitmq_consumer_service.go) of several servers that      *)
(* consume one queue, with what it relies on of the amqp library and of    *)
(* the broker.  Messages are acknowledged by the broker when it delivers   *)
(* them (autoAck), so from then on they exist only in the consumer.        *)
(*                                                                         *)
(* Only Run's goroutine uses the connection.  The messages are numbered in *)
(* the order in which they are published.                                  *)
(***************************************************************************)
EXTENDS Integers, Sequences, SequencesExt

CONSTANTS
  Consumers,     \* the servers, one service in each
  Datadog,       \* those that run in Datadog mode
  MaxMessages,   \* bound on the messages published
  MaxFailures    \* bound on what goes wrong

ASSUME RabbitAssumption ==
  Datadog \subseteq Consumers /\ MaxMessages \in Nat /\ MaxFailures \in Nat

VARIABLES
  published,   \* how many messages have been published
  queue,       \* the messages in the broker's queue
  at,          \* where each service is
  tracing,     \* whether the Datadog tracer of its process has started
  conn,        \* the service's connection: none, open, or closed by the peer
  channel,     \* whether the channel of its connection is open
  buffer,      \* the messages delivered to it and not taken yet
  current,     \* the message it handles
  last,        \* the message it took last, 0 before the first
  received,    \* history: the messages it was ever given
  runs,        \* how often the script has been run for each message
  failures     \* for the bound

broker == <<published, queue>>
link == <<conn, channel, buffer>>
rabbitVars == <<published, queue, at, tracing, conn, channel, buffer, current, last,
                received, runs, failures>>

Messages == 1..MaxMessages
NoMessage == 0

RabbitInit ==
  /\ published = 0 /\ queue = <<>>
  /\ at = [c \in Consumers |-> "off"]
  /\ tracing = [c \in Consumers |-> FALSE]
  /\ conn = [c \in Consumers |-> "none"]
  /\ channel = [c \in Consumers |-> FALSE]
  /\ buffer = [c \in Consumers |-> <<>>]
  /\ current = [c \in Consumers |-> NoMessage]
  /\ last = [c \in Consumers |-> NoMessage]
  /\ received = [c \in Consumers |-> {}]
  /\ runs = [m \in Messages |-> 0]
  /\ failures = 0

Goto(c, where) == at' = [at EXCEPT ![c] = where]

Fail == failures < MaxFailures /\ failures' = failures + 1

Handled == {m \in Messages : runs[m] > 0}
InHand(c) == ToSet(buffer[c]) \cup ({current[c]} \ {NoMessage})

-----------------------------------------------------------------------------
(* The broker, the library and the servers' processes *)

Publish ==
  /\ published < MaxMessages
  /\ published' = published + 1
  /\ queue' = Append(queue, published')
  /\ UNCHANGED <<at, tracing, link, current, last, received, runs, failures>>

(* Faulty variant: without autoAck the broker keeps the message.           *)
DeliverUnacknowledged(c) ==
  /\ channel[c]
  /\ queue # <<>>
  /\ buffer' = [buffer EXCEPT ![c] = Append(@, Head(queue))]
  /\ received' = [received EXCEPT ![c] = @ \cup {Head(queue)}]
  /\ UNCHANGED <<broker, at, tracing, conn, channel, current, last, runs, failures>>

(* The broker delivers to a consumer whose channel is open, and forgets. *)
Deliver(c) ==
  /\ channel[c]
  /\ queue # <<>>
  /\ queue' = Tail(queue)
  /\ buffer' = [buffer EXCEPT ![c] = Append(@, Head(queue))]
  /\ received' = [received EXCEPT ![c] = @ \cup {Head(queue)}]
  /\ UNCHANGED <<published, at, tracing, conn, channel, current, last, runs, failures>>

(* The broker restarts: the queue is not durable, and every connection is
   closed. *)
BrokerRestarts ==
  /\ Fail
  /\ queue' = <<>>
  /\ conn' = [c \in Consumers |-> IF conn[c] = "open" THEN "closed" ELSE conn[c]]
  /\ channel' = [c \in Consumers |-> FALSE]
  /\ UNCHANGED <<published, at, tracing, buffer, current, last, received, runs>>

(* The network fails. *)
Disconnect(c) ==
  /\ conn[c] = "open"
  /\ Fail
  /\ conn' = [conn EXCEPT ![c] = "closed"]
  /\ channel' = [channel EXCEPT ![c] = FALSE]
  /\ UNCHANGED <<broker, at, tracing, buffer, current, last, received, runs>>

(* The library notices that the channel is closed and drops what the service
   has not taken yet. *)
DropBuffer(c) ==
  /\ ~channel[c]
  /\ buffer[c] # <<>>
  /\ buffer' = [buffer EXCEPT ![c] = <<>>]
  /\ UNCHANGED <<broker, at, tracing, conn, channel, current, last, received, runs, failures>>

(* The process ends, by a signal, a panic in a script or a crash; the
   context's cancellation precedes the exit and ends Run's loop at most. *)
Exit(c) ==
  /\ at[c] # "off"
  /\ Fail
  /\ Goto(c, "off")
  /\ tracing' = [tracing EXCEPT ![c] = FALSE]
  /\ conn' = [conn EXCEPT ![c] = "none"]
  /\ channel' = [channel EXCEPT ![c] = FALSE]
  /\ buffer' = [buffer EXCEPT ![c] = <<>>]
  /\ current' = [current EXCEPT ![c] = NoMessage]
  /\ last' = [last EXCEPT ![c] = NoMessage]
  /\ UNCHANGED <<broker, received, runs>>

(* The process starts, and Run's goroutine before anything else of it. *)
Boot(c) ==
  /\ at[c] = "off"
  /\ Goto(c, "loop")
  /\ UNCHANGED <<broker, tracing, link, current, last, received, runs, failures>>

(* command_server, in Datadog mode: the tracer starts, with the services
   running already. *)
StartTracer(c) ==
  /\ c \in Datadog
  /\ at[c] # "off" /\ ~tracing[c]
  /\ tracing' = [tracing EXCEPT ![c] = TRUE]
  /\ UNCHANGED <<broker, at, link, current, last, received, runs, failures>>

-----------------------------------------------------------------------------
(* The service *)

(* Faulty variant: a connection that is closed is not forgotten.           *)
DialOnce(c) ==
  /\ at[c] = "loop" /\ conn[c] = "none"
  /\ conn' = [conn EXCEPT ![c] = "open"]
  /\ UNCHANGED <<broker, at, tracing, channel, buffer, current, last, received, runs, failures>>

(* getChannel: a connection that is closed is forgotten and dialled anew. *)
Dial(c) ==
  /\ at[c] = "loop" /\ conn[c] # "open"
  /\ conn' = [conn EXCEPT ![c] = "open"]
  /\ UNCHANGED <<broker, at, tracing, channel, buffer, current, last, received, runs, failures>>

(* The dial fails; run returns the error and Run calls it again. *)
DialFails(c) ==
  /\ at[c] = "loop" /\ conn[c] # "open"
  /\ Fail
  /\ conn' = [conn EXCEPT ![c] = "none"]
  /\ UNCHANGED <<broker, at, tracing, channel, buffer, current, last, received, runs>>

(* A new channel on the connection, the queue's declaration and Consume *)
Subscribe(c) ==
  /\ at[c] = "loop" /\ conn[c] = "open"
  /\ channel' = [channel EXCEPT ![c] = TRUE]
  /\ Goto(c, "consuming")
  /\ UNCHANGED <<broker, tracing, conn, buffer, current, last, received, runs, failures>>

(* The channel, the declaration or Consume fails: the channel is gone, the
   connection may be; run is called again. *)
SubscribeFails(c) ==
  /\ at[c] = "loop" /\ conn[c] = "open"
  /\ Fail
  /\ conn' \in {conn, [conn EXCEPT ![c] = "closed"]}
  /\ UNCHANGED <<broker, at, tracing, channel, buffer, current, last, received, runs>>

(* Faulty variant: newest first.                                           *)
TakeNewest(c) ==
  /\ at[c] = "consuming"
  /\ buffer[c] # <<>>
  /\ current' = [current EXCEPT ![c] = Last(buffer[c])]
  /\ last' = [last EXCEPT ![c] = Last(buffer[c])]
  /\ buffer' = [buffer EXCEPT ![c] = Front(@)]
  /\ Goto(c, "handling")
  /\ UNCHANGED <<broker, tracing, conn, channel, received, runs, failures>>

(* The range over the deliveries *)
Take(c) ==
  /\ at[c] = "consuming"
  /\ buffer[c] # <<>>
  /\ current' = [current EXCEPT ![c] = Head(buffer[c])]
  /\ last' = [last EXCEPT ![c] = Head(buffer[c])]
  /\ buffer' = [buffer EXCEPT ![c] = Tail(@)]
  /\ Goto(c, "handling")
  /\ UNCHANGED <<broker, tracing, conn, channel, received, runs, failures>>

(* Faulty variant: run returns a script's error, and leaves its deliveries. *)
HandleReturning(c) ==
  /\ at[c] = "handling"
  /\ ~tracing[c]
  /\ runs' = [runs EXCEPT ![current[c]] = @ + 1]
  /\ current' = [current EXCEPT ![c] = NoMessage]
  /\ channel' = [channel EXCEPT ![c] = FALSE]
  /\ buffer' = [buffer EXCEPT ![c] = <<>>]
  /\ Goto(c, "loop")
  /\ UNCHANGED <<broker, tracing, conn, last, received, failures>>

(* The script ends, with or without an error, which is logged only. *)
Handle(c) ==
  /\ at[c] = "handling"
  /\ ~tracing[c]
  /\ runs' = [runs EXCEPT ![current[c]] = @ + 1]
  /\ current' = [current EXCEPT ![c] = NoMessage]
  /\ Goto(c, "consuming")
  /\ UNCHANGED <<broker, tracing, link, last, received, failures>>

(* In Datadog mode the span's context is injected into the service's context,
   which is no carrier of the tracer: once the tracer has started, that fails
   for every message.  No script is run, and the message is acknowledged once
   more, which the broker answers by closing the channel.  Nothing else
   refuses a message: its configuration is made of two strings. *)
HandleRefused(c) ==
  /\ at[c] = "handling"
  /\ tracing[c]
  /\ channel' = [channel EXCEPT ![c] = FALSE]
  /\ current' = [current EXCEPT ![c] = NoMessage]
  /\ Goto(c, "consuming")
  /\ UNCHANGED <<broker, tracing, conn, buffer, last, received, runs, failures>>

(* The deliveries are closed once nothing of the channel is left. *)
ReturnFromRun(c) ==
  /\ at[c] = "consuming"
  /\ ~channel[c] /\ buffer[c] = <<>>
  /\ Goto(c, "loop")
  /\ UNCHANGED <<broker, tracing, link, current, last, received, runs, failures>>

-----------------------------------------------------------------------------

Service(c) ==
  Dial(c) \/ Subscribe(c) \/ Take(c) \/ Handle(c) \/ HandleRefused(c) \/ ReturnFromRun(c)

Disturb(c) == Disconnect(c) \/ Exit(c) \/ DialFails(c) \/ SubscribeFails(c)

RabbitNext ==
  \/ Publish \/ BrokerRestarts
  \/ \E c \in Consumers : \/ Deliver(c) \/ DropBuffer(c) \/ Boot(c) \/ StartTracer(c)
                          \/ Service(c) \/ Disturb(c)

RabbitSpec == RabbitInit /\ [][RabbitNext]_rabbitVars

(* Run never gives up, the broker delivers what it has to somebody, and an
   exited server is started again. *)
RabbitFairSpec ==
  /\ RabbitSpec
  /\ WF_rabbitVars(\E c \in Consumers : Deliver(c))
  /\ \A c \in Consumers : WF_rabbitVars(Service(c)) /\ WF_rabbitVars(Boot(c))

-----------------------------------------------------------------------------

(* The types of the variables. *)
RabbitTypeOK ==
  /\ published \in 0..MaxMessages
  /\ queue \in Seq(1..published)
  /\ at \in [Consumers -> {"off", "loop", "consuming", "handling"}]
  /\ tracing \in [Consumers -> BOOLEAN]
  /\ \A c \in Consumers : tracing[c] => c \in Datadog
  /\ conn \in [Consumers -> {"none", "open", "closed"}]
  /\ channel \in [Consumers -> BOOLEAN]
  /\ buffer \in [Consumers -> Seq(1..published)]
  /\ current \in [Consumers -> 0..published]
  /\ \A c \in Consumers : (current[c] # NoMessage) <=> (at[c] = "handling")
  /\ last \in [Consumers -> 0..published]
  /\ received \in [Consumers -> SUBSET (1..published)]
  /\ runs \in [Messages -> Nat]
  /\ failures \in 0..MaxFailures

AtMostOnceDelivery ==
  INSTANCE AtMostOnce WITH
    sent <- 1..published,
    gone <- (1..published) \ ToSet(queue)

(* However often consumers reconnect or restart, no script is run twice for
   a message, and none for a message the broker could still deliver. *)
ImplementsAtMostOnce == AtMostOnceDelivery!Spec

(* A script's error loses nothing: as long as no broker, connection, channel
   or process fails, a message that left the queue is with a consumer or was
   handled, unless it was given to a server in Datadog mode whose tracer has
   started; such a server loses every message it is still to handle. *)
LossNeedsFailure ==
  failures = 0 =>
    \A m \in (1..published) \ ToSet(queue) :
      \/ m \in Handled
      \/ \E c \in Consumers : m \in InHand(c)
      \/ \E c \in Datadog : m \in received[c] /\ tracing[c]

(* A consumer takes messages in the order in which they were published,
   also across its reconnections: what it missed in between stays behind. *)
TakenInOrder ==
  [][\A c \in Consumers : last'[c] # NoMessage => last'[c] >= last[c]]_rabbitVars

(* Every message leaves the queue in the end: no failure stops all
   consumers for good. *)
QueueIsConsumed == \A m \in Messages : m \in ToSet(queue) ~> m \notin ToSet(queue)
=============================================================================
