--------------------------- MODULE KafkaConsumer ---------------------------
(***************************************************************************)
(* The kafka-consumer background service                                   *)
(* (pkg/actions/kafka_consumer_service.go) of several servers that share a *)
(* consumer group, with what it relies on of the sarama library and of the *)
(* broker.  One partition of the topic: claims of different partitions     *)
(* share nothing.                                                          *)
(*                                                                         *)
(* A message is its offset.  The script that handles it ends, well or with *)
(* an error, which the service logs and otherwise ignores.                 *)
(***************************************************************************)
EXTENDS Integers

CONSTANTS
  Consumers,      \* the servers, one service of the group in each
  Nobody,         \* no server
  MaxMessages,    \* bound on the messages produced
  MaxFailures,    \* bound on crashes, shutdowns and evictions
  MaxRebalances   \* bound on rebalances announced in time

ASSUME KafkaAssumption ==
  /\ Nobody \notin Consumers
  /\ MaxMessages \in Nat /\ MaxFailures \in Nat /\ MaxRebalances \in Nat

VARIABLES
  produced,    \* the end of the partition's log
  committed,   \* the group's committed offset, NoOffset before the first
  owner,       \* the member that holds the partition, as the broker sees it
  pc,          \* where each service is
  cancelled,   \* whether its context is cancelled
  ended,       \* whether its session's context is done
  position,    \* the offset its claim hands out next
  fetched,     \* the end of what its claim has buffered
  marked,      \* the offset it is to commit, NoOffset if nothing is marked
  runs,        \* how often the script has been run for each message
  missed,      \* the messages before the start of a session of a group that
               \* had not committed anything
  failures, rebalances   \* for the bounds

broker == <<produced, committed, owner>>
session == <<ended, position, fetched, marked>>
counts == <<failures, rebalances>>
vars == <<produced, committed, owner, pc, cancelled, ended, position, fetched,
          marked, runs, missed, failures, rebalances>>

NoOffset == -1
Offsets == 0..MaxMessages
Messages == 0..(MaxMessages - 1)

Init ==
  /\ produced = 0 /\ committed = NoOffset /\ owner = Nobody
  /\ pc = [c \in Consumers |-> "off"]
  /\ cancelled = [c \in Consumers |-> FALSE]
  /\ ended = [c \in Consumers |-> FALSE]
  /\ position = [c \in Consumers |-> 0]
  /\ fetched = [c \in Consumers |-> 0]
  /\ marked = [c \in Consumers |-> NoOffset]
  /\ runs = [m \in Messages |-> 0]
  /\ missed = {}
  /\ failures = 0 /\ rebalances = 0

Handled == {m \in Messages : runs[m] > 0}

InSession(c) == pc[c] \in {"claim", "handling", "release"}

Goto(c, where) == pc' = [pc EXCEPT ![c] = where]

-----------------------------------------------------------------------------
(* The broker, the library and the servers' processes *)

Produce ==
  /\ produced < MaxMessages
  /\ produced' = produced + 1
  /\ UNCHANGED <<committed, owner, pc, cancelled, session, runs, missed, counts>>

(* The consumer group is created, or no broker can be reached and Run
   returns the error: the service is not started again in this process. *)
Start(c) ==
  /\ pc[c] = "new"
  /\ Goto(c, "loop") \/ Goto(c, "failed")
  /\ UNCHANGED <<broker, cancelled, session, runs, missed, counts>>

(* client.Consume: the group's next generation gives the partition to c.  A
   session starts at the committed offset, or at the end of the log if there
   is none (sarama's default, which the service keeps). *)
Join(c) ==
  /\ pc[c] = "loop" /\ ~cancelled[c]
  /\ owner = Nobody
  /\ owner' = c
  /\ LET start == IF committed = NoOffset THEN produced ELSE committed
     IN  /\ position' = [position EXCEPT ![c] = start]
         /\ fetched' = [fetched EXCEPT ![c] = start]
  /\ missed' = IF committed = NoOffset THEN {m \in Messages : m < produced} ELSE missed
  /\ marked' = [marked EXCEPT ![c] = NoOffset]
  /\ ended' = [ended EXCEPT ![c] = FALSE]
  /\ Goto(c, "claim")
  /\ UNCHANGED <<produced, committed, cancelled, runs, counts>>

(* The claim's buffer is filled ahead of the loop until the session ends. *)
Fetch(c) ==
  /\ InSession(c) /\ ~ended[c]
  /\ fetched[c] < produced
  /\ fetched' = [fetched EXCEPT ![c] = @ + 1]
  /\ UNCHANGED <<broker, pc, cancelled, ended, position, marked, runs, missed, counts>>

(* A heartbeat tells c of a rebalance while it still holds the partition. *)
Rebalance(c) ==
  /\ owner = c /\ InSession(c) /\ ~ended[c]
  /\ rebalances < MaxRebalances
  /\ rebalances' = rebalances + 1
  /\ ended' = [ended EXCEPT ![c] = TRUE]
  /\ UNCHANGED <<broker, pc, cancelled, position, fetched, marked, runs, missed, failures>>

(* The broker gives up on a member whose heartbeats or whose rejoining is
   late; the member does not know yet. *)
Evict(c) ==
  /\ owner = c /\ InSession(c)
  /\ failures < MaxFailures
  /\ failures' = failures + 1
  /\ owner' = Nobody
  /\ UNCHANGED <<produced, committed, pc, cancelled, session, runs, missed, rebalances>>

Expire(c) ==
  /\ owner = c /\ ~InSession(c)
  /\ owner' = Nobody
  /\ UNCHANGED <<produced, committed, pc, cancelled, session, runs, missed, counts>>

(* The next heartbeat of an evicted member fails. *)
LearnEviction(c) ==
  /\ InSession(c) /\ owner # c /\ ~ended[c]
  /\ ended' = [ended EXCEPT ![c] = TRUE]
  /\ UNCHANGED <<broker, pc, cancelled, position, fetched, marked, runs, missed, counts>>

(* A commit is accepted from the member that holds the partition only. *)
Commit(c) ==
  committed' = IF owner = c /\ marked[c] # NoOffset THEN marked[c] ELSE committed

(* Every second, in a goroutine of the library *)
AutoCommit(c) ==
  /\ InSession(c)
  /\ Commit(c)
  /\ UNCHANGED <<produced, owner, pc, cancelled, session, runs, missed, counts>>

(* Faulty variant: Consume is called once, not in a loop.                  *)
ReleaseForGood(c) ==
  /\ pc[c] = "release"
  /\ Commit(c)
  /\ owner' = IF owner = c THEN Nobody ELSE owner
  /\ Goto(c, "stopped")
  /\ UNCHANGED <<produced, cancelled, session, runs, missed, counts>>

(* When the claim's handler has returned, the library closes the session:
   what is marked is committed, Consume returns and Run's loop goes on. *)
Release(c) ==
  /\ pc[c] = "release"
  /\ Commit(c)
  /\ owner' = IF owner = c THEN Nobody ELSE owner
  /\ Goto(c, "loop")
  /\ UNCHANGED <<produced, cancelled, session, runs, missed, counts>>

(* command_server has returned and cancels the context; the process is about
   to exit but the service may still get somewhere. *)
Shutdown(c) ==
  /\ pc[c] # "off" /\ ~cancelled[c]
  /\ failures < MaxFailures
  /\ failures' = failures + 1
  /\ cancelled' = [cancelled EXCEPT ![c] = TRUE]
  /\ ended' = [ended EXCEPT ![c] = InSession(c) \/ @]
  /\ UNCHANGED <<broker, pc, position, fetched, marked, runs, missed, rebalances>>

Exit(c) ==
  /\ pc[c] # "off"
  /\ cancelled[c] \/ failures < MaxFailures
  /\ failures' = IF cancelled[c] THEN failures ELSE failures + 1
  /\ Goto(c, "off")
  /\ UNCHANGED <<broker, cancelled, session, runs, missed, rebalances>>

Boot(c) ==
  /\ pc[c] = "off"
  /\ Goto(c, "new")
  /\ cancelled' = [cancelled EXCEPT ![c] = FALSE]
  /\ ended' = [ended EXCEPT ![c] = FALSE]
  /\ UNCHANGED <<broker, position, fetched, marked, runs, missed, counts>>

-----------------------------------------------------------------------------
(* The service *)

(* Run's loop ends when the context is cancelled. *)
Stop(c) ==
  /\ pc[c] = "loop" /\ cancelled[c]
  /\ Goto(c, "stopped")
  /\ UNCHANGED <<broker, cancelled, session, runs, missed, counts>>

(* Faulty variant: the message is marked when it is taken.                 *)
TakeMarking(c) ==
  /\ pc[c] = "claim"
  /\ position[c] < fetched[c]
  /\ Goto(c, "handling")
  /\ marked' = [marked EXCEPT ![c] = position[c] + 1]
  /\ UNCHANGED <<broker, cancelled, ended, position, fetched, runs, missed, counts>>

(* ConsumeClaim's select takes a message.  If the session's context is done
   as well it may still do so. *)
Take(c) ==
  /\ pc[c] = "claim"
  /\ position[c] < fetched[c]
  /\ Goto(c, "handling")
  /\ UNCHANGED <<broker, cancelled, session, runs, missed, counts>>

(* Faulty variant: only a message whose script succeeded is marked.        *)
HandleMarkingSuccesses(c) ==
  /\ pc[c] = "handling"
  /\ runs' = [runs EXCEPT ![position[c]] = @ + 1]
  /\ marked' \in {marked, [marked EXCEPT ![c] = position[c] + 1]}
  /\ position' = [position EXCEPT ![c] = @ + 1]
  /\ Goto(c, "claim")
  /\ UNCHANGED <<broker, cancelled, ended, fetched, missed, counts>>

(* The script ends, with or without an error, and the message is marked. *)
Handle(c) ==
  /\ pc[c] = "handling"
  /\ runs' = [runs EXCEPT ![position[c]] = @ + 1]
  /\ marked' = [marked EXCEPT ![c] = position[c] + 1]
  /\ position' = [position EXCEPT ![c] = @ + 1]
  /\ Goto(c, "claim")
  /\ UNCHANGED <<broker, cancelled, ended, fetched, missed, counts>>

(* Faulty variant: leaves the select, not the loop.                        *)
BreakClaim(c) ==
  /\ pc[c] = "claim"
  /\ ended[c]
  /\ UNCHANGED vars

(* The session's context is done, or the claim's channel is closed, which
   the library does once it is *)
ReturnFromClaim(c) ==
  /\ pc[c] = "claim"
  /\ ended[c]
  /\ Goto(c, "release")
  /\ UNCHANGED <<broker, cancelled, session, runs, missed, counts>>

-----------------------------------------------------------------------------

Library(c) ==
  Start(c) \/ Fetch(c) \/ LearnEviction(c) \/ Release(c)

Service(c) == Stop(c) \/ Take(c) \/ Handle(c) \/ ReturnFromClaim(c)

Disturb(c) == Rebalance(c) \/ Evict(c) \/ AutoCommit(c) \/ Shutdown(c) \/ Exit(c)

Next ==
  \/ Produce
  \/ \E c \in Consumers : \/ Library(c) \/ Service(c) \/ Disturb(c)
                          \/ Join(c) \/ Expire(c) \/ Boot(c)

Spec == Init /\ [][Next]_vars

(* The library and the loop make progress, a partition without an owner is
   assigned, the broker forgets members that are gone, and a server whose
   process has exited is started again, as its Deployment does. *)
FairSpec ==
  /\ Spec
  /\ WF_vars(\E c \in Consumers : Join(c))
  /\ \A c \in Consumers :
       /\ WF_vars(Start(c)) /\ WF_vars(Fetch(c)) /\ WF_vars(LearnEviction(c))
       /\ WF_vars(Release(c)) /\ WF_vars(Service(c))
       /\ WF_vars(Expire(c)) /\ WF_vars(Boot(c))
       /\ WF_vars(cancelled[c] /\ Exit(c))

-----------------------------------------------------------------------------

(* The types of the variables; a claim hands out only what was fetched,
   which was produced before, and nothing else is marked or committed. *)
TypeOK ==
  /\ produced \in Offsets
  /\ committed \in Offsets \cup {NoOffset}
  /\ owner \in Consumers \cup {Nobody}
  /\ pc \in [Consumers -> {"off", "new", "failed", "loop", "claim", "handling",
                           "release", "stopped"}]
  /\ cancelled \in [Consumers -> BOOLEAN]
  /\ ended \in [Consumers -> BOOLEAN]
  /\ position \in [Consumers -> Offsets]
  /\ fetched \in [Consumers -> Offsets]
  /\ marked \in [Consumers -> Offsets \cup {NoOffset}]
  /\ committed <= produced
  /\ \A c \in Consumers : marked[c] <= produced
  /\ \A c \in Consumers : position[c] <= fetched[c] /\ fetched[c] <= produced
  /\ \A c \in Consumers : pc[c] = "handling" => position[c] < fetched[c]
  /\ runs \in [Messages -> Nat]
  /\ missed \subseteq Messages
  /\ failures \in 0..MaxFailures /\ rebalances \in 0..MaxRebalances

AtLeastOnceDelivery ==
  INSTANCE AtLeastOnce WITH
    sent <- {m \in Messages : m < produced},
    gone <- {m \in Messages : m < committed},
    handled <- Handled

(* Whatever rebalances, evictions and crashes do, the group never commits
   past a message that no service has run the script for, unless the message
   was there before the group had committed anything; and a commit is never
   taken back, not even by a member evicted while it handled a message.    *)
ImplementsAtLeastOnce == AtLeastOnceDelivery!Spec

(* Rebalances alone, however they fall between taking, handling, marking and
   committing a message, make no script run twice: that takes a failure.   *)
OnceWithoutFailure == failures = 0 => \A m \in Messages : runs[m] <= 1

(* A message is handled in the end, if a service is left: one whose broker
   was not reachable when it started is not. *)
MessagesHandled ==
  \A m \in Messages :
    m < produced ~> (\/ m \in Handled \cup missed
                     \/ \A c \in Consumers : pc[c] = "failed")
=============================================================================
