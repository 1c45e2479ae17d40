---------------------------- MODULE LoadedServer ----------------------------
(***************************************************************************)
(* One execution of a phase by the client (PhaseRun) against one server    *)
(* (WorkloadServer): the requests that the client sends are the ones that  *)
(* the server handles, the responses it counts are the ones that the       *)
(* server gave, and a request whose client gave up goes on in the server,  *)
(* where only the cancellation of its context tells.                       *)
(*                                                                         *)
(* A requester is a worker <<g, j>> of the phase, or <<0, 1>> for the      *)
(* setup section and <<0, 2>> for the teardown section.                    *)
(***************************************************************************)
EXTENDS Integers, Sequences, FiniteSetsExt

CONSTANTS
  Handlers, Ids, None,   \* as in WorkloadServer
  Phases, MaxRequests,   \* as in PhaseRun
  Setup, Teardown,       \* the workloads of these sections
  Loads                  \* the workloads of the phases' workers

VARIABLES
  \* the client, as in PhaseRun; step is its pc
  phase, now, step, result, group, deadline, reporters, at, code, sent, local,
  errors, requests, merged, report,
  \* the server, as in WorkloadServer
  up, doomed, pc, workload, next, cancelled, status, registry, locks, leaked,
  \* between them
  load,       \* the workload section of the phase
  serves,     \* the requester each handler works for
  abandoned,  \* handlers whose requester has given up
  answer,     \* the response that is on its way to each requester
  ended,      \* history: the workers' requests the server ended, by status
  lost        \* history: the workers' requests that ended without a response

Number == [s \in {"200", "400", "500", "503"} |->
             CASE s = "200" -> 200 [] s = "400" -> 400
               [] s = "500" -> 500 [] s = "503" -> 503]
StatusOf(c) == CHOOSE s \in DOMAIN Number : Number[s] = c
Codes == {200, 400, 500, 503}

C == INSTANCE PhaseRun WITH pc <- step, Word <- 256
S == INSTANCE WorkloadServer WITH
       Background <- {}, Scripts <- {}, Allocations <- {},
       Workloads <- Loads \cup {Setup, Teardown}

ASSUME LoadedAssumption ==
  /\ Phases \subseteq C!PhaseType
  /\ MaxRequests \in Nat
  /\ Loads \cup {Setup, Teardown} \subseteq Seq(S!Actions)
  /\ IsFiniteSet(Handlers)
  /\ None \notin Handlers \cup (Nat \X Nat)

client == <<phase, now, step, result, group, deadline, reporters, at, code, sent,
            local, errors, requests, merged, report>>
server == <<up, doomed, pc, workload, next, cancelled, status, registry, locks, leaked>>
between == <<load, serves, abandoned, answer, ended, lost>>
vars == <<client, server, between>>

SetupSection == <<0, 1>>
TeardownSection == <<0, 2>>
Requesters == C!Workers \cup {SetupSection, TeardownSection}

Init ==
  /\ C!Init
  /\ S!Init
  /\ load \in Loads
  /\ serves = [h \in Handlers |-> None]
  /\ abandoned = {}
  /\ answer = [x \in Requesters |-> "none"]
  /\ ended = [c \in Codes |-> 0]
  /\ lost = 0

(* The requester has sent a request and waits for the response. *)
Waits(x) ==
  CASE x = SetupSection -> step = "setup"
    [] x = TeardownSection -> step = "teardown"
    [] OTHER -> at[x] = "inflight"

Accepted(x) == \E h \in Handlers : serves[h] = x /\ h \notin abandoned

-----------------------------------------------------------------------------
(* Steps of the server *)

WorkloadFor(x) ==
  CASE x = SetupSection -> Setup
    [] x = TeardownSection -> Teardown
    [] OTHER -> load

Idle == {h \in Handlers : pc[h] = "idle"}

(* The server accepts the connection, starts a goroutine, it does not matter
   which, and reads the request. *)
Accept(x) ==
  LET h == CHOOSE g \in Idle : TRUE
  IN  /\ Waits(x) /\ ~Accepted(x) /\ answer[x] = "none"
      /\ Idle # {}
      /\ S!Receive(h, WorkloadFor(x))
      /\ serves' = [serves EXCEPT ![h] = x]
      /\ UNCHANGED <<client, load, abandoned, answer, ended, lost>>

(* The same goroutine writes a 400 to a body that it cannot decode or that
   Verify turns down, and is done: the client has verified the plan, but its
   own rendering of it. *)
Reject(x) ==
  LET h == CHOOSE g \in Idle : TRUE
  IN  /\ Waits(x) /\ ~Accepted(x) /\ answer[x] = "none"
      /\ Idle # {}
      /\ S!RejectRequest(h, WorkloadFor(x))
      /\ answer' = [answer EXCEPT ![x] = "400"]
      /\ ended' = IF x \in C!Workers THEN [ended EXCEPT ![400] = @ + 1] ELSE ended
      /\ UNCHANGED <<client, load, serves, abandoned, lost>>

(* The handlers that return in this step, or are gone with the process *)
Ending == {h \in Handlers : pc[h] # "idle" /\ pc'[h] = "idle"}

(* net/http sends the response when the handler has returned; it drops the
   connection of a handler that panicked. *)
Answer ==
  /\ answer' = [x \in Requesters |->
                  IF \E h \in Ending \ abandoned : serves[h] = x
                  THEN status'[CHOOSE h \in Ending \ abandoned : serves[h] = x]
                  ELSE answer[x]]
  /\ ended' = [c \in Codes |->
                 ended[c] + Cardinality({h \in Ending : serves[h][1] # 0
                                                        /\ status'[h] = StatusOf(c)})]
  /\ serves' = [h \in Handlers |-> IF h \in Ending THEN None ELSE serves[h]]
  /\ abandoned' = abandoned \ Ending
  /\ UNCHANGED <<client, load, lost>>

Compute(h) == S!Compute(h) /\ Answer
EndCall(h) == S!EndCall(h) /\ Answer
EnterRegistry(h, id) == S!EnterRegistry(h, id) /\ Answer
AcquireLock(h, id) == S!AcquireLock(h, id) /\ Answer

(* net/http notices that the connection is gone. *)
Cancel(h) == h \in abandoned /\ S!Cancel(h) /\ Answer

ServerEnds == (S!Crash \/ S!Signal) /\ Answer
Restart == S!Restart /\ UNCHANGED <<client, between>>

-----------------------------------------------------------------------------
(* Steps of the client *)

Tick == C!Tick /\ UNCHANGED <<server, between>>
Drive == C!Drive /\ UNCHANGED <<server, between>>
ReporterEnds(g) == C!ReporterEnds(g) /\ UNCHANGED <<server, between>>

WorkerMoves(w) ==
  /\ C!StopLoop(w) \/ C!Send(w) \/ C!AddError(w) \/ C!AddRequest(w) \/ C!Merge(w)
  /\ UNCHANGED <<server, between>>

(* The requester takes what came back; whoever still works for it does so
   in vain. *)
Taken(x) ==
  /\ answer' = [answer EXCEPT ![x] = "none"]
  /\ abandoned' = abandoned \cup {h \in Handlers : serves[h] = x}
  /\ UNCHANGED <<server, load, serves, ended>>

Respond(w, c) ==
  /\ answer[w] = StatusOf(c)
  /\ C!Respond(w, c)
  /\ Taken(w)
  /\ UNCHANGED lost

(* The connection breaks after the head of a 400. *)
LoseBody(w) ==
  /\ answer[w] = "400"
  /\ C!LoseBody(w)
  /\ Taken(w)
  /\ lost' = lost + 1

(* The timeout of the request, the end of its context, a broken or refused
   connection: all but the last possible at any moment *)
RequestFails(w) ==
  /\ C!RequestFails(w)
  /\ Taken(w)
  /\ lost' = lost + 1

(* Neither a timeout nor a context ends these two requests. *)
Refused(x) == answer[x] = "aborted" \/ (~up /\ ~Accepted(x) /\ answer[x] = "none")

SetupAnswered ==
  /\ answer[SetupSection] \in DOMAIN Number
  /\ C!SetupAnswered
  /\ Taken(SetupSection)
  /\ UNCHANGED lost

(* Of a 400 the body may be lost. *)
SetupFails ==
  /\ Refused(SetupSection) \/ answer[SetupSection] = "400"
  /\ C!SetupFails
  /\ Taken(SetupSection)
  /\ UNCHANGED lost

TeardownEnds ==
  /\ answer[TeardownSection] \in DOMAIN Number \/ Refused(TeardownSection)
  /\ C!TeardownEnds
  /\ Taken(TeardownSection)
  /\ UNCHANGED lost

-----------------------------------------------------------------------------

WorkerStep(w) ==
  WorkerMoves(w) \/ RequestFails(w) \/ LoseBody(w) \/ \E c \in Codes : Respond(w, c)

SectionStep == SetupAnswered \/ SetupFails \/ TeardownEnds

HandlerStep(h) ==
  \/ Compute(h) \/ EndCall(h) \/ Cancel(h)
  \/ \E id \in Ids : EnterRegistry(h, id) \/ AcquireLock(h, id)

Returned == step = "done" /\ UNCHANGED vars

Next ==
  \/ Tick \/ Drive \/ SectionStep \/ Returned
  \/ \E g \in C!Groups : ReporterEnds(g)
  \/ \E w \in C!Workers : WorkerStep(w)
  \/ \E x \in Requesters : Accept(x) \/ Reject(x)
  \/ \E h \in Handlers : HandlerStep(h)
  \/ ServerEnds \/ Restart

Spec == Init /\ [][Next]_vars

(* Fairness as in the components, but for the answers to setup and teardown:
   here the server gives them. *)
FairSpec ==
  /\ Spec
  /\ WF_vars(Tick) /\ WF_vars(Drive)
  /\ WF_vars(\E g \in C!Groups : ReporterEnds(g))
  /\ WF_vars(\E w \in C!Workers : WorkerStep(w))
  /\ WF_vars(SectionStep \/ \E x \in {SetupSection, TeardownSection} :
                              Accept(x) \/ Reject(x))
  /\ \A h \in Handlers :
       /\ WF_vars(Compute(h))
       /\ WF_vars(Cancel(h))
       /\ WF_vars(S!Bounded(h) /\ EndCall(h))
       /\ SF_vars(\E id \in Ids : EnterRegistry(h, id))
       /\ SF_vars(\E id \in Ids : AcquireLock(h, id))

-----------------------------------------------------------------------------

(* The types of the variables between client and server; a handler works for
   a requester exactly while it works, and a requester that does not wait has
   given up its handler.                                                   *)
TypeOK ==
  /\ load \in Loads
  /\ serves \in [Handlers -> Requesters \cup {None}]
  /\ \A h \in Handlers : serves[h] = None <=> pc[h] = "idle"
  /\ abandoned \subseteq {h \in Handlers : serves[h] # None}
  /\ \A x \in Requesters : Accepted(x) => Waits(x)
  /\ answer \in [Requesters -> S!Statuses]
  /\ ended \in [Codes -> Nat] /\ lost \in Nat

(* While the server executes the teardown, the only other requests in it are
   those that their workers have given up: what the teardown removes may be
   in use by them, and by nobody else.                                     *)
TeardownMeetsTheAbandoned ==
  \A t, h \in Handlers :
    (serves[t] = TeardownSection /\ pc[h] # "idle" /\ h # t) => h \in abandoned

(* The report is about what the server did: for each status it shows no more
   requests than the server ended with it, and what is missing are requests
   that their workers gave up.                                             *)
ReportMatchesServer ==
  (step = "teardown" \/ (step = "done" /\ result # "error")) =>
    /\ \A c \in Codes : merged[c] <= ended[c]
    /\ SumFunctionOnSet([c \in Codes |-> ended[c] - merged[c]], Codes) <= lost

(* A workload that answers first and then goes on has answered: its client
   counts that status, and no other, whether the rest fails or completes; and
   of one that the server turns down the client counts nothing but a 400,
   whatever its first action would have answered.                          *)
FirstAnswerCounts ==
  \A s \in S!Codes :
    (IF S!Verified(load) THEN load # <<>> /\ load[1] = S!Respond(s) ELSE s = "400") =>
      \A c \in Codes : merged[c] > 0 => s = StatusOf(c)

(* The phase ends, although setup and teardown have no timeout and the
   teardown waits for a lock that requests take whose workers have given up,
   unless setup or teardown is itself stuck for good behind a lock that a
   request has lost, or in a circle of requests that wait for each other.  *)
PhaseEndsUnlessLockLost ==
  <>(step = "done" \/ \E h \in Handlers :
                       serves[h] \in {SetupSection, TeardownSection} /\ S!Stuck(h))
=============================================================================
