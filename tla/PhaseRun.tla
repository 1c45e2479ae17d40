------------------------------ MODULE PhaseRun ------------------------------
(***************************************************************************)
(* executePhase and runWorker (cmd/chaosmania/client.go): one execution of *)
(* a phase.  The setup request, then the worker groups one after another,  *)
(* each with a goroutine per worker and one that reports statistics, all   *)
(* under the group's context and the phase's, then the report and the      *)
(* teardown request.                                                       *)
(*                                                                         *)
(* Time is the integer now, in minutes since the phase's context was       *)
(* created.  A context is done from its deadline on; that somebody notices *)
(* is a later step, in any order with the steps of the others.             *)
(***************************************************************************)
EXTENDS Integers, Sequences, FiniteSetsExt

CONSTANTS
  Phases,       \* the phases considered
  MaxRequests,  \* bound on the requests a worker sends
  Codes,        \* the status codes of the responses considered
  Word          \* stands for 2^64, the range of the uint64 counters

(* A phase: whether the plan has a setup and a teardown section, whether the
   workload can be marshalled and the request be built, its context's time
   limit as computed by GetPhaseDuration, and its worker groups *)
PhaseType ==
  [setup : BOOLEAN, teardown : BOOLEAN, encodable : BOOLEAN, hostValid : BOOLEAN,
   limit : Nat, workers : Seq([instances : Nat, duration : Nat])]

ASSUME PhaseAssumption ==
  /\ Phases \subseteq PhaseType
  /\ MaxRequests \in Nat
  /\ Codes \subseteq 200..599 /\ Codes # {}
  /\ Word \in Nat \ {0}

Zero == [c \in Codes |-> 0]

VARIABLES
  phase,      \* the phase under execution
  now,        \* minutes since the phase's context was created
  pc,         \* where executePhase is
  result,     \* what it returns
  group,      \* the worker group it started last, 0 before the first
  deadline,   \* when the context of each started group is done
  reporters,  \* the groups whose statistics goroutine runs
  at,         \* where each worker is
  code,       \* the status of the response a worker is counting
  sent,       \* the requests each worker has sent
  local,      \* each worker's statusCodes
  errors,     \* stats.counters.Errors
  requests,   \* stats.counters.Requests
  merged,     \* stats.allStatusCodes
  report      \* what LogPhaseEnd is given

control == <<phase, pc, result, group, deadline>>
workers == <<at, code, sent, local>>
counters == <<errors, requests, merged>>
vars == <<phase, now, pc, result, group, deadline, reporters, at, code, sent,
          local, errors, requests, merged, report>>

Groups == 1..Len(phase.workers)
Workers == UNION {{<<g, j>> : j \in 1..phase.workers[g].instances} : g \in Groups}

NoReport == [requests |-> 0, errors |-> 0, successful |-> 0]

Init ==
  /\ phase \in Phases
  /\ now = 0
  /\ pc = "start"
  /\ result = "none"
  /\ group = 0
  /\ deadline = [g \in Groups |-> 0]
  /\ reporters = {}
  /\ at = [w \in Workers |-> "off"]
  /\ code = [w \in Workers |-> CHOOSE c \in Codes : TRUE]
  /\ sent = [w \in Workers |-> 0]
  /\ local = [w \in Workers |-> Zero]
  /\ errors = 0
  /\ requests = 0
  /\ merged = Zero
  /\ report = NoReport

PhaseDone == now >= phase.limit

(* Faulty variant: the group's context has no timeout of its own and is not
   derived from the phase's.                                               *)
GroupNeverDone(g) == FALSE

GroupDone(g) == now >= deadline[g]

(* Time passes until nothing waits for it any more. *)
Tick ==
  /\ pc # "done"
  /\ now < phase.limit
  /\ now' = now + 1
  /\ UNCHANGED <<control, reporters, workers, counters, report>>

-----------------------------------------------------------------------------
(* executePhase *)

(* ctx.Err() *)
ContextError == IF PhaseDone THEN "DeadlineExceeded" ELSE "nil"

Return(how) == pc' = "done" /\ result' = how

(* sendRequest has no timeout and is not given the context. *)
SendSetup ==
  /\ pc = "start"
  /\ phase.setup
  /\ pc' = "setup"
  /\ UNCHANGED <<phase, now, result, group, deadline, reporters, workers,
                 counters, report>>

SkipSetup ==
  /\ pc = "start"
  /\ ~phase.setup
  /\ pc' = "groups"
  /\ UNCHANGED <<phase, now, result, group, deadline, reporters, workers,
                 counters, report>>

(* Any status will do: a 400 is logged, the others are not looked at. *)
SetupAnswered ==
  /\ pc = "setup"
  /\ phase.hostValid
  /\ pc' = "groups"
  /\ UNCHANGED <<phase, now, result, group, deadline, reporters, workers,
                 counters, report>>

(* The request or the reading of a 400's body failed: no worker, no
   teardown. *)
SetupFails ==
  /\ pc = "setup"
  /\ Return("error")
  /\ UNCHANGED <<phase, now, group, deadline, reporters, workers, counters, report>>

MarshalFails ==
  /\ pc = "groups"
  /\ group < Len(phase.workers)
  /\ ~phase.encodable
  /\ Return("error")
  /\ UNCHANGED <<phase, now, group, deadline, reporters, workers, counters, report>>

StartGroup ==
  LET g == group + 1
  IN  /\ pc = "groups"
      /\ group < Len(phase.workers)
      /\ phase.encodable
      /\ pc' = "wait"
      /\ group' = g
      /\ deadline' = [deadline EXCEPT ![g] =
                        Min({phase.limit, now + phase.workers[g].duration})]
      /\ reporters' = reporters \cup {g}
      /\ at' = [w \in Workers |-> IF w[1] = g THEN "loop" ELSE at[w]]
      /\ UNCHANGED <<phase, now, result, code, sent, local, counters, report>>

(* Faulty variant: the wait ends when the group's context is done.         *)
WorkersFinishedByContext(g) == GroupDone(g)

(* wg.Wait() *)
WorkersFinished(g) == \A w \in Workers : w[1] = g => at[w] = "done"

(* Faulty variant: the loop over the groups asks the group's own context.  *)
GroupEndsByOwnContext ==
  /\ pc = "wait"
  /\ WorkersFinished(group)
  /\ pc' = IF GroupDone(group) THEN "drain" ELSE "groups"
  /\ UNCHANGED <<phase, now, result, group, deadline, reporters, workers,
                 counters, report>>

(* The loop over the groups is left when the phase's context is done. *)
GroupEnds ==
  /\ pc = "wait"
  /\ WorkersFinished(group)
  /\ pc' = IF PhaseDone THEN "drain" ELSE "groups"
  /\ UNCHANGED <<phase, now, result, group, deadline, reporters, workers,
                 counters, report>>

LastGroupEnded ==
  /\ pc = "groups"
  /\ group = Len(phase.workers)
  /\ pc' = "drain"
  /\ UNCHANGED <<phase, now, result, group, deadline, reporters, workers,
                 counters, report>>

(* Faulty variant: the statistics goroutines are not waited for.           *)
ReportEarly ==
  /\ pc = "drain"
  /\ \A g \in 1..group : WorkersFinished(g)
  /\ report' = [requests |-> requests, errors |-> errors,
                successful |-> (requests - errors) % Word]
  /\ IF phase.teardown
     THEN pc' = "teardown" /\ UNCHANGED result
     ELSE Return(ContextError)
  /\ UNCHANGED <<phase, now, group, deadline, reporters, workers, counters>>

(* Faulty variant: no teardown once the context is done.                   *)
ReportSkipsTeardown ==
  /\ pc = "drain"
  /\ \A g \in 1..group : WorkersFinished(g)
  /\ reporters = {}
  /\ report' = [requests |-> requests, errors |-> errors,
                successful |-> (requests - errors) % Word]
  /\ IF phase.teardown /\ ~PhaseDone
     THEN pc' = "teardown" /\ UNCHANGED result
     ELSE Return(ContextError)
  /\ UNCHANGED <<phase, now, group, deadline, reporters, workers, counters>>

(* allWorkersWg.Wait(), then the statistics of the phase; successfulRequests
   is a subtraction of unsigned integers *)
Report ==
  /\ pc = "drain"
  /\ \A g \in 1..group : WorkersFinished(g)
  /\ reporters = {}
  /\ report' = [requests |-> requests, errors |-> errors,
                successful |-> (requests - errors) % Word]
  /\ IF phase.teardown
     THEN pc' = "teardown" /\ UNCHANGED result
     ELSE Return(ContextError)
  /\ UNCHANGED <<phase, now, group, deadline, reporters, workers, counters>>

(* The teardown request is answered or fails, which is logged only. *)
TeardownEnds ==
  /\ pc = "teardown"
  /\ Return(ContextError)
  /\ UNCHANGED <<phase, now, group, deadline, reporters, workers, counters, report>>

(* The statistics goroutine of a group only reads, until its context ends. *)
ReporterEnds(g) ==
  /\ g \in reporters
  /\ GroupDone(g)
  /\ reporters' = reporters \ {g}
  /\ UNCHANGED <<control, now, workers, counters, report>>

-----------------------------------------------------------------------------
(* runWorker *)

Goto(w, where) == at' = [at EXCEPT ![w] = where]

(* ctx.Done() is ready *)
StopLoop(w) ==
  /\ at[w] = "loop"
  /\ GroupDone(w[1])
  /\ Goto(w, "merge")
  /\ UNCHANGED <<control, now, reporters, code, sent, local, counters, report>>

(* time.After(delay) is ready; if both are, select may take either *)
Send(w) ==
  /\ at[w] = "loop"
  /\ phase.hostValid
  /\ sent[w] < MaxRequests
  /\ sent' = [sent EXCEPT ![w] = @ + 1]
  /\ Goto(w, "inflight")
  /\ UNCHANGED <<control, now, reporters, code, local, counters, report>>

(* http.NewRequestWithContext fails: return, without the merge *)
RequestInvalid(w) ==
  /\ at[w] = "loop"
  /\ ~phase.hostValid
  /\ Goto(w, "done")
  /\ UNCHANGED <<control, now, reporters, code, sent, local, counters, report>>

(* Faulty variant: a request that fails because the context ended makes the
   worker return instead of leaving the loop.                              *)
RequestFailsReturning(w) ==
  /\ at[w] = "inflight"
  /\ Goto(w, IF GroupDone(w[1]) THEN "done" ELSE "failed")
  /\ UNCHANGED <<control, now, reporters, code, sent, local, counters, report>>

(* The request fails without a response: its own timeout, the server, or
   the context, in which case it is not counted at all *)
RequestFails(w) ==
  /\ at[w] = "inflight"
  /\ Goto(w, IF GroupDone(w[1]) THEN "merge" ELSE "failed")
  /\ UNCHANGED <<control, now, reporters, code, sent, local, counters, report>>

(* Faulty variant: a status over 400 is counted as a failed request.       *)
RespondRefusedFails(w, c) ==
  /\ at[w] = "inflight"
  /\ code' = [code EXCEPT ![w] = c]
  /\ Goto(w, IF c > 400 THEN "failed" ELSE "counting")
  /\ UNCHANGED <<control, now, reporters, sent, local, counters, report>>

(* The response's status decides how it is counted. *)
Respond(w, c) ==
  /\ at[w] = "inflight"
  /\ code' = [code EXCEPT ![w] = c]
  /\ Goto(w, IF c > 400 THEN "refused" ELSE "counting")
  /\ UNCHANGED <<control, now, reporters, sent, local, counters, report>>

(* A 400 whose body cannot be read is not counted at all. *)
LoseBody(w) ==
  /\ at[w] = "inflight"
  /\ 400 \in Codes
  /\ Goto(w, "loop")
  /\ UNCHANGED <<control, now, reporters, code, sent, local, counters, report>>

(* The atomic addition to Errors; a failed request is not a request, a
   refused one is both *)
AddError(w) ==
  /\ at[w] \in {"failed", "refused"}
  /\ errors' = errors + 1
  /\ Goto(w, IF at[w] = "failed" THEN "loop" ELSE "counting")
  /\ UNCHANGED <<control, now, reporters, code, sent, local, requests, merged, report>>

(* The atomic addition to Requests, and the worker's own statusCodes *)
AddRequest(w) ==
  /\ at[w] = "counting"
  /\ requests' = requests + 1
  /\ local' = [local EXCEPT ![w][code[w]] = @ + 1]
  /\ Goto(w, "loop")
  /\ UNCHANGED <<control, now, reporters, code, sent, errors, merged, report>>

(* Under stats.mu *)
Merge(w) ==
  /\ at[w] = "merge"
  /\ merged' = [c \in Codes |-> merged[c] + local[w][c]]
  /\ local' = [local EXCEPT ![w] = Zero]
  /\ Goto(w, "done")
  /\ UNCHANGED <<control, now, reporters, code, sent, errors, requests, report>>

-----------------------------------------------------------------------------

Drive == SendSetup \/ SkipSetup \/ MarshalFails \/ StartGroup \/ GroupEnds
         \/ LastGroupEnded \/ Report

(* What the server's answer to setup or teardown decides *)
ServerDecides == SetupAnswered \/ SetupFails \/ TeardownEnds

WorkerStep(w) ==
  \/ StopLoop(w) \/ Send(w) \/ RequestInvalid(w) \/ RequestFails(w)
  \/ \E c \in Codes : Respond(w, c)
  \/ LoseBody(w) \/ AddError(w) \/ AddRequest(w) \/ Merge(w)

Returned == pc = "done" /\ UNCHANGED vars

Next ==
  \/ Tick \/ Drive \/ ServerDecides \/ Returned
  \/ \E g \in Groups : ReporterEnds(g)
  \/ \E w \in Workers : WorkerStep(w)

Spec == Init /\ [][Next]_vars

(* Time passes and goroutines are scheduled; a worker's request ends at its
   own timeout at the latest.  Nothing makes the server answer setup and
   teardown. *)
FairSpec ==
  /\ Spec
  /\ WF_vars(Tick) /\ WF_vars(Drive)
  /\ WF_vars(\E g \in Groups : ReporterEnds(g))
  /\ WF_vars(\E w \in Workers : WorkerStep(w))

(* As above for a server that answers setup and teardown *)
AnsweringSpec == FairSpec /\ WF_vars(ServerDecides)

-----------------------------------------------------------------------------

(* The types of the variables. *)
TypeOK ==
  /\ phase \in Phases
  /\ now \in 0..phase.limit
  /\ pc \in {"start", "setup", "groups", "wait", "drain", "teardown", "done"}
  /\ result \in {"none", "nil", "DeadlineExceeded", "error"}
  /\ (result = "none") <=> (pc # "done")
  /\ group \in 0..Len(phase.workers)
  /\ deadline \in [Groups -> 0..phase.limit]
  /\ reporters \subseteq 1..group
  /\ at \in [Workers -> {"off", "loop", "inflight", "failed", "refused",
                         "counting", "merge", "done"}]
  /\ code \in [Workers -> Codes]
  /\ sent \in [Workers -> 0..MaxRequests]
  /\ local \in [Workers -> [Codes -> Nat]]
  /\ errors \in Nat /\ requests \in Nat
  /\ merged \in [Codes -> Nat]
  /\ report \in [requests : Nat, errors : Nat, successful : 0..(Word - 1)]

Active(w) == at[w] \notin {"off", "done"}

(* The groups run one after another: while a group runs no worker of
   another one is active, however late it notices the end of its context.  *)
GroupsInSequence == \A w \in Workers : Active(w) => w[1] = group

(* From the report on nothing moves any more: no worker and no statistics
   goroutine of any group is left, so the report is final and the teardown
   overlaps no request of the phase that the client still waits for.       *)
QuietAfterReport ==
  pc \in {"teardown", "done"} =>
    reporters = {} /\ \A w \in Workers : ~Active(w)

(* The report is complete: the requests it shows are the ones of its status
   codes, and the responses over 400 are among its errors.                 *)
ReportComplete ==
  (pc = "teardown" \/ (pc = "done" /\ result # "error")) =>
    /\ report.requests = SumFunctionOnSet(merged, Codes)
    /\ report.errors >= SumFunctionOnSet(merged, {c \in Codes : c > 400})

(* A phase that fails has done nothing but its setup: no group was started,
   no request was sent and nothing was reported, so there is no work that
   the teardown it leaves out would have to follow. *)
FailureLeavesNothing ==
  result = "error" =>
    /\ group = 0 /\ reporters = {} /\ report = NoReport
    /\ \A w \in Workers : at[w] = "off" /\ sent[w] = 0

(* The group has workers, and they can send requests. *)
Works(g) == phase.hostValid /\ phase.workers[g].instances > 0

(* A phase that ends without an error was not cut short: every worker of
   every group has finished, and the groups had their whole durations, one
   after another, before the phase's own deadline. *)
NilMeansFullTime ==
  result = "nil" =>
    /\ group = Len(phase.workers)
    /\ \A w \in Workers : at[w] = "done"
    /\ \A g \in Groups : /\ phase.workers[g].duration <= deadline[g]
                          /\ deadline[g] <= now /\ now < phase.limit
    /\ \A g, h \in Groups : g < h /\ Works(g) =>
         deadline[g] + phase.workers[h].duration <= deadline[h]

(* What executePhase returns tells the client's loop what became of the
   phase: an error that it has not begun, nil that it was complete. *)
ResultTells == FailureLeavesNothing /\ NilMeansFullTime

(* If any worker group was started, the teardown request is sent: a phase
   that ran never skips it, even though its context is done by then.       *)
TeardownFollowsWork ==
  (group > 0 /\ phase.teardown /\ pc # "done") ~> (pc = "teardown")

(* The phase ends, whatever its groups and its answers. *)
PhaseEnds == <>(pc = "done")

(* reporter.go: the report shows the "average request duration", which is
   over the successful requests: there are at most as many as requests.    *)
SuccessesAreRequests == report.successful <= report.requests
=============================================================================
