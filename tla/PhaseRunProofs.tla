--------------------------- MODULE PhaseRunProofs ---------------------------
(***************************************************************************)
(* Types, who may be active when, what the report is made from and what    *)
(* the result says, for every phase, every number of groups, workers and   *)
(* requests, every set of status codes, and any passing of time.           *)
(***************************************************************************)
EXTENDS PhaseRun, SumTheorems

(* Groups are started in order, so the workers beyond the current group are
   still off; outside the wait for a group no worker is active. *)
Started ==
  /\ \A w \in Workers : at[w] # "off" => w[1] <= group
  /\ pc \in {"start", "setup"} => group = 0
  /\ pc = "wait" => group > 0
  /\ group > 0 => phase.encodable

Quiet ==
  /\ pc # "wait" => \A w \in Workers : ~Active(w)
  /\ pc \in {"teardown", "done"} => reporters = {}

PhaseInv == TypeOK /\ GroupsInSequence /\ Started /\ Quiet

-----------------------------------------------------------------------------

LEMMA MinOfTwo ==
  ASSUME NEW m \in Int, NEW n \in Int
  PROVE  Min({m, n}) \in {m, n} /\ Min({m, n}) <= m /\ Min({m, n}) <= n
<1>1. \E x \in {m, n} : \A y \in {m, n} : x <= y
  OBVIOUS
<1>2. QED
  BY <1>1 DEF Min

LEMMA MinBound ==
  ASSUME NEW m \in Nat, NEW n \in Nat
  PROVE  Min({m, n}) \in 0..m
<1>1. Min({m, n}) \in {m, n} /\ Min({m, n}) <= m
  BY MinOfTwo
<1>2. QED
  BY <1>1

LEMMA ElementOfSeq ==
  ASSUME NEW S, NEW s \in Seq(S)
  PROVE  Len(s) \in Nat /\ \A i \in 1..Len(s) : s[i] \in S
OBVIOUS

LEMMA SamePhase ==
  ASSUME phase' = phase
  PROVE  Workers' = Workers /\ Groups' = Groups
BY DEF Workers, Groups

LEMMA PhaseIsTyped ==
  ASSUME phase \in Phases
  PROVE  /\ phase \in PhaseType
         /\ Groups = 1..Len(phase.workers) /\ Len(phase.workers) \in Nat
         /\ \A g \in Groups : phase.workers[g].duration \in Nat
         /\ \A w \in Workers : w[1] \in Groups
<1>1. phase \in PhaseType
  BY PhaseAssumption
<1>2. phase.workers \in Seq([instances : Nat, duration : Nat])
  BY <1>1 DEF PhaseType
<1>3. Len(phase.workers) \in Nat /\ Groups = 1..Len(phase.workers)
  BY <1>2, ElementOfSeq DEF Groups
<1>4. \A g \in Groups : phase.workers[g] \in [instances : Nat, duration : Nat]
  BY <1>2, <1>3, ElementOfSeq
<1>5. \A w \in Workers : w[1] \in Groups
  BY DEF Workers
<1>6. QED
  BY <1>1, <1>3, <1>4, <1>5

-----------------------------------------------------------------------------
(* Types *)

LEMMA InitTypeOK == Init => TypeOK
<1> SUFFICES ASSUME Init PROVE TypeOK
  OBVIOUS
<1>1. phase \in Phases
  BY DEF Init
<1>2. phase.limit \in Nat
  BY <1>1, PhaseIsTyped DEF PhaseType
<1>3. (CHOOSE c \in Codes : TRUE) \in Codes
  BY PhaseAssumption
<1>4. NoReport \in [requests : Nat, errors : Nat, successful : 0..(Word - 1)]
  BY PhaseAssumption DEF NoReport
<1>5. Zero \in [Codes -> Nat]
  BY DEF Zero
<1>6. now \in 0..phase.limit /\ deadline \in [Groups -> 0..phase.limit]
  BY <1>2 DEF Init
<1>7. code \in [Workers -> Codes] /\ sent \in [Workers -> 0..MaxRequests]
  BY <1>3, PhaseAssumption DEF Init
<1>8. local \in [Workers -> [Codes -> Nat]]
  BY <1>5 DEF Init
<1>9. group \in 0..Len(phase.workers)
  BY <1>1, PhaseIsTyped DEF Init
<1>10. QED
  BY <1>1, <1>4, <1>5, <1>6, <1>7, <1>8, <1>9 DEF Init, TypeOK

LEMMA NextTypeOK == TypeOK /\ [Next]_vars => TypeOK'
<1> SUFFICES ASSUME TypeOK, [Next]_vars PROVE TypeOK'
  OBVIOUS
<1>1. phase' = phase
  BY DEF Next, Drive, ServerDecides, Returned, Tick, SendSetup, SkipSetup,
     MarshalFails, StartGroup, GroupEnds, LastGroupEnded, Report, SetupAnswered,
     SetupFails, TeardownEnds, ReporterEnds, WorkerStep, StopLoop, Send,
     RequestInvalid, RequestFails, Respond, LoseBody, AddError, AddRequest,
     Merge, control, workers, counters, vars
<1>2. phase.limit \in Nat /\ Groups = 1..Len(phase.workers) /\ Len(phase.workers) \in Nat
  BY PhaseIsTyped DEF TypeOK, PhaseType
<1>0. Workers' = Workers /\ Groups' = Groups
  BY <1>1, SamePhase
<1> USE <1>0, <1>1
<1>3. CASE Tick
  BY <1>2, <1>3 DEF TypeOK, Tick, control, workers, counters
<1>4. CASE SendSetup \/ SkipSetup \/ SetupAnswered \/ GroupEnds \/ LastGroupEnded
  BY <1>4 DEF TypeOK, SendSetup, SkipSetup, SetupAnswered, GroupEnds,
     LastGroupEnded, workers, counters
<1>5. CASE SetupFails \/ MarshalFails \/ TeardownEnds
  BY <1>5 DEF TypeOK, SetupFails, MarshalFails, TeardownEnds, Return,
     ContextError, workers, counters
<1>6. CASE StartGroup
  <2> DEFINE g == group + 1
  <2>1. g \in Groups
    BY <1>2, <1>6 DEF StartGroup, TypeOK
  <2>2. Min({phase.limit, now + phase.workers[g].duration}) \in 0..phase.limit
    <3>1. phase \in Phases /\ now \in Nat
      BY <1>2 DEF TypeOK
    <3>2. phase.workers[g].duration \in Nat
      BY <2>1, <3>1, PhaseIsTyped
    <3>3. now + phase.workers[g].duration \in Nat
      BY <3>1, <3>2
    <3>4. QED
      BY <1>2, <3>3, MinBound
  <2>3. deadline' \in [Groups -> 0..phase.limit]
    BY <1>6, <2>1, <2>2 DEF StartGroup, TypeOK
  <2>4. at' \in [Workers -> {"off", "loop", "inflight", "failed", "refused",
                             "counting", "merge", "done"}]
    BY <1>6 DEF StartGroup, TypeOK
  <2>5. group' \in 0..Len(phase.workers) /\ reporters' \subseteq 1..group'
    BY <1>2, <1>6, <2>1 DEF StartGroup, TypeOK
  <2>6. QED
    BY <1>6, <2>3, <2>4, <2>5 DEF StartGroup, TypeOK, counters
<1>7. CASE Report
  <2>1. (requests - errors) % Word \in 0..(Word - 1)
    BY PhaseAssumption DEF TypeOK
  <2>2. report' \in [requests : Nat, errors : Nat, successful : 0..(Word - 1)]
    BY <1>7, <2>1 DEF Report, TypeOK
  <2>3. QED
    BY <1>7, <2>2 DEF Report, Return, ContextError, TypeOK, workers, counters
<1>8. ASSUME NEW g \in Groups, ReporterEnds(g) PROVE TypeOK'
  BY <1>8 DEF TypeOK, ReporterEnds, control, workers, counters
<1>9. ASSUME NEW w \in Workers, WorkerStep(w) PROVE TypeOK'
  <2>1. CASE StopLoop(w) \/ RequestInvalid(w) \/ RequestFails(w) \/ LoseBody(w)
    <3>1. at' \in [Workers -> {"off", "loop", "inflight", "failed", "refused",
                               "counting", "merge", "done"}]
      BY <2>1 DEF TypeOK, StopLoop, RequestInvalid, RequestFails, LoseBody, Goto
    <3>2. UNCHANGED <<control, now, reporters, code, sent, local, counters, report>>
      BY <2>1 DEF StopLoop, RequestInvalid, RequestFails, LoseBody
    <3>3. QED
      BY <3>1, <3>2 DEF TypeOK, control, counters
  <2>2. CASE Send(w)
    BY <2>2, PhaseAssumption DEF TypeOK, Send, Goto, control, counters
  <2>3. ASSUME NEW c \in Codes, Respond(w, c) PROVE TypeOK'
    <3>1. code' \in [Workers -> Codes]
      BY <2>3 DEF TypeOK, Respond
    <3>2. at' \in [Workers -> {"off", "loop", "inflight", "failed", "refused",
                               "counting", "merge", "done"}]
      BY <2>3 DEF TypeOK, Respond, Goto
    <3>3. UNCHANGED <<control, now, reporters, sent, local, counters, report>>
      BY <2>3 DEF Respond
    <3>4. QED
      BY <3>1, <3>2, <3>3 DEF TypeOK, control, counters
  <2>4. CASE AddError(w)
    BY <2>4 DEF TypeOK, AddError, Goto, control
  <2>5. CASE AddRequest(w)
    <3>1. local' \in [Workers -> [Codes -> Nat]]
      BY <2>5 DEF TypeOK, AddRequest
    <3>2. at' \in [Workers -> {"off", "loop", "inflight", "failed", "refused",
                               "counting", "merge", "done"}]
      BY <2>5 DEF TypeOK, AddRequest, Goto
    <3>3. requests' \in Nat
      BY <2>5 DEF TypeOK, AddRequest
    <3>4. UNCHANGED <<control, now, reporters, code, sent, errors, merged, report>>
      BY <2>5 DEF AddRequest
    <3>5. QED
      BY <3>1, <3>2, <3>3, <3>4 DEF TypeOK, control
  <2>6. CASE Merge(w)
    <3>1. merged \in [Codes -> Nat] /\ local \in [Workers -> [Codes -> Nat]]
      BY DEF TypeOK
    <3>2. merged' \in [Codes -> Nat]
      BY <2>6, <3>1 DEF Merge
    <3>3. local' \in [Workers -> [Codes -> Nat]]
      BY <2>6, <3>1 DEF Merge, Zero
    <3>4. at' \in [Workers -> {"off", "loop", "inflight", "failed", "refused",
                               "counting", "merge", "done"}]
      BY <2>6 DEF TypeOK, Merge, Goto
    <3>5. UNCHANGED <<control, now, reporters, code, sent, errors, requests, report>>
      BY <2>6 DEF Merge
    <3>6. QED
      BY <3>2, <3>3, <3>4, <3>5 DEF TypeOK, control
  <2>7. QED
    BY <1>9, <2>1, <2>2, <2>3, <2>4, <2>5, <2>6 DEF WorkerStep
<1>10. CASE Returned \/ UNCHANGED vars
  BY <1>10 DEF TypeOK, Returned, vars
<1>11. QED
  BY <1>3, <1>4, <1>5, <1>6, <1>7, <1>8, <1>9, <1>10 DEF Next, Drive, ServerDecides

(* The variables of a phase's execution keep their types: whatever the
   requests do, the report's unsigned numbers and every deadline stay in
   their range. *)
THEOREM TypeCorrect == Spec => []TypeOK
<1>1. QED
  BY InitTypeOK, NextTypeOK, PTL DEF Spec

-----------------------------------------------------------------------------
(* Who is active when *)

LEMMA InitInv == Init => PhaseInv
<1> SUFFICES ASSUME Init PROVE PhaseInv
  OBVIOUS
<1>1. TypeOK
  BY InitTypeOK
<1>2. \A w \in Workers : at[w] = "off"
  BY DEF Init
<1>3. pc = "start" /\ group = 0
  BY DEF Init
<1>4. QED
  BY <1>1, <1>2, <1>3 DEF PhaseInv, GroupsInSequence, Started, Quiet, Active

(* A worker becomes active only when its group is started, and the wait for
   the group ends only when none is; the report waits for the statistics. *)
LEMMA NextInv == PhaseInv /\ [Next]_vars => PhaseInv'
<1> SUFFICES ASSUME PhaseInv, [Next]_vars PROVE PhaseInv'
  OBVIOUS
<1>1. TypeOK /\ TypeOK'
  BY NextTypeOK DEF PhaseInv
<1>2. SUFFICES (GroupsInSequence /\ Started /\ Quiet)'
  BY <1>1 DEF PhaseInv
<1>3. phase' = phase /\ Workers' = Workers
  BY SamePhase DEF Next, Drive, ServerDecides, Returned, Tick, SendSetup,
     SkipSetup, MarshalFails, StartGroup, GroupEnds, LastGroupEnded, Report,
     SetupAnswered, SetupFails, TeardownEnds, ReporterEnds, WorkerStep,
     StopLoop, Send, RequestInvalid, RequestFails, Respond, LoseBody, AddError,
     AddRequest, Merge, control, workers, counters, vars
<1>4. group \in Nat /\ group' \in Nat /\ reporters \subseteq 1..group
  <2>1. Len(phase.workers) \in Nat
    BY <1>1, PhaseIsTyped DEF TypeOK
  <2>2. QED
    BY <1>1, <1>3, <2>1 DEF TypeOK
<1>5. \A w \in Workers : w[1] \in Nat
  <2>1. phase \in Phases
    BY <1>1 DEF TypeOK
  <2>2. \A w \in Workers : w[1] \in Groups
    BY <2>1, PhaseIsTyped
  <2>3. Groups = 1..Len(phase.workers) /\ Len(phase.workers) \in Nat
    BY <2>1, PhaseIsTyped
  <2>4. QED
    BY <2>2, <2>3
<1>6. CASE Tick \/ Returned \/ UNCHANGED vars
  <2>1. UNCHANGED <<pc, group, at, reporters, phase>>
    BY <1>6 DEF Tick, Returned, control, workers, vars
  <2>2. \A w \in Workers : Active(w)' <=> Active(w)
    BY <2>1 DEF Active
  <2>3. QED
    BY <1>3, <2>1, <2>2 DEF PhaseInv, GroupsInSequence, Started, Quiet
<1>7. CASE SendSetup \/ SkipSetup \/ SetupAnswered \/ LastGroupEnded
  BY <1>3, <1>7 DEF PhaseInv, GroupsInSequence, Started, Quiet, Active,
     SendSetup, SkipSetup, SetupAnswered, LastGroupEnded, workers, counters
<1>8. CASE SetupFails \/ MarshalFails
  <2>1. group = 0
    BY <1>4, <1>8 DEF PhaseInv, Started, SetupFails, MarshalFails
  <2>2. reporters = {}
    BY <1>4, <2>1
  <2>3. QED
    BY <1>3, <1>8, <2>1, <2>2 DEF PhaseInv, GroupsInSequence, Started, Quiet,
       Active, SetupFails, MarshalFails, Return, workers, counters
<1>9. CASE StartGroup
  <2>1. \A w \in Workers : ~Active(w) /\ w[1] \in Nat
    BY <1>5, <1>9 DEF PhaseInv, Quiet, StartGroup
  <2>2. /\ group' = group + 1 /\ pc' = "wait" /\ phase.encodable
        /\ \A w \in Workers : at'[w] = IF w[1] = group' THEN "loop" ELSE at[w]
    BY <1>9 DEF StartGroup
  <2>3. \A w \in Workers : at[w] # "off" => w[1] <= group
    BY DEF PhaseInv, Started
  <2>4. \A w \in Workers : at'[w] # "off" => w[1] <= group'
    BY <1>4, <1>5, <2>2, <2>3
  <2>5. \A w \in Workers : at'[w] \notin {"off", "done"} => w[1] = group'
    BY <2>1, <2>2 DEF Active
  <2>6. QED
    BY <1>3, <1>4, <2>2, <2>4, <2>5 DEF GroupsInSequence, Started, Quiet, Active
<1>10. CASE GroupEnds
  <2>1. \A w \in Workers : ~Active(w)
    BY <1>10 DEF PhaseInv, GroupsInSequence, GroupEnds, WorkersFinished, Active
  <2>2. QED
    BY <1>3, <1>10, <2>1 DEF PhaseInv, GroupsInSequence, Started, Quiet, Active,
       GroupEnds, workers, counters
<1>11. CASE Report \/ TeardownEnds
  BY <1>3, <1>11 DEF PhaseInv, GroupsInSequence, Started, Quiet, Active, Report,
     TeardownEnds, Return, workers, counters
<1>12. ASSUME NEW g \in Groups, ReporterEnds(g)
       PROVE  (GroupsInSequence /\ Started /\ Quiet)'
  BY <1>3, <1>12 DEF PhaseInv, GroupsInSequence, Started, Quiet, Active,
     ReporterEnds, control, workers, counters
<1>13. ASSUME NEW w \in Workers, WorkerStep(w)
       PROVE  (GroupsInSequence /\ Started /\ Quiet)'
  <2>1. /\ Active(w)
        /\ UNCHANGED control /\ UNCHANGED reporters
        /\ \E p : at' = [at EXCEPT ![w] = p]
    BY <1>13 DEF WorkerStep, Active, Goto, StopLoop, Send, RequestInvalid,
       RequestFails, Respond, LoseBody, AddError, AddRequest, Merge, counters
  <2>2. w[1] = group /\ pc = "wait"
    BY <2>1 DEF PhaseInv, GroupsInSequence, Quiet
  <2>3. \A v \in Workers : v # w => at'[v] = at[v]
    BY <1>1, <2>1 DEF TypeOK
  <2>4. \A v \in Workers : at'[v] \notin {"off", "done"} => v[1] = group
    BY <2>2, <2>3 DEF PhaseInv, GroupsInSequence, Active
  <2>5. \A v \in Workers : at'[v] # "off" => v[1] <= group
    BY <1>4, <2>2, <2>3 DEF PhaseInv, Started
  <2>6. group' = group /\ pc' = pc
    BY <2>1 DEF control
  <2>7. QED
    BY <1>3, <2>2, <2>4, <2>5, <2>6 DEF PhaseInv, GroupsInSequence, Started,
       Quiet, Active
<1>14. QED
  BY <1>6, <1>7, <1>8, <1>9, <1>10, <1>11, <1>12, <1>13
     DEF Next, Drive, ServerDecides

LEMMA InvHolds == Spec => []PhaseInv
<1>1. QED
  BY InitInv, NextInv, PTL DEF Spec

(* The worker groups of a phase never overlap, whatever their durations and
   however late a worker notices that its group's time is over. *)
THEOREM GroupsNeverOverlap == Spec => []GroupsInSequence
<1>1. PhaseInv => GroupsInSequence
  BY DEF PhaseInv
<1>2. QED
  BY <1>1, InvHolds, PTL

(* When the report is made, and from then on, no goroutine of the phase runs
   that could still change what it was made from. *)
THEOREM ReportIsFinal == Spec => []QuietAfterReport
<1>1. PhaseInv => QuietAfterReport
  BY DEF PhaseInv, Quiet, QuietAfterReport
<1>2. QED
  BY <1>1, InvHolds, PTL

-----------------------------------------------------------------------------
(* What is counted *)

Refusals == {c \in Codes : c > 400}

(* What each worker has counted and not merged yet; a refused request is an
   error before the worker has counted it. *)
CountedBy == [w \in Workers |-> SumFunctionOnSet(local[w], Codes)]
Pending(w) == IF at[w] = "counting" /\ code[w] \in Refusals THEN 1 ELSE 0
RefusedBy == [w \in Workers |-> SumFunctionOnSet(local[w], Refusals) + Pending(w)]

(* Every request that is counted is in the merged statistics or in those of
   one worker, and no refused one is missing among the errors; a worker that
   is gone has left nothing behind.  Without a valid host, where a worker
   leaves without the merge, nothing was counted. *)
Accounts ==
  /\ \A w \in Workers : (~Active(w) \/ ~phase.hostValid) => local[w] = Zero
  /\ ~phase.hostValid => \A w \in Workers : at[w] \in {"off", "loop", "merge", "done"}
  /\ requests = SumFunctionOnSet(merged, Codes) + SumFunctionOnSet(CountedBy, Workers)
  /\ errors >= SumFunctionOnSet(merged, Refusals) + SumFunctionOnSet(RefusedBy, Workers)

Reported == pc = "teardown" \/ (pc = "done" /\ result # "error")

ReportIsLast ==
  Reported => report.requests = requests /\ report.errors = errors

CountInv == PhaseInv /\ Accounts /\ ReportIsLast

LEMMA FiniteCodes == IsFiniteSet(Codes) /\ IsFiniteSet(Refusals) /\ Refusals \subseteq Codes
<1>1. 599 \in Nat /\ Codes \subseteq Nat /\ \A c \in Codes : c <= 599
  BY PhaseAssumption
<1>2. IsFiniteSet(Codes)
  BY <1>1, FS_BoundedSetOfNaturals
<1>3. Refusals \in SUBSET Codes
  BY DEF Refusals
<1>4. QED
  BY <1>2, <1>3, FS_Subset

LEMMA FiniteWorkers ==
  ASSUME phase \in Phases
  PROVE  IsFiniteSet(Workers)
<1> DEFINE Of(g) == {<<g, j>> : j \in 1..phase.workers[g].instances}
           sets == [g \in Groups |-> Of(g)]
<1>1. phase.workers \in Seq([instances : Nat, duration : Nat])
  BY PhaseIsTyped DEF PhaseType
<1>2. \A g \in Groups : phase.workers[g].instances \in Nat
  <2>1. \A g \in Groups : phase.workers[g] \in [instances : Nat, duration : Nat]
    BY <1>1, ElementOfSeq DEF Groups
  <2>2. QED
    BY <2>1
<1>3. ASSUME NEW g \in Groups PROVE IsFiniteSet(Of(g))
  <2> DEFINE worker == [j \in 1..phase.workers[g].instances |-> <<g, j>>]
  <2>1. IsFiniteSet(1..phase.workers[g].instances)
    BY <1>2, FS_Interval
  <2>2. Of(g) = {worker[j] : j \in 1..phase.workers[g].instances}
    OBVIOUS
  <2> HIDE DEF worker, Of
  <2>3. QED
    BY <2>1, <2>2, FiniteImage
<1>4. IsFiniteSet(Groups)
  BY PhaseIsTyped, FS_Interval
<1>5. IsFiniteSet({sets[g] : g \in Groups}) /\ \A T \in {sets[g] : g \in Groups} : IsFiniteSet(T)
  BY <1>3, <1>4, FiniteImage
<1>6. Workers = UNION {sets[g] : g \in Groups}
  BY DEF Workers
<1> HIDE DEF sets
<1>7. QED
  BY <1>5, <1>6, FS_UNION

CountsTyped ==
  /\ IsFiniteSet(Workers)
  /\ \A w \in Workers : CountedBy[w] \in Nat /\ RefusedBy[w] \in Nat
  /\ \A w \in Workers : /\ SumFunctionOnSet(local[w], Codes) \in Nat
                         /\ SumFunctionOnSet(local[w], Refusals) \in Nat
  /\ SumFunctionOnSet(CountedBy, Workers) \in Nat
  /\ SumFunctionOnSet(RefusedBy, Workers) \in Nat
  /\ SumFunctionOnSet(merged, Codes) \in Nat
  /\ SumFunctionOnSet(merged, Refusals) \in Nat

LEMMA CountsAreTyped == TypeOK => CountsTyped
<1> SUFFICES ASSUME TypeOK PROVE CountsTyped
  OBVIOUS
<1>1. IsFiniteSet(Workers) /\ IsFiniteSet(Codes) /\ IsFiniteSet(Refusals)
      /\ Refusals \subseteq Codes
  BY FiniteWorkers, FiniteCodes DEF TypeOK
<1>2. \A w \in Workers : local[w] \in [Codes -> Nat]
  BY DEF TypeOK
<1>3. \A w \in Workers : /\ SumFunctionOnSet(local[w], Codes) \in Nat
                         /\ SumFunctionOnSet(local[w], Refusals) \in Nat
  BY <1>1, <1>2, SumInNat
<1>4. \A w \in Workers : Pending(w) \in {0, 1}
  BY DEF Pending
<1>5. \A w \in Workers : CountedBy[w] \in Nat /\ RefusedBy[w] \in Nat
  BY <1>3, <1>4 DEF CountedBy, RefusedBy
<1>6. SumFunctionOnSet(merged, Codes) \in Nat /\ SumFunctionOnSet(merged, Refusals) \in Nat
  BY <1>1, SumInNat DEF TypeOK
<1>7. QED
  BY <1>1, <1>3, <1>5, <1>6, SumInNat DEF CountsTyped

LEMMA SumOfZero == /\ SumFunctionOnSet(Zero, Codes) = 0
                   /\ SumFunctionOnSet(Zero, Refusals) = 0
BY FiniteCodes, SumOfZeros DEF Zero

(* A worker that is gone counts for nothing. *)
LEMMA InactiveCountsNothing ==
  ASSUME TypeOK, Accounts, \A w \in Workers : ~Active(w)
  PROVE  /\ SumFunctionOnSet(CountedBy, Workers) = 0
         /\ SumFunctionOnSet(RefusedBy, Workers) = 0
<1>1. \A w \in Workers : CountedBy[w] = 0
  BY SumOfZero DEF Accounts, CountedBy
<1>2. \A w \in Workers : RefusedBy[w] = 0
  BY SumOfZero DEF Accounts, RefusedBy, Pending, Active
<1>3. IsFiniteSet(Workers)
  BY CountsAreTyped DEF CountsTyped
<1>4. QED
  BY <1>1, <1>2, <1>3, SumOfZeros

(* What the statistics of a worker are after it has counted a response *)
LEMMA CountingOne ==
  ASSUME NEW f, NEW g, NEW c \in Codes,
         \A y \in Codes : f[y] \in Int /\ g[y] = IF y = c THEN f[y] + 1 ELSE f[y]
  PROVE  /\ SumFunctionOnSet(g, Codes) = SumFunctionOnSet(f, Codes) + 1
         /\ SumFunctionOnSet(g, Refusals) =
              SumFunctionOnSet(f, Refusals) + (IF c \in Refusals THEN 1 ELSE 0)
<1>1. \A y \in Refusals : f[y] \in Int /\ g[y] = IF y = c THEN f[y] + 1 ELSE f[y]
  BY FiniteCodes
<1>2. 1 \in Int
  OBVIOUS
<1>3. SumFunctionOnSet(g, Codes) = SumFunctionOnSet(f, Codes)
                                     + (IF c \in Codes THEN 1 ELSE 0)
  BY <1>2, FiniteCodes, SumIncrement
<1>4. SumFunctionOnSet(g, Refusals) = SumFunctionOnSet(f, Refusals)
                                        + (IF c \in Refusals THEN 1 ELSE 0)
  BY <1>1, <1>2, FiniteCodes, SumIncrement
<1>5. QED
  BY <1>3, <1>4

LEMMA InitCounts == Init => Accounts /\ ReportIsLast
<1> SUFFICES ASSUME Init PROVE Accounts /\ ReportIsLast
  OBVIOUS
<1>1. /\ \A w \in Workers : local[w] = Zero /\ at[w] = "off" /\ ~Active(w)
      /\ requests = 0 /\ errors = 0 /\ merged = Zero /\ pc = "start"
  BY DEF Init, Active
<1>2. /\ SumFunctionOnSet(merged, Codes) = 0
      /\ SumFunctionOnSet(merged, Refusals) = 0
  BY <1>1, SumOfZero
<1>3. IsFiniteSet(Workers)
  BY FiniteWorkers DEF Init
<1>4. \A w \in Workers : CountedBy[w] = 0
  BY <1>1, SumOfZero DEF CountedBy
<1>5. \A w \in Workers : RefusedBy[w] = 0
  BY <1>1, SumOfZero DEF RefusedBy, Pending
<1>6. /\ SumFunctionOnSet(CountedBy, Workers) = 0
      /\ SumFunctionOnSet(RefusedBy, Workers) = 0
  BY <1>3, <1>4, <1>5, SumOfZeros
<1>7. QED
  BY <1>1, <1>2, <1>6 DEF Accounts, ReportIsLast, Reported

(* A step that counts nothing, and makes no worker inactive that has
   something to merge *)
LEMMA CountsNothing ==
  ASSUME Accounts, phase' = phase, Workers' = Workers,
         UNCHANGED <<local, merged, requests, errors>>,
         \A w \in Workers : Pending(w)' = Pending(w),
         \A w \in Workers : ~Active(w)' => local[w] = Zero,
         ~phase.hostValid => \A w \in Workers : at'[w] \in {"off", "loop", "merge", "done"}
  PROVE  Accounts'
<1>1. CountedBy' = CountedBy
  BY DEF CountedBy
<1>2. RefusedBy' = RefusedBy
  BY DEF RefusedBy, Refusals
<1>3. Refusals' = Refusals
  BY DEF Refusals
<1>4. QED
  BY <1>1, <1>2, <1>3 DEF Accounts

(* A worker that counts a failure or a refusal *)
LEMMA AddErrorCounts ==
  ASSUME TypeOK, CountsTyped, CountsTyped', Accounts, phase' = phase, Workers' = Workers,
         NEW w \in Workers, AddError(w)
  PROVE  Accounts'
<1>1. /\ UNCHANGED <<local, merged, requests, code>> /\ errors' = errors + 1
      /\ at[w] \in {"failed", "refused"} /\ at'[w] \in {"loop", "counting"}
      /\ \A v \in Workers \ {w} : at'[v] = at[v]
  BY DEF AddError, Goto, TypeOK
<1>2. CountedBy' = CountedBy /\ Refusals' = Refusals
  BY <1>1 DEF CountedBy, Refusals
<1>3. \A v \in Workers \ {w} : RefusedBy'[v] = RefusedBy[v]
  BY <1>1, <1>2 DEF RefusedBy, Pending
<1>4. RefusedBy'[w] <= RefusedBy[w] + 1
  BY <1>1, <1>2 DEF RefusedBy, Pending, CountsTyped
<1>5. SumFunctionOnSet(RefusedBy', Workers)
        = SumFunctionOnSet(RefusedBy, Workers) + RefusedBy'[w] - RefusedBy[w]
  <2>1. /\ IsFiniteSet(Workers)
        /\ \A v \in Workers : RefusedBy[v] \in Int /\ RefusedBy'[v] \in Int
    BY DEF CountsTyped
  <2>2. QED
    BY <1>3, <2>1, SumUpdate
<1>6. /\ RefusedBy[w] \in Nat /\ RefusedBy'[w] \in Nat
      /\ SumFunctionOnSet(RefusedBy, Workers) \in Nat
      /\ SumFunctionOnSet(merged, Refusals) \in Nat /\ errors \in Nat
  BY DEF CountsTyped, TypeOK
<1>7. errors' >= SumFunctionOnSet(merged, Refusals) + SumFunctionOnSet(RefusedBy', Workers)
  BY <1>1, <1>4, <1>5, <1>6 DEF Accounts
<1>8. \A v \in Workers : (~Active(v)' \/ ~phase.hostValid) => local[v] = Zero
  BY <1>1 DEF Accounts, Active
<1>9. phase.hostValid
  BY <1>1 DEF Accounts
<1>10. QED
  BY <1>1, <1>2, <1>7, <1>8, <1>9 DEF Accounts

(* A worker that counts a response *)
LEMMA AddRequestCounts ==
  ASSUME TypeOK, CountsTyped, CountsTyped', Accounts, phase' = phase, Workers' = Workers,
         NEW w \in Workers, AddRequest(w)
  PROVE  Accounts'
<1>1. /\ UNCHANGED <<merged, errors, code>> /\ requests' = requests + 1
      /\ at[w] = "counting" /\ at'[w] = "loop"
      /\ \A v \in Workers \ {w} : at'[v] = at[v] /\ local'[v] = local[v]
  BY DEF AddRequest, Goto, TypeOK
<1>2. /\ code[w] \in Codes
      /\ \A c \in Codes : /\ local[w][c] \in Int
                          /\ local'[w][c] = IF c = code[w] THEN local[w][c] + 1
                                            ELSE local[w][c]
  BY DEF AddRequest, TypeOK
<1>3. /\ SumFunctionOnSet(local'[w], Codes) = SumFunctionOnSet(local[w], Codes) + 1
      /\ SumFunctionOnSet(local'[w], Refusals) =
           SumFunctionOnSet(local[w], Refusals) + (IF code[w] \in Refusals THEN 1 ELSE 0)
  BY <1>2, CountingOne
<1>4. Refusals' = Refusals
  BY DEF Refusals
<1>5. /\ CountedBy'[w] = CountedBy[w] + 1
      /\ \A v \in Workers \ {w} : CountedBy'[v] = CountedBy[v]
  BY <1>1, <1>3 DEF CountedBy
<1>6. \A v \in Workers : RefusedBy'[v] = RefusedBy[v]
  <2>1. RefusedBy'[w] = RefusedBy[w]
    BY <1>1, <1>3, <1>4 DEF RefusedBy, Pending, CountsTyped
  <2>2. \A v \in Workers \ {w} : RefusedBy'[v] = RefusedBy[v]
    BY <1>1, <1>4 DEF RefusedBy, Pending
  <2>3. QED
    BY <2>1, <2>2
<1>7. /\ IsFiniteSet(Workers)
      /\ \A v \in Workers : CountedBy[v] \in Int /\ CountedBy'[v] \in Int
      /\ \A v \in Workers : RefusedBy[v] \in Int
  BY DEF CountsTyped
<1>8. SumFunctionOnSet(CountedBy', Workers)
        = SumFunctionOnSet(CountedBy, Workers) + CountedBy'[w] - CountedBy[w]
  BY <1>5, <1>7, SumUpdate
<1>9. SumFunctionOnSet(RefusedBy', Workers) = SumFunctionOnSet(RefusedBy, Workers)
  BY <1>6, <1>7, SumSame
<1>10. /\ CountedBy[w] \in Nat /\ SumFunctionOnSet(CountedBy, Workers) \in Nat
       /\ SumFunctionOnSet(merged, Codes) \in Nat
  BY DEF CountsTyped
<1>11. requests' = SumFunctionOnSet(merged, Codes) + SumFunctionOnSet(CountedBy', Workers)
  BY <1>1, <1>5, <1>8, <1>10 DEF Accounts
<1>12. phase.hostValid
  BY <1>1 DEF Accounts
<1>13. \A v \in Workers : ~Active(v)' => local'[v] = Zero
  BY <1>1 DEF Accounts, Active
<1>14. QED
  BY <1>1, <1>4, <1>9, <1>11, <1>12, <1>13 DEF Accounts

(* A worker that leaves hands over all it has counted. *)
LEMMA MergeCounts ==
  ASSUME TypeOK, CountsTyped, CountsTyped', Accounts, phase' = phase, Workers' = Workers,
         NEW w \in Workers, Merge(w)
  PROVE  Accounts'
<1>1. /\ UNCHANGED <<requests, errors, code>>
      /\ at[w] = "merge" /\ at'[w] = "done" /\ local'[w] = Zero
      /\ \A v \in Workers \ {w} : at'[v] = at[v] /\ local'[v] = local[v]
  BY DEF Merge, Goto, TypeOK
<1>2. Refusals' = Refusals
  BY DEF Refusals
<1>3. \A c \in Codes : /\ merged[c] \in Int /\ local[w][c] \in Int
                       /\ merged'[c] = merged[c] + local[w][c]
  BY DEF Merge, TypeOK
<1>4. /\ SumFunctionOnSet(merged', Codes)
           = SumFunctionOnSet(merged, Codes) + SumFunctionOnSet(local[w], Codes)
      /\ SumFunctionOnSet(merged', Refusals)
           = SumFunctionOnSet(merged, Refusals) + SumFunctionOnSet(local[w], Refusals)
  BY <1>3, FiniteCodes, SumPlus
<1>5. /\ CountedBy[w] = SumFunctionOnSet(local[w], Codes) /\ CountedBy'[w] = 0
      /\ \A v \in Workers \ {w} : CountedBy'[v] = CountedBy[v]
  BY <1>1, SumOfZero DEF CountedBy
<1>6. /\ RefusedBy[w] = SumFunctionOnSet(local[w], Refusals) /\ RefusedBy'[w] = 0
      /\ \A v \in Workers \ {w} : RefusedBy'[v] = RefusedBy[v]
  BY <1>1, <1>2, SumOfZero DEF RefusedBy, Pending, CountsTyped
<1>7. /\ IsFiniteSet(Workers)
      /\ \A v \in Workers : CountedBy[v] \in Int /\ CountedBy'[v] \in Int
      /\ \A v \in Workers : RefusedBy[v] \in Int /\ RefusedBy'[v] \in Int
  BY DEF CountsTyped
<1>8. SumFunctionOnSet(CountedBy', Workers)
        = SumFunctionOnSet(CountedBy, Workers) + CountedBy'[w] - CountedBy[w]
  BY <1>5, <1>7, SumUpdate
<1>9. SumFunctionOnSet(RefusedBy', Workers)
        = SumFunctionOnSet(RefusedBy, Workers) + RefusedBy'[w] - RefusedBy[w]
  BY <1>6, <1>7, SumUpdate
<1>10. /\ CountedBy[w] \in Nat /\ SumFunctionOnSet(CountedBy, Workers) \in Nat
       /\ RefusedBy[w] \in Nat /\ SumFunctionOnSet(RefusedBy, Workers) \in Nat
       /\ SumFunctionOnSet(merged, Codes) \in Nat
       /\ SumFunctionOnSet(merged, Refusals) \in Nat
  BY DEF CountsTyped
<1>11. requests' = SumFunctionOnSet(merged', Codes) + SumFunctionOnSet(CountedBy', Workers)
  BY <1>1, <1>4, <1>5, <1>8, <1>10 DEF Accounts
<1>12. errors' >= SumFunctionOnSet(merged', Refusals) + SumFunctionOnSet(RefusedBy', Workers)
  BY <1>1, <1>4, <1>6, <1>9, <1>10 DEF Accounts
<1>13. \A v \in Workers : (~Active(v)' \/ ~phase.hostValid) => local'[v] = Zero
  BY <1>1 DEF Accounts, Active
<1>14. ~phase.hostValid => \A v \in Workers : at'[v] \in {"off", "loop", "merge", "done"}
  BY <1>1 DEF Accounts
<1>15. QED
  BY <1>2, <1>11, <1>12, <1>13, <1>14 DEF Accounts

LEMMA NextCounts == PhaseInv /\ Accounts /\ [Next]_vars => Accounts'
<1> SUFFICES ASSUME PhaseInv, Accounts, [Next]_vars PROVE Accounts'
  OBVIOUS
<1>1. TypeOK /\ TypeOK'
  BY NextTypeOK DEF PhaseInv
<1>2. CountsTyped /\ CountsTyped'
  BY <1>1, CountsAreTyped, PTL
<1>3. phase' = phase /\ Workers' = Workers
  BY SamePhase DEF Next, Drive, ServerDecides, Returned, Tick, SendSetup,
     SkipSetup, MarshalFails, StartGroup, GroupEnds, LastGroupEnded, Report,
     SetupAnswered, SetupFails, TeardownEnds, ReporterEnds, WorkerStep,
     StopLoop, Send, RequestInvalid, RequestFails, Respond, LoseBody, AddError,
     AddRequest, Merge, control, workers, counters, vars
<1>4. CASE UNCHANGED <<at, code, local, merged, requests, errors>>
  <2>1. \A w \in Workers : Pending(w)' = Pending(w) /\ Active(w)' = Active(w)
    BY <1>4 DEF Pending, Active, Refusals
  <2>2. QED
    BY <1>3, <1>4, <2>1, CountsNothing DEF Accounts
<1>5. CASE StartGroup
  <2>1. \A w \in Workers : ~Active(w) /\ local[w] = Zero
    BY <1>5 DEF PhaseInv, Quiet, StartGroup, Accounts
  <2>2. \A w \in Workers : at'[w] = at[w] \/ at'[w] = "loop"
    BY <1>5 DEF StartGroup
  <2>3. UNCHANGED <<code, local, merged, requests, errors>>
    BY <1>5 DEF StartGroup, counters
  <2>4. \A w \in Workers : Pending(w)' = Pending(w)
    BY <2>1, <2>2, <2>3 DEF Pending, Active, Refusals
  <2>5. QED
    BY <1>3, <2>1, <2>2, <2>3, <2>4, CountsNothing DEF Accounts
<1>6. ASSUME NEW w \in Workers,
             StopLoop(w) \/ Send(w) \/ RequestInvalid(w) \/ RequestFails(w)
             \/ (\E c \in Codes : Respond(w, c)) \/ LoseBody(w)
      PROVE  Accounts'
  <2> DEFINE Moved ==
        /\ UNCHANGED <<local, merged, requests, errors>>
        /\ at[w] \in {"loop", "inflight"}
        /\ \A v \in Workers \ {w} : at'[v] = at[v] /\ code'[v] = code[v]
        /\ at'[w] = "counting" => code'[w] \notin Refusals
        /\ at'[w] = "done" => at[w] = "loop" /\ ~phase.hostValid
        /\ ~phase.hostValid => at[w] = "inflight" \/ at'[w] \in {"merge", "done"}
        /\ at'[w] # "off"
  <2>1. Moved
    <3>1. at = [v \in Workers |-> at[v]] /\ code \in [Workers -> Codes]
      BY <1>1 DEF TypeOK
    <3>2. CASE StopLoop(w) \/ Send(w)
      BY <3>1, <3>2 DEF StopLoop, Send, Goto, counters
    <3>3. CASE RequestInvalid(w)
      BY <3>1, <3>3 DEF RequestInvalid, Goto, counters
    <3>4. CASE RequestFails(w) \/ LoseBody(w)
      BY <3>1, <3>4 DEF RequestFails, LoseBody, Goto, counters
    <3>5. ASSUME NEW c \in Codes, Respond(w, c) PROVE Moved
      BY <3>1, <3>5 DEF Respond, Goto, counters, Refusals
    <3>6. QED
      BY <1>6, <3>2, <3>3, <3>4, <3>5
  <2>2. \A v \in Workers : Pending(v)' = Pending(v)
    BY <2>1 DEF Pending, Refusals
  <2>3. \A v \in Workers : ~Active(v)' => local[v] = Zero
    BY <2>1 DEF Active, Accounts
  <2>4. ~phase.hostValid =>
          \A v \in Workers : at'[v] \in {"off", "loop", "merge", "done"}
    BY <2>1 DEF Accounts
  <2>5. QED
    BY <1>3, <2>1, <2>2, <2>3, <2>4, CountsNothing
<1>7. ASSUME NEW w \in Workers, WorkerStep(w) PROVE Accounts'
  BY <1>1, <1>2, <1>3, <1>6, <1>7, AddErrorCounts, AddRequestCounts, MergeCounts
     DEF WorkerStep
<1>8. QED
  BY <1>4, <1>5, <1>7 DEF Next, Drive, ServerDecides, Returned, Tick, SendSetup,
     SkipSetup, MarshalFails, GroupEnds, LastGroupEnded, Report, SetupAnswered,
     SetupFails, TeardownEnds, ReporterEnds, workers, counters, vars

(* What is reported is what was counted, and stays so. *)
LEMMA NextReportIsLast == PhaseInv /\ ReportIsLast /\ [Next]_vars => ReportIsLast'
<1> SUFFICES ASSUME PhaseInv, ReportIsLast, [Next]_vars PROVE ReportIsLast'
  OBVIOUS
<1>1. CASE Report
  BY <1>1 DEF Report, ReportIsLast, counters
<1>2. CASE Tick \/ SendSetup \/ SkipSetup \/ MarshalFails \/ StartGroup \/ GroupEnds
           \/ LastGroupEnded \/ SetupAnswered \/ SetupFails \/ TeardownEnds
           \/ Returned \/ UNCHANGED vars
  BY <1>2 DEF ReportIsLast, Reported, Tick, SendSetup, SkipSetup, MarshalFails,
     StartGroup, GroupEnds, LastGroupEnded, SetupAnswered, SetupFails,
     TeardownEnds, Returned, Return, ContextError, control, counters, vars
<1>3. ASSUME NEW g \in Groups, ReporterEnds(g) PROVE ReportIsLast'
  BY <1>3 DEF ReportIsLast, Reported, ReporterEnds, control, counters
<1>4. ASSUME NEW w \in Workers, WorkerStep(w) PROVE ReportIsLast'
  <2>1. Active(w) /\ UNCHANGED <<pc, result>>
    BY <1>4 DEF WorkerStep, Active, Goto, StopLoop, Send, RequestInvalid,
       RequestFails, Respond, LoseBody, AddError, AddRequest, Merge, control
  <2>2. pc = "wait"
    BY <2>1 DEF PhaseInv, Quiet
  <2>3. QED
    BY <2>1, <2>2 DEF ReportIsLast, Reported
<1>5. QED
  BY <1>1, <1>2, <1>3, <1>4 DEF Next, Drive, ServerDecides

LEMMA CountInvHolds == Spec => []CountInv
<1>1. Init => CountInv
  BY InitInv, InitCounts DEF CountInv
<1>2. CountInv /\ [Next]_vars => CountInv'
  BY NextInv, NextCounts, NextReportIsLast DEF CountInv
<1>3. QED
  BY <1>1, <1>2, PTL DEF Spec

(* The report is complete: however the requests of the workers end and
   interleave with each other and with the end of the group, every request in
   the report has its status in it, and every refusal is among its errors. *)
THEOREM ReportAddsUp == Spec => []ReportComplete
<1>1. CountInv => ReportComplete
  <2> SUFFICES ASSUME CountInv, Reported PROVE ReportComplete
    BY DEF ReportComplete, Reported
  <2>1. TypeOK /\ CountsTyped
    BY CountsAreTyped DEF CountInv, PhaseInv
  <2>2. \A w \in Workers : ~Active(w)
    BY DEF CountInv, PhaseInv, Quiet, Reported
  <2>3. /\ SumFunctionOnSet(CountedBy, Workers) = 0
        /\ SumFunctionOnSet(RefusedBy, Workers) = 0
    BY <2>1, <2>2, InactiveCountsNothing DEF CountInv
  <2>4. /\ SumFunctionOnSet(merged, Codes) \in Nat
        /\ SumFunctionOnSet(merged, Refusals) \in Nat
    BY <2>1 DEF CountsTyped
  <2>5. QED
    BY <2>3, <2>4 DEF CountInv, Accounts, ReportIsLast, ReportComplete, Refusals
<1>2. QED
  BY <1>1, CountInvHolds, PTL

-----------------------------------------------------------------------------
(* What the result says *)

(* Who has begun: the workers of the groups that were started and no others
   have sent requests; where requests can be sent at all a worker ends only
   with its group's time, and so do the statistics goroutines. *)
Begun ==
  /\ \A w \in Workers : w[1] <= group => at[w] # "off"
  /\ \A w \in Workers : at[w] = "off" => sent[w] = 0
  /\ phase.hostValid =>
       \A w \in Workers : at[w] \in {"merge", "done"} => GroupDone(w[1])
  /\ \A g \in 1..group : g \in reporters \/ GroupDone(g)

(* The groups are left before the last one only when the phase's time is
   over, and there is no report before they are left. *)
Cut ==
  /\ pc \in {"drain", "teardown"} => group = Len(phase.workers) \/ PhaseDone
  /\ pc \notin {"teardown", "done"} => report = NoReport

(* A group's time starts when the one before it has finished, and only the
   phase's end makes it shorter. *)
Spaced ==
  /\ \A g \in 1..group : \/ deadline[g] = phase.limit
                         \/ phase.workers[g].duration <= deadline[g]
  /\ \A g, h \in 1..group :
       g < h /\ Works(g) => \/ deadline[h] = phase.limit
                            \/ deadline[g] + phase.workers[h].duration <= deadline[h]

FullInv == PhaseInv /\ Begun /\ Cut /\ Spaced /\ ResultTells

LEMMA Constants ==
  ASSUME TypeOK
  PROVE  /\ Len(phase.workers) \in Nat /\ Groups = 1..Len(phase.workers)
         /\ phase.limit \in Nat /\ now \in Nat
         /\ group \in 0..Len(phase.workers)
         /\ \A g \in Groups : deadline[g] \in Nat /\ deadline[g] <= phase.limit
         /\ \A g \in Groups : phase.workers[g].duration \in Nat
         /\ \A w \in Workers : w[1] \in Groups
<1>1. phase \in Phases
  BY DEF TypeOK
<1>2. /\ Len(phase.workers) \in Nat /\ Groups = 1..Len(phase.workers)
      /\ phase.limit \in Nat
  BY <1>1, PhaseIsTyped DEF PhaseType
<1>3. \A g \in Groups : phase.workers[g].duration \in Nat
  BY <1>1, PhaseIsTyped
<1>4. \A w \in Workers : w[1] \in Groups
  BY <1>1, PhaseIsTyped
<1>5. now \in 0..phase.limit /\ group \in 0..Len(phase.workers)
  BY DEF TypeOK
<1>6. deadline \in [Groups -> 0..phase.limit]
  BY DEF TypeOK
<1>7. now \in Nat
  BY <1>2, <1>5
<1>8. \A g \in Groups : deadline[g] \in Nat /\ deadline[g] <= phase.limit
  BY <1>2, <1>6
<1>9. QED
  BY <1>2, <1>3, <1>4, <1>5, <1>7, <1>8

(* The phase is fixed, time does not go back, and a group's deadline is set
   once. *)
LEMMA Steady ==
  ASSUME TypeOK, TypeOK', Next
  PROVE  /\ phase' = phase /\ Workers' = Workers /\ Groups' = Groups
         /\ now' >= now
         /\ group' \in {group, group + 1}
         /\ \A g \in 1..group : deadline'[g] = deadline[g]
<1>1. phase' = phase /\ Workers' = Workers /\ Groups' = Groups
  BY SamePhase DEF Next, Drive, ServerDecides, Returned, Tick, SendSetup,
     SkipSetup, MarshalFails, StartGroup, GroupEnds, LastGroupEnded, Report,
     SetupAnswered, SetupFails, TeardownEnds, ReporterEnds, WorkerStep,
     StopLoop, Send, RequestInvalid, RequestFails, Respond, LoseBody, AddError,
     AddRequest, Merge, control, workers, counters, vars
<1>2. now' \in {now, now + 1}
  BY DEF Next, Drive, ServerDecides, Returned, Tick, SendSetup,
     SkipSetup, MarshalFails, StartGroup, GroupEnds, LastGroupEnded, Report,
     SetupAnswered, SetupFails, TeardownEnds, ReporterEnds, WorkerStep,
     StopLoop, Send, RequestInvalid, RequestFails, Respond, LoseBody, AddError,
     AddRequest, Merge, control, workers, counters, vars
<1>3. now \in Nat /\ group \in Nat
  BY Constants
<1>4. StartGroup \/ UNCHANGED <<group, deadline>>
  BY DEF Next, Drive, ServerDecides, Returned, Tick, SendSetup,
     SkipSetup, MarshalFails, GroupEnds, LastGroupEnded, Report,
     SetupAnswered, SetupFails, TeardownEnds, ReporterEnds, WorkerStep,
     StopLoop, Send, RequestInvalid, RequestFails, Respond, LoseBody, AddError,
     AddRequest, Merge, control, vars
<1>5. CASE StartGroup
  <2>1. \A g \in 1..group : g \in Groups /\ g # group + 1
    BY <1>3, Constants
  <2>2. DOMAIN deadline = Groups
    BY DEF TypeOK
  <2>3. \A g \in 1..group : deadline'[g] = deadline[g]
    BY <1>5, <2>1, <2>2 DEF StartGroup
  <2>4. group' = group + 1
    BY <1>5 DEF StartGroup
  <2>5. QED
    BY <1>1, <1>2, <1>3, <2>3, <2>4
<1>6. QED
  BY <1>1, <1>2, <1>3, <1>4, <1>5

LEMMA StaysDone ==
  ASSUME TypeOK, TypeOK', Next
  PROVE  /\ PhaseDone => PhaseDone'
         /\ \A g \in 1..group : GroupDone(g) => GroupDone(g)'
<1>1. now \in Nat /\ phase.limit \in Nat /\ phase' = phase /\ now' >= now
  BY Constants, Steady
<1>2. now' \in Nat
  <2>1. (now \in Nat)'
    BY Constants, PTL
  <2>2. QED
    BY <2>1
<1>3. \A g \in 1..group : deadline[g] \in Nat /\ deadline'[g] = deadline[g]
  BY Constants, Steady
<1>4. QED
  BY <1>1, <1>2, <1>3 DEF PhaseDone, GroupDone

(* What a step of a worker does to what the result depends on *)
LEMMA WorkerSteps ==
  ASSUME TypeOK, NEW w \in Workers, WorkerStep(w)
  PROVE  /\ Active(w)
         /\ UNCHANGED <<control, now, reporters, report>>
         /\ \A v \in Workers : v # w => at'[v] = at[v] /\ sent'[v] = sent[v]
         /\ at'[w] # "off"
         /\ at'[w] \in {"merge", "done"} =>
              GroupDone(w[1]) \/ at[w] = "merge" \/ ~phase.hostValid
<1>1. DOMAIN at = Workers /\ DOMAIN sent = Workers
  BY DEF TypeOK
<1>2. CASE StopLoop(w) \/ RequestInvalid(w) \/ RequestFails(w) \/ LoseBody(w)
  BY <1>1, <1>2 DEF StopLoop, RequestInvalid, RequestFails, LoseBody, Goto, Active
<1>3. CASE Send(w)
  BY <1>1, <1>3 DEF Send, Goto, Active
<1>4. CASE \E c \in Codes : Respond(w, c)
  BY <1>1, <1>4 DEF Respond, Goto, Active
<1>5. CASE AddError(w) \/ AddRequest(w) \/ Merge(w)
  BY <1>1, <1>5 DEF AddError, AddRequest, Merge, Goto, Active
<1>6. QED
  BY <1>2, <1>3, <1>4, <1>5 DEF WorkerStep

LEMMA InitFull == Init => FullInv
<1> SUFFICES ASSUME Init PROVE FullInv
  OBVIOUS
<1>1. PhaseInv /\ TypeOK
  BY InitInv DEF PhaseInv
<1>2. group = 0 /\ pc = "start" /\ result = "none" /\ report = NoReport
  BY DEF Init
<1>3. /\ \A w \in Workers : at[w] = "off" /\ sent[w] = 0
      /\ \A w \in Workers : ~(w[1] <= group)
  <2>1. \A w \in Workers : w[1] \in Groups
    BY <1>1, Constants
  <2>2. \A w \in Workers : ~(w[1] <= group)
    BY <1>1, <1>2, <2>1, Constants
  <2>3. QED
    BY <2>2 DEF Init
<1>4. 1..group = {}
  BY <1>2
<1>5. QED
  BY <1>1, <1>2, <1>3, <1>4
     DEF FullInv, Begun, Cut, Spaced, ResultTells, FailureLeavesNothing, NilMeansFullTime

(* The step that starts a group gives every worker of it its start. *)
LEMMA NextBegun ==
  ASSUME FullInv, PhaseInv', Next
  PROVE  Begun'
<1>1. TypeOK /\ TypeOK' /\ Begun
  BY DEF FullInv, PhaseInv
<1>2. /\ phase' = phase /\ Workers' = Workers /\ group \in Nat
      /\ group' \in {group, group + 1}
      /\ \A w \in Workers : w[1] \in Nat /\ w[1] >= 1
  BY <1>1, Constants, Steady
<1>3. \A g \in 1..group : GroupDone(g) => GroupDone(g)'
  BY <1>1, StaysDone
<1>4. \A w \in Workers : at[w] # "off" => w[1] \in 1..group
  BY <1>2 DEF FullInv, PhaseInv, Started
<1>5. ASSUME UNCHANGED <<group, reporters, at, sent>> PROVE Begun'
  BY <1>1, <1>2, <1>3, <1>4, <1>5 DEF Begun
<1>6. CASE StartGroup
  <2>1. /\ group' = group + 1 /\ reporters' = reporters \cup {group + 1}
        /\ UNCHANGED sent
        /\ \A w \in Workers : at'[w] = IF w[1] = group + 1 THEN "loop" ELSE at[w]
    BY <1>6 DEF StartGroup
  <2>2. \A w \in Workers : w[1] <= group' => at'[w] # "off"
    BY <1>1, <1>2, <2>1 DEF Begun
  <2>3. \A w \in Workers : at'[w] = "off" => sent'[w] = 0
    BY <1>1, <2>1 DEF Begun
  <2>4. phase.hostValid =>
          \A w \in Workers : at'[w] \in {"merge", "done"} => GroupDone(w[1])'
    BY <1>1, <1>3, <1>4, <2>1 DEF Begun
  <2>5. \A g \in 1..group' : g \in 1..group \/ g = group + 1
    BY <1>2, <2>1
  <2>6. \A g \in 1..group' : g \in reporters' \/ GroupDone(g)'
    BY <1>1, <1>3, <2>1, <2>5 DEF Begun
  <2>7. QED
    BY <1>2, <2>2, <2>3, <2>4, <2>6 DEF Begun
<1>7. ASSUME NEW g \in Groups, ReporterEnds(g) PROVE Begun'
  <2>1. UNCHANGED <<group, at, sent, now, deadline>>
    BY <1>7 DEF ReporterEnds, control, workers
  <2>2. reporters' = reporters \ {g} /\ GroupDone(g)'
    BY <1>7, <2>1 DEF ReporterEnds, GroupDone
  <2>3. \A h \in 1..group : h \in reporters' \/ GroupDone(h)'
    BY <1>1, <1>3, <2>2 DEF Begun
  <2>4. \A w \in Workers : at'[w] \in {"merge", "done"} /\ GroupDone(w[1]) => GroupDone(w[1])'
    BY <1>3, <1>4, <2>1
  <2>5. QED
    BY <1>1, <1>2, <2>1, <2>3, <2>4 DEF Begun
<1>8. ASSUME NEW w \in Workers, WorkerStep(w) PROVE Begun'
  <2>1. /\ Active(w) /\ at'[w] # "off"
        /\ UNCHANGED <<now, group, deadline, reporters>>
        /\ \A v \in Workers : v # w => at'[v] = at[v] /\ sent'[v] = sent[v]
        /\ at'[w] \in {"merge", "done"} =>
             GroupDone(w[1]) \/ at[w] = "merge" \/ ~phase.hostValid
    BY <1>1, <1>8, WorkerSteps DEF control
  <2>2. \A v \in Workers : v[1] <= group => at'[v] # "off"
    BY <1>1, <2>1 DEF Begun
  <2>3. \A v \in Workers : at'[v] = "off" => sent'[v] = 0
    BY <1>1, <2>1 DEF Begun
  <2>4. phase.hostValid =>
          \A v \in Workers : at'[v] \in {"merge", "done"} => GroupDone(v[1])
    BY <1>1, <2>1 DEF Begun
  <2>5. \A v \in Workers : GroupDone(v[1])' <=> GroupDone(v[1])
    BY <2>1 DEF GroupDone
  <2>6. \A g \in 1..group : g \in reporters' \/ GroupDone(g)'
    BY <1>1, <1>3, <2>1 DEF Begun
  <2>7. QED
    BY <1>2, <2>1, <2>2, <2>3, <2>4, <2>5, <2>6 DEF Begun
<1>9. CASE Tick \/ SendSetup \/ SkipSetup \/ MarshalFails \/ GroupEnds
           \/ LastGroupEnded \/ Report \/ SetupAnswered \/ SetupFails
           \/ TeardownEnds \/ Returned
  <2>1. UNCHANGED <<group, reporters, at, sent>>
    BY <1>9 DEF Tick, SendSetup, SkipSetup, MarshalFails, GroupEnds,
       LastGroupEnded, Report, SetupAnswered, SetupFails, TeardownEnds,
       Returned, control, workers, vars
  <2>2. QED
    BY <1>5, <2>1
<1>10. QED
  BY <1>6, <1>7, <1>8, <1>9 DEF Next, Drive, ServerDecides

LEMMA NextCut ==
  ASSUME FullInv, PhaseInv', Next
  PROVE  Cut'
<1>1. TypeOK /\ TypeOK' /\ Cut
  BY DEF FullInv, PhaseInv
<1>2. phase' = phase /\ (PhaseDone => PhaseDone')
  BY <1>1, Steady, StaysDone
<1>3. CASE Tick \/ SendSetup \/ SkipSetup \/ SetupAnswered \/ Returned
  BY <1>1, <1>2, <1>3 DEF Cut, Tick, SendSetup, SkipSetup, SetupAnswered,
     Returned, control, vars
<1>4. CASE MarshalFails \/ SetupFails \/ TeardownEnds
  BY <1>4 DEF Cut, MarshalFails, SetupFails, TeardownEnds, Return
<1>5. CASE StartGroup
  BY <1>1, <1>5 DEF Cut, StartGroup
<1>6. CASE GroupEnds
  <2>1. PhaseDone' <=> PhaseDone
    BY <1>6 DEF GroupEnds, PhaseDone
  <2>2. QED
    BY <1>1, <1>6, <2>1 DEF Cut, GroupEnds
<1>7. CASE LastGroupEnded
  BY <1>1, <1>7 DEF Cut, LastGroupEnded
<1>8. CASE Report
  BY <1>1, <1>2, <1>8 DEF Cut, Report, Return
<1>9. CASE \E g \in Groups : ReporterEnds(g)
  BY <1>1, <1>2, <1>9 DEF Cut, ReporterEnds, control
<1>10. CASE \E w \in Workers : WorkerStep(w)
  <2>1. UNCHANGED <<control, report>>
    BY <1>1, <1>10, WorkerSteps
  <2>2. QED
    BY <1>1, <1>2, <2>1 DEF Cut, control
<1>11. QED
  BY <1>3, <1>4, <1>5, <1>6, <1>7, <1>8, <1>9, <1>10 DEF Next, Drive, ServerDecides

(* A group whose workers can send requests has used up its time when the
   next one starts. *)
LEMMA FinishedGroup ==
  ASSUME FullInv, pc = "groups", NEW g \in 1..group, Works(g)
  PROVE  GroupDone(g)
<1>1. TypeOK /\ Begun /\ Quiet
  BY DEF FullInv, PhaseInv
<1>2. g \in Groups /\ group \in Nat
  BY <1>1, Constants
<1>3. phase.workers[g].instances \in Nat
  <2>1. phase \in PhaseType
    BY <1>1, PhaseIsTyped DEF TypeOK
  <2>2. phase.workers \in Seq([instances : Nat, duration : Nat])
    BY <2>1 DEF PhaseType
  <2>3. phase.workers[g] \in [instances : Nat, duration : Nat]
    BY <1>2, <2>2, ElementOfSeq DEF Groups
  <2>4. QED
    BY <2>3
<1>4. 1 \in 1..phase.workers[g].instances /\ phase.hostValid
  BY <1>3 DEF Works
<1>5. <<g, 1>> \in Workers
  BY <1>2, <1>4 DEF Workers
<1>6. at[<<g, 1>>] # "off" /\ ~Active(<<g, 1>>)
  <2>1. <<g, 1>>[1] = g /\ g <= group
    BY <1>2
  <2>2. QED
    BY <1>1, <1>5, <2>1 DEF Begun, Quiet
<1>7. at[<<g, 1>>] = "done"
  BY <1>6 DEF Active
<1>8. QED
  BY <1>1, <1>4, <1>5, <1>7 DEF Begun

LEMMA NextSpaced ==
  ASSUME FullInv, PhaseInv', Next
  PROVE  Spaced'
<1>1. TypeOK /\ TypeOK' /\ Spaced
  BY DEF FullInv, PhaseInv
<1>2. phase' = phase /\ group \in Nat /\ now \in Nat
      /\ \A g \in 1..group : deadline'[g] = deadline[g]
  BY <1>1, Constants, Steady
<1>3. ASSUME group' = group PROVE Spaced'
  BY <1>1, <1>2, <1>3 DEF Spaced, Works
<1>4. CASE StartGroup
  <2> DEFINE n == group + 1
  <2>1. pc = "groups" /\ group' = n /\ n \in Groups /\ n \notin 1..group
    BY <1>1, <1>2, <1>4, Constants DEF StartGroup
  <2>2. deadline'[n] = Min({phase.limit, now + phase.workers[n].duration})
    <3>1. DOMAIN deadline = Groups
      BY <1>1 DEF TypeOK
    <3>2. QED
      BY <1>4, <2>1, <3>1 DEF StartGroup
  <2>3. phase.limit \in Nat /\ phase.workers[n].duration \in Nat
    BY <1>1, <2>1, Constants
  <2>4. deadline'[n] \in {phase.limit, now + phase.workers[n].duration}
    <3>1. now + phase.workers[n].duration \in Nat
      BY <1>2, <2>3
    <3>2. \A a, b \in Int : Min({a, b}) \in {a, b}
      BY MinOfTwo
    <3>3. Min({phase.limit, now + phase.workers[n].duration})
            \in {phase.limit, now + phase.workers[n].duration}
      <4> HIDE DEF n
      <4>1. phase.limit \in Int /\ now + phase.workers[n].duration \in Int
        BY <2>3, <3>1
      <4>2. QED
        BY <3>2, <4>1
    <3>4. QED
      BY <2>2, <3>3
  <2>5. \A g \in 1..group : Works(g) => deadline[g] \in Nat /\ deadline[g] <= now
    <3>1. \A g \in 1..group : deadline[g] \in Nat
      BY <1>1, Constants
    <3>2. QED
      BY <2>1, <3>1, FinishedGroup DEF GroupDone
  <2>6. \A g \in 1..group' : g \in 1..group \/ g = n
    BY <1>2, <2>1
  <2> HIDE DEF n
  <2>7. \A g \in 1..group' : \/ deadline'[g] = phase.limit
                             \/ phase.workers[g].duration <= deadline'[g]
    <3>1. deadline'[n] = phase.limit \/ phase.workers[n].duration <= deadline'[n]
      BY <1>2, <2>3, <2>4
    <3>2. QED
      BY <1>1, <1>2, <2>6, <3>1 DEF Spaced
  <2>8. ASSUME NEW g \in 1..group', NEW h \in 1..group', g < h, Works(g)
        PROVE  \/ deadline'[h] = phase.limit
               \/ deadline'[g] + phase.workers[h].duration <= deadline'[h]
    <3>1. g \in 1..group
      BY <1>2, <2>1, <2>8 DEF n
    <3>2. CASE h \in 1..group
      BY <1>1, <1>2, <2>8, <3>1, <3>2 DEF Spaced
    <3>3. CASE h = n
      <4>1. deadline[g] \in Nat /\ deadline[g] <= now /\ deadline'[g] = deadline[g]
        BY <1>2, <2>5, <2>8, <3>1
      <4>2. QED
        BY <1>2, <2>3, <2>4, <3>3, <4>1
    <3>4. QED
      BY <2>6, <3>2, <3>3
  <2>9. \A g : Works(g)' <=> Works(g)
    BY <1>2 DEF Works
  <2>10. QED
    BY <1>2, <2>7, <2>8, <2>9 DEF Spaced
<1>5. StartGroup \/ group' = group
  BY DEF Next, Drive, ServerDecides, Returned, Tick, SendSetup,
     SkipSetup, MarshalFails, GroupEnds, LastGroupEnded, Report,
     SetupAnswered, SetupFails, TeardownEnds, ReporterEnds, WorkerStep,
     StopLoop, Send, RequestInvalid, RequestFails, Respond, LoseBody, AddError,
     AddRequest, Merge, control, vars
<1>6. QED
  BY <1>3, <1>4, <1>5

(* A return without an error finds every group at its end, and the phase
   not at its own. *)
LEMMA NilReturns ==
  ASSUME FullInv, pc \in {"drain", "teardown"}, reporters = {}, ~PhaseDone
  PROVE  /\ group = Len(phase.workers)
         /\ \A w \in Workers : at[w] = "done"
         /\ \A g \in Groups : /\ phase.workers[g].duration <= deadline[g]
                               /\ deadline[g] <= now /\ now < phase.limit
         /\ \A g, h \in Groups : g < h /\ Works(g) =>
              deadline[g] + phase.workers[h].duration <= deadline[h]
<1>1. TypeOK /\ Begun /\ Cut /\ Spaced /\ Quiet
  BY DEF FullInv, PhaseInv
<1>2. group = Len(phase.workers) /\ Groups = 1..group /\ group \in Nat
  BY <1>1, Constants DEF Cut
<1>3. \A w \in Workers : at[w] = "done"
  <2>1. \A w \in Workers : w[1] <= group
    BY <1>1, <1>2, Constants
  <2>2. \A w \in Workers : ~Active(w)
    BY <1>1 DEF Quiet
  <2>3. QED
    BY <1>1, <2>1, <2>2 DEF Begun, Active
<1>4. now < phase.limit /\ now \in Nat /\ phase.limit \in Nat
  BY <1>1, Constants DEF PhaseDone
<1>5. \A g \in Groups : deadline[g] <= now /\ deadline[g] # phase.limit
  <2>1. \A g \in Groups : now >= deadline[g] /\ deadline[g] \in Nat
    BY <1>1, <1>2, Constants DEF Begun, GroupDone
  <2>2. QED
    BY <1>4, <2>1
<1>6. QED
  BY <1>1, <1>2, <1>3, <1>4, <1>5 DEF Spaced

(* What does not touch the state the result is about leaves it true. *)
LEMMA SameTells ==
  ASSUME FullInv, FullInv => ResultTells,
         UNCHANGED <<phase, now, result, group, deadline, reporters, report, at, sent>>
  PROVE  ResultTells'
<1>1. ResultTells /\ Workers' = Workers /\ Groups' = Groups
  BY SamePhase
<1>2. (\A g : Works(g)' <=> Works(g)) /\ NoReport' = NoReport
  BY DEF Works, NoReport
<1>3. QED
  BY <1>1, <1>2 DEF ResultTells, FailureLeavesNothing, NilMeansFullTime

LEMMA NextTells ==
  ASSUME FullInv, PhaseInv', Next
  PROVE  ResultTells'
<1>1. TypeOK /\ TypeOK' /\ Begun /\ Cut /\ ResultTells /\ PhaseInv
  BY DEF FullInv, PhaseInv
<1>2. /\ phase' = phase /\ Workers' = Workers /\ Groups' = Groups
      /\ \A g : Works(g)' <=> Works(g)
  BY <1>1, Steady DEF Works
<1>3. ASSUME pc' # "done" PROVE ResultTells'
  <2>1. result' = "none"
    BY <1>1, <1>3 DEF TypeOK
  <2>2. QED
    BY <2>1 DEF ResultTells, FailureLeavesNothing, NilMeansFullTime
<1>4. CASE SetupFails \/ MarshalFails
  <2>1. group = 0
    <3>1. CASE SetupFails
      BY <1>1, <3>1 DEF PhaseInv, Started, SetupFails
    <3>2. CASE MarshalFails
      <4>1. ~(group > 0) /\ group \in 0..Len(phase.workers) /\ Len(phase.workers) \in Nat
        BY <1>1, <3>2, Constants DEF PhaseInv, Started, MarshalFails
      <4>2. QED
        BY <4>1
    <3>3. QED
      BY <1>4, <3>1, <3>2
  <2>2. reporters = {} /\ report = NoReport
    <3>1. reporters \subseteq 1..group
      BY <1>1 DEF TypeOK
    <3>2. pc \in {"setup", "groups"}
      BY <1>4 DEF SetupFails, MarshalFails
    <3>3. QED
      BY <1>1, <2>1, <3>1, <3>2 DEF Cut
  <2>3. \A w \in Workers : at[w] = "off" /\ sent[w] = 0
    <3>1. \A w \in Workers : w[1] \in Nat /\ w[1] >= 1
      BY <1>1, Constants
    <3>2. \A w \in Workers : at[w] # "off" => w[1] <= group
      BY <1>1 DEF PhaseInv, Started
    <3>3. \A w \in Workers : at[w] = "off"
      BY <2>1, <3>1, <3>2
    <3>4. QED
      BY <1>1, <3>3 DEF Begun
  <2>4. /\ UNCHANGED <<group, reporters, report, at, sent>>
        /\ result' = "error"
    BY <1>4 DEF SetupFails, MarshalFails, Return, workers
  <2>5. QED
    BY <1>2, <2>1, <2>2, <2>3, <2>4
       DEF ResultTells, FailureLeavesNothing, NilMeansFullTime, NoReport
<1>5. CASE (Report \/ TeardownEnds) /\ pc' = "done"
  <2>1. /\ UNCHANGED <<now, group, deadline, reporters, at, sent>>
        /\ result' = ContextError /\ pc \in {"drain", "teardown"} /\ reporters = {}
    BY <1>1, <1>5 DEF PhaseInv, Quiet, Report, TeardownEnds, Return, workers
  <2>2. CASE PhaseDone
    <3>1. result' = "DeadlineExceeded"
      BY <2>1, <2>2 DEF ContextError
    <3>2. QED
      BY <3>1 DEF ResultTells, FailureLeavesNothing, NilMeansFullTime
  <2>3. CASE ~PhaseDone
    <3>1. result' = "nil"
      BY <2>1, <2>3 DEF ContextError
    <3>2. NilMeansFullTime'
      BY <1>2, <2>1, <2>3, <3>1, NilReturns DEF NilMeansFullTime
    <3>3. QED
      BY <3>1, <3>2 DEF ResultTells, FailureLeavesNothing
  <2>4. QED
    BY <2>2, <2>3
<1>6. CASE \E g \in Groups : ReporterEnds(g)
  <2>1. pc \notin {"teardown", "done"} /\ pc' = pc
    BY <1>1, <1>6 DEF PhaseInv, Quiet, ReporterEnds, control
  <2>2. QED
    BY <1>3, <2>1
<1>7. CASE \E w \in Workers : WorkerStep(w)
  <2>1. PICK w \in Workers : Active(w) /\ pc' = pc
    BY <1>1, <1>7, WorkerSteps DEF control
  <2>2. pc # "done"
    BY <1>1, <2>1 DEF PhaseInv, Quiet
  <2>3. QED
    BY <1>3, <2>1, <2>2
<1>8. CASE Tick \/ SendSetup \/ SkipSetup \/ StartGroup \/ GroupEnds
           \/ LastGroupEnded \/ SetupAnswered
  <2>1. pc' # "done"
    BY <1>8 DEF Tick, SendSetup, SkipSetup, StartGroup, GroupEnds,
       LastGroupEnded, SetupAnswered, control
  <2>2. QED
    BY <1>3, <2>1
<1>9. CASE Returned
  BY <1>1, <1>9, SameTells DEF Returned, vars, control, workers
<1>10. QED
  BY <1>3, <1>4, <1>5, <1>6, <1>7, <1>8, <1>9 DEF Next, Drive, ServerDecides

LEMMA FullInvHolds == Spec => []FullInv
<1>1. FullInv /\ Next => FullInv'
  <2> SUFFICES ASSUME FullInv, Next PROVE FullInv'
    OBVIOUS
  <2>1. PhaseInv'
    BY NextInv DEF FullInv
  <2>2. QED
    BY <2>1, NextBegun, NextCut, NextSpaced, NextTells DEF FullInv
<1>2. FullInv /\ UNCHANGED vars => FullInv'
  <2> SUFFICES ASSUME FullInv, UNCHANGED vars PROVE FullInv'
    OBVIOUS
  <2>1. PhaseInv'
    BY NextInv DEF FullInv
  <2>2. /\ UNCHANGED <<phase, now, pc, result, group, deadline, reporters, report, at, sent>>
        /\ Workers' = Workers /\ Groups' = Groups
    BY SamePhase DEF vars, control, workers
  <2>3. ResultTells'
    BY <2>2, SameTells DEF FullInv
  <2>4. (Begun /\ Cut /\ Spaced)'
    BY <2>2 DEF FullInv, Begun, Cut, Spaced, GroupDone, PhaseDone, Works, NoReport
  <2>5. QED
    BY <2>1, <2>3, <2>4 DEF FullInv
<1>3. QED
  BY <1>1, <1>2, InitFull, PTL DEF Spec

(* What executePhase returns is to be trusted: after an error nothing of the
   phase was started, and nil means that every group had its whole time, one
   after another, whatever the durations and the time the workers took. *)
THEOREM ResultsTellTheTruth == Spec => []ResultTells
<1>1. FullInv => ResultTells
  BY DEF FullInv
<1>2. QED
  BY <1>1, FullInvHolds, PTL
=============================================================================
