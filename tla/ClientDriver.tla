---------------------------- MODULE ClientDriver ----------------------------
(***************************************************************************)
(* command_client (cmd/chaosmania/client.go): validate the flags and the   *)
(* plan, settle how often each phase is to be repeated, then drive the     *)
(* pattern executor of PhasePattern until it answers -1 or a phase fails.  *)
(*                                                                         *)
(* executePhase is one call here: StartPhase enters it, PhaseReturns takes *)
(* its result.  PhaseRun opens it up.                                      *)
(***************************************************************************)
EXTENDS PhasePattern, Functions

CONSTANTS
  MaxRepeatsPerPhase,  \* the constant of the same name, 500 in the code
  MaxPhases,           \* bound on the number of phases of a plan
  PlanRepeats,         \* values of "repeat:" in the plans considered
  PlanPatterns,        \* values of "pattern:" ("" when the key is absent)
  RepeatFlags,         \* values of --repeats-per-phase
  PatternFlags,        \* values of --phase-pattern ("" when absent)
  Defects              \* which of DefectKinds the inputs may have

DefectKinds == {"none", "duration", "plan", "header"}

ASSUME DriverAssumption ==
  /\ MaxRepeatsPerPhase \in Nat \ {0}
  /\ MaxPhases \in Nat
  /\ PlanRepeats \subseteq Nat
  /\ RepeatFlags \subseteq Int
  /\ Defects \subseteq DefectKinds

VARIABLES
  plan,      \* the loaded plan: pattern and repeat of each phase
  flags,     \* the command line
  pc,        \* where command_client is
  outcome,   \* how it returned
  pattern,   \* the kind of patternExecutor
  repeats,   \* phaseRepeats
  current,   \* currentPhase
  execs      \* phaseExecutions

inputs == <<plan, flags>>
vars == <<plan, flags, pc, outcome, pattern, repeats, current, execs>>

(* NewPhaseRepeats *)
NewPhaseRepeats(default) ==
  [DefaultRepeat |-> default, PhaseRepeats |-> [i \in {} |-> 0]]

Init ==
  /\ \E n \in 0..MaxPhases :
       plan \in [repeat : [0..(n-1) -> PlanRepeats], pattern : PlanPatterns]
  /\ flags \in [repeats : RepeatFlags, pattern : PatternFlags, defect : Defects]
  /\ pc = "start"
  /\ outcome = "none"
  /\ pattern = "sequence"
  /\ repeats = NewPhaseRepeats(1)
  /\ current = 0
  /\ execs = [i \in {} |-> 0]

Phases == DOMAIN plan.repeat

(* Every check of command_client that returns an error: the bounds of the
   repeat flag, time.ParseDuration and the bounds of the runtime duration,
   loadPlan (unreadable, unparsable or unverifiable plan), the pattern flag *)
ArgumentsValid ==
  /\ flags.repeats >= -1
  /\ flags.repeats <= MaxRepeatsPerPhase
  /\ flags.defect \notin {"duration", "plan"}
  /\ flags.pattern \in Patterns \cup {""}

(* A header without ":" makes parts[1] panic; without a phase the first
   read of phaseExecutions[0] does. *)
ArgumentsPanic == flags.defect = "header" \/ Phases = {}

Clamp(repeat) ==
  IF repeat <= 0 THEN 1
  ELSE IF repeat > MaxRepeatsPerPhase THEN MaxRepeatsPerPhase
  ELSE repeat

(* The repeat table: 0 asks for the maximum, a positive flag overrides the
   plan, -1 takes the plan's values, normalised *)
RepeatsInForce ==
  IF flags.repeats = 0 THEN NewPhaseRepeats(MaxRepeatsPerPhase)
  ELSE IF flags.repeats > 0 THEN NewPhaseRepeats(flags.repeats)
  ELSE [DefaultRepeat |-> 1,
        PhaseRepeats  |-> [i \in Phases |-> Clamp(plan.repeat[i])]]

(* plan.Pattern is not validated: only the flag is *)
PatternInForce ==
  ExecutorFor(IF flags.pattern # "" THEN flags.pattern ELSE plan.pattern)

Return(how) == pc' = "done" /\ outcome' = how

RejectArguments ==
  /\ pc = "start"
  /\ ~ArgumentsValid
  /\ Return("rejected")
  /\ UNCHANGED <<inputs, pattern, repeats, current, execs>>

PanicOnArguments ==
  /\ pc = "start"
  /\ ArgumentsValid
  /\ ArgumentsPanic
  /\ Return("panic")
  /\ UNCHANGED <<inputs, pattern, repeats, current, execs>>

Start ==
  /\ pc = "start"
  /\ ArgumentsValid
  /\ ~ArgumentsPanic
  /\ pattern' = PatternInForce
  /\ repeats' = RepeatsInForce
  /\ current' = 0
  /\ execs' = [i \in Phases |-> 0]
  /\ pc' = "loop"
  /\ UNCHANGED <<inputs, outcome>>

(* nextPhase: -1 ends the command, anything else is the next phase *)
Follow(next) ==
  \/ /\ next = Stop
     /\ Return("completed")
     /\ UNCHANGED current
  \/ /\ next # Stop
     /\ current' = next
     /\ pc' = "loop"
     /\ UNCHANGED outcome

(* The check at the top of the loop *)
SkipCompletePhase ==
  /\ pc = "loop"
  /\ PhaseComplete(current, execs, repeats)
  /\ \E next \in NextPhase(pattern, current, execs, repeats) : Follow(next)
  /\ UNCHANGED <<inputs, pattern, repeats, execs>>

StartPhase ==
  /\ pc = "loop"
  /\ ~PhaseComplete(current, execs, repeats)
  /\ pc' = "phase"
  /\ UNCHANGED <<inputs, outcome, pattern, repeats, current, execs>>

(* Faulty variant: an execution that was cut short is not counted.         *)
PhaseReturnsCountingNil(err) ==
  /\ pc = "phase"
  /\ execs' = IF err = "nil" THEN [execs EXCEPT ![current] = @ + 1] ELSE execs
  /\ IF err = "error"
     THEN Return("failed")
     ELSE pc' = "advance" /\ UNCHANGED outcome
  /\ UNCHANGED <<inputs, pattern, repeats, current>>

(* executePhase returns; the execution is counted before the error is
   looked at, and DeadlineExceeded is not an error *)
PhaseReturns(err) ==
  /\ pc = "phase"
  /\ execs' = [execs EXCEPT ![current] = @ + 1]
  /\ IF err = "error"
     THEN Return("failed")
     ELSE pc' = "advance" /\ UNCHANGED outcome
  /\ UNCHANGED <<inputs, pattern, repeats, current>>

StayOnPhase ==
  /\ pc = "advance"
  /\ ~ShouldAdvancePhase(pattern, current, execs, repeats)
  /\ pc' = "loop"
  /\ UNCHANGED <<inputs, outcome, pattern, repeats, current, execs>>

Advance ==
  /\ pc = "advance"
  /\ ShouldAdvancePhase(pattern, current, execs, repeats)
  /\ \E next \in NextPhase(pattern, current, execs, repeats) : Follow(next)
  /\ UNCHANGED <<inputs, pattern, repeats, execs>>

(* command_client has returned *)
Returned == pc = "done" /\ UNCHANGED vars

PhaseResults == {"nil", "DeadlineExceeded", "error"}

Drive == RejectArguments \/ PanicOnArguments \/ Start
         \/ SkipCompletePhase \/ StartPhase \/ StayOnPhase \/ Advance

Next ==
  \/ Drive
  \/ \E err \in PhaseResults : PhaseReturns(err)
  \/ Returned

Spec == Init /\ [][Next]_vars

(* The loop never waits except inside executePhase, so the driver's own
   steps are weakly fair.  That a phase returns is an assumption about
   executePhase, which PhaseRun examines. *)
Fairness ==
  /\ WF_vars(Drive)
  /\ WF_vars(\E err \in PhaseResults : PhaseReturns(err))

FairSpec == Spec /\ Fairness

-----------------------------------------------------------------------------

Repeat(i) == GetRepeat(repeats, i)

(* The types of the variables, and the range of currentPhase once the loop
   is entered: no read of phaseExecutions is out of range.                 *)
TypeOK ==
  /\ plan.repeat \in [Phases -> PlanRepeats]
  /\ \E n \in 0..MaxPhases : Phases = 0..(n-1)
  /\ flags.repeats \in RepeatFlags
  /\ pc \in {"start", "loop", "phase", "advance", "done"}
  /\ outcome \in {"none", "completed", "failed", "rejected", "panic"}
  /\ pattern \in Patterns
  /\ repeats.DefaultRepeat \in 1..MaxRepeatsPerPhase
  /\ DOMAIN repeats.PhaseRepeats \subseteq Phases
  /\ \A i \in DOMAIN repeats.PhaseRepeats :
       repeats.PhaseRepeats[i] \in 1..MaxRepeatsPerPhase
  /\ DOMAIN execs \subseteq Phases
  /\ \A i \in DOMAIN execs : execs[i] \in Nat
  /\ pc \in {"loop", "phase", "advance"} =>
       DOMAIN execs = Phases /\ current \in Phases

(* The command reports success only if it executed every phase of the plan
   exactly as often as the table asks, and no interleaving of patterns,
   skips and repeats ever executes a phase once too often.                 *)
RepeatsExact ==
  /\ \A i \in DOMAIN execs : execs[i] <= Repeat(i)
  /\ outcome = "completed" => \A i \in Phases : execs[i] = Repeat(i)

(* What the driver promises, PhaseSchedule, is what the loop does: it begins
   with the repeats and the pattern that flags and plan ask for, and each
   execution is of a phase that is due under the pattern, although the
   cycle executor itself hands out complete phases and relies on the check
   at the top of the loop, and the sequence executor relies on never being
   asked while an earlier phase is incomplete.                             *)
ScheduleStatus ==
  IF pc = "start" THEN "pending"
  ELSE IF pc # "done" THEN "running"
  ELSE IF outcome = "panic" THEN "rejected"
  ELSE outcome

ScheduleRepeat == [i \in DOMAIN execs |-> Repeat(i)]

Schedule == INSTANCE PhaseSchedule WITH
  status <- ScheduleStatus, repeat <- ScheduleRepeat

ImplementsSchedule == Schedule!Spec

(* The executions that the repeat table still asks for *)
Left == SumFunctionOnSet([i \in DOMAIN execs |-> Repeat(i) - execs[i]], DOMAIN execs)

(* The most complete phases the loop can pass before it finds one to
   execute: it may have to go round once.                                  *)
Skips ==
  IF ~PhaseComplete(current, execs, repeats) THEN 0
  ELSE IF \E i \in DOMAIN execs : i > current /\ ~PhaseComplete(i, execs, repeats)
       THEN MaxPhases - current
       ELSE 2 * MaxPhases - current

StepsAhead ==
  CASE pc = "phase"   -> 0
    [] pc = "loop"    -> 1 + Skips
    [] pc = "advance" -> 2 * MaxPhases + 2

(* Every step of the loop comes nearer to its end, whatever the pattern: an
   execution leaves one less to do, and between two executions the loop makes
   boundedly many steps.                                                   *)
LoopAdvances ==
  [][(pc \in {"loop", "phase", "advance"} /\ pc' # "done") =>
       /\ Left' >= 0 /\ StepsAhead' >= 0
       /\ Left' < Left \/ (Left' = Left /\ StepsAhead' < StepsAhead)]_vars

(* If every phase returns, the command returns: the skips of complete
   phases at the top of the loop do not go round for ever.                 *)
CommandReturns == <>(pc = "done")
=============================================================================
