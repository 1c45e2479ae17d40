---------------------------- MODULE PhasePattern ----------------------------
(***************************************************************************)
(* pkg/actions/pattern.go: the three phase-pattern executors and the       *)
(* repeat table they consult.                                              *)
(*                                                                         *)
(* execs is phaseExecutions, a function from the phase indices 0..n-1 to   *)
(* the number of times each phase was executed.  repeats is a              *)
(* *PhaseRepeats: a default and a map that overrides it for some phases.   *)
(* rand.Intn of the random executor is nondeterminism, so NextPhase is the *)
(* set of the phases the executor may answer; Stop is its -1.              *)
(***************************************************************************)
EXTENDS Integers

Patterns == {"sequence", "cycle", "random"}

Stop == -1

(* PhaseRepeats.GetRepeat *)
GetRepeat(repeats, i) ==
  IF i \in DOMAIN repeats.PhaseRepeats
  THEN repeats.PhaseRepeats[i]
  ELSE repeats.DefaultRepeat

PhaseComplete(i, execs, repeats) == execs[i] >= GetRepeat(repeats, i)

(* IsComplete, the same loop in the three executors *)
IsComplete(execs, repeats) ==
  \A i \in DOMAIN execs : PhaseComplete(i, execs, repeats)

(* Faulty variant: off by one, the last phase is never reached.            *)
SequenceNextSkipsLast(current, execs, repeats) ==
  IF ~PhaseComplete(current, execs, repeats) THEN {current}
  ELSE IF current + 2 \notin DOMAIN execs THEN {Stop}
  ELSE {current + 1}

SequenceNext(current, execs, repeats) ==
  IF ~PhaseComplete(current, execs, repeats) THEN {current}
  ELSE IF current + 1 \notin DOMAIN execs THEN {Stop}
  ELSE {current + 1}

(* (current + 1) % numPhases; current is always below numPhases *)
CycleSuccessor(current, execs) ==
  IF current + 1 \in DOMAIN execs THEN current + 1 ELSE 0

(* Faulty variant: the executor never asks whether every phase is complete. *)
CycleNextForgetsCompletion(current, execs, repeats) ==
  {CycleSuccessor(current, execs)}

CycleNext(current, execs, repeats) ==
  IF PhaseComplete(current, execs, repeats) /\ IsComplete(execs, repeats)
  THEN {Stop}
  ELSE {CycleSuccessor(current, execs)}

RandomNext(execs, repeats) ==
  LET available == {i \in DOMAIN execs : ~PhaseComplete(i, execs, repeats)}
  IN  IF available = {} THEN {Stop} ELSE available

NextPhase(pattern, current, execs, repeats) ==
  CASE pattern = "sequence" -> SequenceNext(current, execs, repeats)
    [] pattern = "cycle"    -> CycleNext(current, execs, repeats)
    [] pattern = "random"   -> RandomNext(execs, repeats)

(* Faulty variant: every executor stays on a phase until it is complete.   *)
ShouldAdvanceWhenComplete(pattern, current, execs, repeats) ==
  PhaseComplete(current, execs, repeats)

(* ShouldAdvancePhase: only the sequence executor ever says no *)
ShouldAdvancePhase(pattern, current, execs, repeats) ==
  pattern = "sequence" => PhaseComplete(current, execs, repeats)

(* NewPatternExecutor: an unknown name gets the sequence executor *)
ExecutorFor(pattern) == IF pattern \in Patterns THEN pattern ELSE "sequence"
=============================================================================
