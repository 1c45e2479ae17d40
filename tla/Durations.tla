----------------------------- MODULE Durations -----------------------------
(***************************************************************************)
(* pkg/actions/durations.go: how long each execution of a phase may take.  *)
(*                                                                         *)
(* phases maps the phase indices 0..n-1 to the durations of the phase's    *)
(* worker groups, repeats is a *PhaseRepeats, runtime the runtime-duration *)
(* flag (0: not given) and adjusted AdjustedRuntimeDuration.  A duration   *)
(* is a number of time units; the code's is an int64 of nanoseconds.       *)
(***************************************************************************)
EXTENDS PhasePattern, Sequences, FiniteSetsExt

CONSTANTS
  MinPhaseDuration,  \* pkg.MinPhaseDuration, one minute
  MaxPhaseDuration,  \* pkg.MaxPhaseDuration, 28 days
  Int64              \* 2^63 nanoseconds in time units

ASSUME DurationsAssumption ==
  /\ MinPhaseDuration \in Nat \ {0}
  /\ MaxPhaseDuration \in Nat /\ MinPhaseDuration <= MaxPhaseDuration
  /\ Int64 \in Nat /\ Int64 > MaxPhaseDuration

(* The value an int64 keeps of x *)
Wrap(x) == ((x + Int64) % (2 * Int64)) - Int64

Bounded(low, x, high) == IF x < low THEN low ELSE IF x > high THEN high ELSE x

(* PhaseRepeats.GetTotalRepeats *)
GetTotalRepeats(repeats, phases) ==
  SumFunction([i \in DOMAIN phases |-> GetRepeat(repeats, i)])

(* Faulty variant: no minimum per execution.                               *)
AdjustedDownOnly(phases, repeats, runtime) ==
  IF runtime > MaxPhaseDuration THEN MaxPhaseDuration ELSE runtime

(* NewPhaseDurations.  The minimum comes first: it holds even when all the
   executions together need more than the maximum. *)
AdjustedRuntimeDuration(phases, repeats, runtime) ==
  LET minTotalRuntime == Wrap(MinPhaseDuration * GetTotalRepeats(repeats, phases))
  IN  IF runtime = 0 THEN 0
      ELSE IF runtime < minTotalRuntime THEN minTotalRuntime
      ELSE IF runtime > MaxPhaseDuration THEN MaxPhaseDuration
      ELSE runtime

(* Faulty variant: the last group's duration instead of the longest one.   *)
LastWorker(durations) == IF durations = <<>> THEN 0 ELSE durations[Len(durations)]

(* The worker durations are at least the minimum (Plan.Verify), so the
   default for a missing one never applies. *)
LongestWorker(durations) == Max({0} \cup {durations[j] : j \in DOMAIN durations})


(* GetPhaseDuration, of a phase that is not cached *)
PhaseDuration(phases, repeats, runtime, adjusted, i) ==
  Bounded(MinPhaseDuration,
          IF runtime > 0 THEN adjusted \div GetTotalRepeats(repeats, phases)
          ELSE LongestWorker(phases[i]),
          MaxPhaseDuration)

(* The time all executions of each phase may take *)
PhaseTotals(phases, repeats, runtime, adjusted) ==
  [i \in DOMAIN phases |->
     GetRepeat(repeats, i) * PhaseDuration(phases, repeats, runtime, adjusted, i)]

(* GetTotalDuration *)
TotalDuration(phases, repeats, runtime, adjusted) ==
  IF runtime > 0 THEN adjusted
  ELSE Wrap(SumFunction(PhaseTotals(phases, repeats, runtime, adjusted)))
=============================================================================
