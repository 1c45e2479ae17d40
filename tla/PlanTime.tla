------------------------------ MODULE PlanTime ------------------------------
(***************************************************************************)
(* The time a run of the client is announced to take and the time its      *)
(* phases get: command_client (cmd/chaosmania/client.go) builds the        *)
(* PhaseDurations, the reporter announces the total, and then every        *)
(* execution of a phase is given a context with its phase's duration.      *)
(*                                                                         *)
(* This is ClientDriver with the durations: its steps are steps of the     *)
(* driver, and what they do to the time.  What a phase does with its time  *)
(* is PhaseRun's subject.                                                  *)
(***************************************************************************)
EXTENDS ClientDriver, Durations

CONSTANTS
  PlanWorkers,  \* the durations of a phase's worker groups, in the plans considered
  Runtimes      \* the values of --runtime-duration, 0 when absent

(* Plan.Verify bounds the durations of the workers, command_client those of
   the flag. *)
ASSUME PlanTimeAssumption ==
  /\ PlanWorkers \subseteq Seq(MinPhaseDuration..MaxPhaseDuration)
  /\ Runtimes \subseteq {0} \cup MinPhaseDuration..MaxPhaseDuration

VARIABLES
  workers,          \* the durations of each phase's worker groups
  runtime,          \* PhaseDurations.RuntimeDuration
  adjusted,         \* PhaseDurations.AdjustedRuntimeDuration
  cachedDurations,  \* PhaseDurations.cachedDurations
  announced,        \* the total runtime LogPlanSummary shows
  given             \* history: the time the contexts of the executions allowed

timing == <<workers, runtime, adjusted, cachedDurations, announced>>
timedVars == <<vars, timing, given>>

TimedInit ==
  /\ Init
  /\ workers \in [Phases -> PlanWorkers]
  /\ runtime \in Runtimes
  /\ adjusted = 0
  /\ cachedDurations = [i \in {} |-> 0]
  /\ announced = 0
  /\ given = 0

(* GetPhaseDuration: the value computed first is kept. *)
GetPhaseDuration(i) ==
  IF i \in DOMAIN cachedDurations THEN cachedDurations[i]
  ELSE PhaseDuration(workers, repeats, runtime, adjusted, i)

(* NewPhaseDurations, and LogPlanSummary, which asks for the duration of
   every phase *)
TimedStart ==
  /\ Start
  /\ adjusted' = AdjustedRuntimeDuration(workers, repeats', runtime)
  /\ announced' = TotalDuration(workers, repeats', runtime, adjusted')
  /\ cachedDurations' =
       [i \in Phases |-> PhaseDuration(workers, repeats', runtime, adjusted', i)]
  /\ UNCHANGED <<workers, runtime, given>>

(* The context of the execution is made. *)
TimedStartPhase ==
  /\ StartPhase
  /\ given' = given + GetPhaseDuration(current)
  /\ UNCHANGED timing

Untimed ==
  /\ \/ RejectArguments \/ PanicOnArguments \/ SkipCompletePhase \/ StayOnPhase
     \/ Advance \/ Returned
     \/ \E err \in PhaseResults : PhaseReturns(err)
  /\ UNCHANGED <<timing, given>>

TimedNext == TimedStart \/ TimedStartPhase \/ Untimed

TimedSpec == TimedInit /\ [][TimedNext]_timedVars

-----------------------------------------------------------------------------

(* The types of the variables; a phase's duration is within the limits the
   package states for any phase. *)
TimedTypeOK ==
  /\ workers \in [Phases -> PlanWorkers]
  /\ runtime \in Runtimes
  /\ adjusted \in 0..(Int64 - 1)
  /\ cachedDurations \in UNION {[S -> MinPhaseDuration..MaxPhaseDuration] : S \in {{}, Phases}}
  /\ announced \in (-Int64)..(Int64 - 1)
  /\ given \in Nat

(* Nanoseconds are counted in an int64: with eight phases of 28 days and 500
   repeats each the total no longer fits. *)
Fits ==
  IF runtime > 0
  THEN MinPhaseDuration * GetTotalRepeats(repeats, workers) < Int64
  ELSE SumFunction(PhaseTotals(workers, repeats, runtime, adjusted)) < Int64

(* Whatever order the pattern takes, whatever was rounded or bounded and
   however the command ends, its phases never get more time than the
   announced total, and when it completes the rounding has lost less than
   one time unit for every execution.                                      *)
BudgetKept ==
  Fits =>
    /\ given <= announced
    /\ outcome = "completed" => announced - given < GetTotalRepeats(repeats, workers)

(* Without a runtime override, no worker group outlives its phase: the
   context of the phase is not done before the context of a group that was
   started with it.                                                        *)
GroupsFitTheirPhase ==
  runtime = 0 =>
    \A i \in DOMAIN cachedDurations : \A j \in DOMAIN workers[i] :
      workers[i][j] <= cachedDurations[i]
=============================================================================
