---------------------------- MODULE ClientProofs ----------------------------
(***************************************************************************)
(* Proofs about ClientDriver and PlanTime, for every number of phases,     *)
(* every repeat table, every pattern and every duration.                   *)
(***************************************************************************)
EXTENDS PlanTime, SumTheorems

LEMMA RepeatsInForceType ==
  ASSUME TypeOK, ArgumentsValid
  PROVE  /\ RepeatsInForce.DefaultRepeat \in 1..MaxRepeatsPerPhase
         /\ DOMAIN RepeatsInForce.PhaseRepeats \subseteq Phases
         /\ \A i \in DOMAIN RepeatsInForce.PhaseRepeats :
              RepeatsInForce.PhaseRepeats[i] \in 1..MaxRepeatsPerPhase
<1>1. flags.repeats \in Int /\ flags.repeats >= -1
      /\ flags.repeats <= MaxRepeatsPerPhase
  BY DriverAssumption DEF TypeOK, ArgumentsValid
<1>2. CASE flags.repeats >= 0
  <2>1. PICK d \in 1..MaxRepeatsPerPhase : RepeatsInForce = NewPhaseRepeats(d)
    BY <1>1, <1>2, DriverAssumption DEF RepeatsInForce
  <2>2. QED
    BY <2>1 DEF NewPhaseRepeats
<1>3. CASE flags.repeats = -1
  <2>1. ASSUME NEW i \in Phases PROVE Clamp(plan.repeat[i]) \in 1..MaxRepeatsPerPhase
    <3>1. plan.repeat[i] \in Nat
      BY <2>1, DriverAssumption DEF TypeOK
    <3>2. QED
      BY <3>1, DriverAssumption DEF Clamp
  <2>2. RepeatsInForce = [DefaultRepeat |-> 1,
                          PhaseRepeats  |-> [i \in Phases |-> Clamp(plan.repeat[i])]]
    BY <1>3 DEF RepeatsInForce
  <2>3. QED
    BY <2>1, <2>2, DriverAssumption
<1>4. QED
  BY <1>1, <1>2, <1>3

(* What NextPhase may answer: Stop or a phase. *)
LEMMA NextPhaseRange ==
  ASSUME TypeOK, pc \in {"loop", "advance"},
         NEW next \in NextPhase(pattern, current, execs, repeats)
  PROVE  next \in Phases \cup {Stop}
<1>1. DOMAIN execs = Phases /\ current \in Phases /\ pattern \in Patterns
  BY DEF TypeOK
<1>2. 0 \in Phases
  BY <1>1 DEF TypeOK
<1>3. QED
  BY <1>1, <1>2
     DEF NextPhase, Patterns, SequenceNext, CycleNext, CycleSuccessor, RandomNext

LEMMA FollowType ==
  ASSUME TypeOK, pc \in {"loop", "advance"},
         \E next \in NextPhase(pattern, current, execs, repeats) : Follow(next),
         UNCHANGED <<inputs, pattern, repeats, execs>>
  PROVE  TypeOK'
<1>1. PICK next \in NextPhase(pattern, current, execs, repeats) : Follow(next)
  OBVIOUS
<1>2. next \in Phases \cup {Stop}
  BY <1>1, NextPhaseRange
<1>3. Phases' = Phases
  BY DEF Phases, inputs
<1>4. QED
  BY <1>1, <1>2, <1>3 DEF TypeOK, Follow, Return, inputs

LEMMA InitTypeOK == Init => TypeOK
<1> SUFFICES ASSUME Init PROVE TypeOK
  OBVIOUS
<1>1. PICK n \in 0..MaxPhases :
        plan \in [repeat : [0..(n-1) -> PlanRepeats], pattern : PlanPatterns]
  BY DEF Init
<1>2. plan.repeat \in [Phases -> PlanRepeats] /\ Phases = 0..(n-1)
  BY <1>1 DEF Phases
<1>3. flags.repeats \in RepeatFlags
  BY DEF Init
<1>4. /\ repeats.DefaultRepeat \in 1..MaxRepeatsPerPhase
      /\ DOMAIN repeats.PhaseRepeats = {}
  BY DriverAssumption DEF Init, NewPhaseRepeats
<1>5. DOMAIN execs = {} /\ pc = "start" /\ outcome = "none" /\ pattern \in Patterns
  BY DEF Init, Patterns
<1>6. \E k \in 0..MaxPhases : Phases = 0..(k-1)
  BY <1>2
<1>7. QED
  BY <1>2, <1>3, <1>4, <1>5, <1>6 DEF TypeOK

LEMMA NextTypeOK == TypeOK /\ [Next]_vars => TypeOK'
<1> SUFFICES ASSUME TypeOK, [Next]_vars PROVE TypeOK'
  OBVIOUS
<1> USE DEF inputs
<1>1. CASE RejectArguments
  BY <1>1 DEF RejectArguments, Return, TypeOK, Phases
<1>2. CASE PanicOnArguments
  BY <1>2 DEF PanicOnArguments, Return, TypeOK, Phases
<1>3. CASE Start
  <2>1. pattern' \in Patterns
    BY <1>3 DEF Start, PatternInForce, ExecutorFor, Patterns
  <2>2. Phases' = Phases /\ 0 \in Phases
    BY <1>3 DEF Start, ArgumentsPanic, Phases, TypeOK
  <2>3. /\ repeats'.DefaultRepeat \in 1..MaxRepeatsPerPhase
        /\ DOMAIN repeats'.PhaseRepeats \subseteq Phases
        /\ \A i \in DOMAIN repeats'.PhaseRepeats :
             repeats'.PhaseRepeats[i] \in 1..MaxRepeatsPerPhase
    BY <1>3, RepeatsInForceType DEF Start
  <2>4. QED
    BY <1>3, <2>1, <2>2, <2>3 DEF Start, TypeOK
<1>4. CASE SkipCompletePhase
  BY <1>4, FollowType DEF SkipCompletePhase
<1>5. CASE StartPhase
  BY <1>5 DEF StartPhase, TypeOK, Phases
<1>6. ASSUME NEW err \in PhaseResults, PhaseReturns(err) PROVE TypeOK'
  BY <1>6 DEF PhaseReturns, Return, TypeOK, Phases
<1>7. CASE StayOnPhase
  BY <1>7 DEF StayOnPhase, TypeOK, Phases
<1>8. CASE Advance
  BY <1>8, FollowType DEF Advance
<1>9. CASE UNCHANGED vars
  BY <1>9 DEF vars, TypeOK, Phases
<1>10. QED
  BY <1>1, <1>2, <1>3, <1>4, <1>5, <1>6, <1>7, <1>8, <1>9
     DEF Next, Drive, Returned

(* Every variable keeps its type and currentPhase stays the index of a
   phase: the reads phaseExecutions[currentPhase] and
   plan.Phases[currentPhase] of the loop never go out of range, for a plan
   of any length. *)
THEOREM TypeCorrect == Spec => []TypeOK
<1>1. QED
  BY InitTypeOK, NextTypeOK, PTL DEF Spec

-----------------------------------------------------------------------------
(***************************************************************************)
(* The order of the executions.  The cycle executor keeps no round number: *)
(* the invariant behind it is that the incomplete phases below the cursor  *)
(* have been executed once more than the incomplete phases from the cursor *)
(* on, and equally often among themselves.  The sequence executor keeps    *)
(* every phase below the cursor complete.                                  *)
(***************************************************************************)
Incomplete(i) == execs[i] < Repeat(i)

Level(cursor) ==
  \A i, j \in Phases : Incomplete(i) /\ Incomplete(j) =>
    /\ i < cursor /\ cursor <= j => execs[i] = execs[j] + 1
    /\ i < cursor /\ j < cursor => execs[i] = execs[j]
    /\ cursor <= i /\ cursor <= j => execs[i] = execs[j]

Ordered ==
  /\ pattern = "sequence" => \A i \in Phases : i < current => ~Incomplete(i)
  /\ pattern = "cycle" => Level(IF pc = "advance" THEN current + 1 ELSE current)

Running == pc \in {"loop", "phase", "advance"}

DriverInv ==
  /\ TypeOK
  /\ RepeatsExact
  /\ Running => outcome = "none" /\ Ordered
  /\ outcome = "completed" => DOMAIN execs = Phases
  /\ pc = "phase" => Incomplete(current)
  /\ pc = "start" => /\ outcome = "none" /\ pattern = "sequence"
                     /\ execs = [i \in {} |-> 0]

LEMMA RepeatPositive ==
  ASSUME TypeOK, NEW i
  PROVE  Repeat(i) \in 1..MaxRepeatsPerPhase
BY DEF TypeOK, Repeat, GetRepeat

LEMMA CompleteIsNotIncomplete ==
  ASSUME TypeOK, NEW i \in DOMAIN execs
  PROVE  PhaseComplete(i, execs, repeats) <=> ~Incomplete(i)
<1>1. Repeat(i) \in 1..MaxRepeatsPerPhase
  BY RepeatPositive
<1>2. execs[i] \in Nat
  BY DEF TypeOK
<1>3. QED
  BY <1>1, <1>2, DriverAssumption DEF PhaseComplete, Incomplete, Repeat

(* The cursor passes a phase: because it was just executed, or because it
   is complete. *)
LEMMA LevelAfterSkip ==
  ASSUME TypeOK, current \in Phases, Level(current), ~Incomplete(current)
  PROVE  Level(current + 1)
<1>1. \A i \in Phases : i \in Int
  BY DEF TypeOK
<1>2. \A i \in Phases : Incomplete(i) => i # current
  OBVIOUS
<1>3. QED
  BY <1>1, <1>2 DEF Level

LEMMA LevelWrapsAround ==
  ASSUME TypeOK, current \in Phases, Level(current + 1), current + 1 \notin Phases
  PROVE  Level(0)
<1>1. \A i \in Phases : i \in Int /\ 0 <= i /\ i < current + 1
  BY DEF TypeOK
<1>2. QED
  BY <1>1 DEF Level

(* An answer of NextPhase leaves the phases in order, and -1 is only
   answered once every phase is complete. *)
LEMMA NextPhaseOrdered ==
  ASSUME DriverInv, pc \in {"loop", "advance"},
         pc = "loop" => PhaseComplete(current, execs, repeats),
         ShouldAdvancePhase(pattern, current, execs, repeats),
         NEW next \in NextPhase(pattern, current, execs, repeats)
  PROVE  /\ next = Stop => IsComplete(execs, repeats)
         /\ next # Stop =>
              /\ next \in Phases
              /\ pattern = "sequence" =>
                   \A i \in Phases : i < next => ~Incomplete(i)
              /\ pattern = "cycle" => Level(next)
<1>1. /\ TypeOK /\ Ordered /\ current \in Phases /\ DOMAIN execs = Phases
      /\ pattern \in Patterns
  BY DEF DriverInv, TypeOK, Running
<1>2. \A i \in Phases : i \in Int /\ 0 <= i /\ i # Stop
  BY <1>1 DEF TypeOK, Stop
<1>3. \A i \in Phases : PhaseComplete(i, execs, repeats) <=> ~Incomplete(i)
  BY <1>1, CompleteIsNotIncomplete
<1>4. \A i \in Phases : i > current => current + 1 \in Phases
  BY <1>1 DEF TypeOK
<1>5. CASE pattern = "sequence"
  <2>1. \A i \in Phases : i <= current => ~Incomplete(i)
    BY <1>1, <1>2, <1>3, <1>5 DEF ShouldAdvancePhase, Ordered
  <2>2. next \in SequenceNext(current, execs, repeats)
    BY <1>5 DEF NextPhase
  <2>3. PhaseComplete(current, execs, repeats)
    BY <1>5 DEF ShouldAdvancePhase
  <2>4. CASE current + 1 \in Phases
    <3>1. next = current + 1
      BY <1>1, <2>2, <2>3, <2>4 DEF SequenceNext
    <3>2. QED
      BY <1>2, <1>5, <2>1, <2>4, <3>1, <1>1
  <2>5. CASE current + 1 \notin Phases
    <3>1. next = Stop
      BY <1>1, <2>2, <2>3, <2>5 DEF SequenceNext
    <3>2. \A i \in Phases : i <= current
      BY <1>1, <1>2, <1>4, <2>5
    <3>3. QED
      BY <1>1, <1>3, <2>1, <3>1, <3>2 DEF IsComplete
  <2>6. QED
    BY <2>4, <2>5
<1>6. CASE pattern = "cycle"
  <2>1. next \in CycleNext(current, execs, repeats)
    BY <1>6 DEF NextPhase
  <2>2. Level(current + 1)
    BY <1>1, <1>3, <1>6, LevelAfterSkip DEF Ordered
  <2>3. next = Stop \/ next = CycleSuccessor(current, execs)
    BY <2>1 DEF CycleNext
  <2>4. CASE next = Stop
    BY <1>1, <1>2, <2>1, <2>4 DEF CycleNext, CycleSuccessor, Stop, TypeOK
  <2>5. CASE next = CycleSuccessor(current, execs)
    <3>1. 0 \in Phases
      BY <1>1 DEF TypeOK
    <3>2. next \in Phases /\ Level(next)
      BY <1>1, <2>2, <2>5, <3>1, LevelWrapsAround DEF CycleSuccessor
    <3>3. QED
      BY <1>2, <1>6, <3>2
  <2>6. QED
    BY <2>3, <2>4, <2>5
<1>7. CASE pattern = "random"
  <2>1. next \in RandomNext(execs, repeats)
    BY <1>7 DEF NextPhase
  <2>2. QED
    BY <1>1, <1>2, <1>7, <2>1 DEF RandomNext, IsComplete
<1>8. QED
  BY <1>1, <1>5, <1>6, <1>7 DEF Patterns

LEMMA InitDriverInv == Init => DriverInv
<1> SUFFICES ASSUME Init PROVE DriverInv
  OBVIOUS
<1>1. TypeOK
  BY InitTypeOK
<1>2. RepeatsExact
  BY DEF Init, RepeatsExact
<1>3. QED
  BY <1>1, <1>2 DEF Init, DriverInv, Running

(* A step that leaves the table and the counters alone leaves every Repeat,
   Incomplete and Level alone. *)
LEMMA CountersUnchanged ==
  ASSUME UNCHANGED <<inputs, repeats, execs>>
  PROVE  /\ Phases' = Phases
         /\ \A i : Repeat(i)' = Repeat(i) /\ Incomplete(i)' = Incomplete(i)
         /\ \A m : Level(m)' = Level(m)
<1>1. Phases' = Phases
  BY DEF inputs, Phases
<1>2. \A i : Repeat(i)' = Repeat(i) /\ Incomplete(i)' = Incomplete(i)
  BY DEF Repeat, Incomplete, GetRepeat
<1>3. QED
  BY <1>1, <1>2 DEF Level

LEMMA FollowDriverInv ==
  ASSUME DriverInv, TypeOK', pc \in {"loop", "advance"},
         pc = "loop" => PhaseComplete(current, execs, repeats),
         ShouldAdvancePhase(pattern, current, execs, repeats),
         \E next \in NextPhase(pattern, current, execs, repeats) : Follow(next),
         UNCHANGED <<inputs, pattern, repeats, execs>>
  PROVE  DriverInv'
<1>1. PICK next \in NextPhase(pattern, current, execs, repeats) : Follow(next)
  OBVIOUS
<1>2. /\ next = Stop => IsComplete(execs, repeats)
      /\ next # Stop =>
           /\ next \in Phases
           /\ pattern = "sequence" =>
                \A i \in Phases : i < next => ~Incomplete(i)
           /\ pattern = "cycle" => Level(next)
  BY NextPhaseOrdered
<1>3. /\ TypeOK /\ RepeatsExact /\ outcome = "none" /\ DOMAIN execs = Phases
  BY DEF DriverInv, Running, TypeOK
<1>4. /\ Phases' = Phases
      /\ \A i : Repeat(i)' = Repeat(i) /\ Incomplete(i)' = Incomplete(i)
      /\ \A m : Level(m)' = Level(m)
  BY CountersUnchanged
<1>5. CASE next = Stop
  <2>1. pc' = "done" /\ outcome' = "completed"
    BY <1>1, <1>5 DEF Follow, Return
  <2>2. \A i \in Phases : execs[i] = Repeat(i)
    <3>1. ASSUME NEW i \in Phases PROVE execs[i] = Repeat(i)
      <4>1. execs[i] \in Nat /\ execs[i] <= Repeat(i)
        BY <1>3 DEF TypeOK, RepeatsExact
      <4>2. ~Incomplete(i)
        BY <1>2, <1>3, <1>5, CompleteIsNotIncomplete DEF IsComplete
      <4>3. Repeat(i) \in 1..MaxRepeatsPerPhase
        BY <1>3, RepeatPositive
      <4>4. QED
        BY <4>1, <4>2, <4>3, DriverAssumption DEF Incomplete
    <3>2. QED
      BY <3>1
  <2>3. RepeatsExact'
    BY <1>3, <1>4, <2>2 DEF RepeatsExact
  <2>4. QED
    BY <1>3, <1>4, <2>1, <2>3 DEF DriverInv, Running
<1>6. CASE next # Stop
  <2>1. pc' = "loop" /\ outcome' = "none" /\ current' = next
    BY <1>1, <1>3, <1>6 DEF Follow
  <2>2. Ordered'
    BY <1>2, <1>4, <1>6, <2>1 DEF Ordered
  <2>3. RepeatsExact'
    BY <1>3, <1>4, <2>1 DEF RepeatsExact
  <2>4. QED
    BY <2>1, <2>2, <2>3 DEF DriverInv, Running
<1>7. QED
  BY <1>5, <1>6

LEMMA StartDriverInv == DriverInv /\ TypeOK' /\ Start => DriverInv'
<1> SUFFICES ASSUME DriverInv, TypeOK', Start PROVE DriverInv'
  OBVIOUS
<1>1. /\ Phases' = Phases /\ DOMAIN execs' = Phases
      /\ \A i \in Phases : execs'[i] = 0
      /\ current' = 0 /\ pc' = "loop" /\ outcome' = "none"
  BY DEF Start, inputs, Phases, DriverInv
<1>2. \A i : Repeat(i)' \in 1..MaxRepeatsPerPhase
  <2>1. TypeOK' => \A i : Repeat(i)' \in 1..MaxRepeatsPerPhase
    BY DEF TypeOK, Repeat, GetRepeat
  <2>2. QED
    BY <2>1
<1>3. RepeatsExact'
  BY <1>1, <1>2, DriverAssumption DEF RepeatsExact
<1>4. \A i \in Phases : i \in Int /\ 0 <= i
  BY DEF DriverInv, TypeOK
<1>5. Ordered'
  BY <1>1, <1>4 DEF Ordered, Level
<1>6. QED
  BY <1>1, <1>3, <1>5 DEF DriverInv, Running

(* The counting step: the phase that was executed was incomplete, so its
   counter does not pass the table, and the cursor has passed it. *)
LEMMA PhaseReturnsDriverInv ==
  ASSUME DriverInv, TypeOK', NEW err \in PhaseResults, PhaseReturns(err)
  PROVE  DriverInv'
<1>1. /\ TypeOK /\ RepeatsExact /\ outcome = "none" /\ Ordered
      /\ DOMAIN execs = Phases /\ current \in Phases /\ Incomplete(current)
      /\ pc = "phase"
  BY DEF PhaseReturns, DriverInv, Running, TypeOK
<1>2. /\ Phases' = Phases
      /\ DOMAIN execs' = Phases
      /\ \A i : Repeat(i)' = Repeat(i)
      /\ execs'[current] = execs[current] + 1
      /\ \A i \in Phases : i # current => execs'[i] = execs[i]
      /\ current' = current /\ pattern' = pattern
  BY <1>1 DEF PhaseReturns, inputs, Phases, Repeat, GetRepeat
<1>3. \A i \in Phases : /\ execs[i] \in Int /\ Repeat(i) \in Int /\ i \in Int
  <2>1. ASSUME NEW i \in Phases
        PROVE  execs[i] \in Int /\ Repeat(i) \in Int /\ i \in Int
    <3>1. Repeat(i) \in 1..MaxRepeatsPerPhase
      BY <1>1, RepeatPositive
    <3>2. execs[i] \in Nat /\ i \in Int
      BY <1>1 DEF TypeOK
    <3>3. QED
      BY <3>1, <3>2, DriverAssumption
  <2>2. QED
    BY <2>1
<1>4. \A i \in Phases : execs'[i] <= Repeat(i)
  BY <1>1, <1>2, <1>3 DEF RepeatsExact, Incomplete
<1>5. \A i \in Phases : i # current => Incomplete(i)' = Incomplete(i)
  BY <1>2 DEF Incomplete
<1>6. \/ pc' = "done" /\ outcome' = "failed"
      \/ pc' = "advance" /\ outcome' = "none"
  BY <1>1 DEF PhaseReturns, Return
<1>7. RepeatsExact'
  BY <1>2, <1>4, <1>6 DEF RepeatsExact
<1>8. pattern = "sequence" => \A i \in Phases : i < current => ~Incomplete(i)'
  BY <1>1, <1>3, <1>5 DEF Ordered
<1>9. pattern = "cycle" => Level(current + 1)'
  <2> SUFFICES ASSUME pattern = "cycle",
                      NEW i \in Phases, NEW j \in Phases,
                      Incomplete(i)', Incomplete(j)'
               PROVE  /\ i < current + 1 /\ current + 1 <= j => execs'[i] = execs'[j] + 1
                      /\ i < current + 1 /\ j < current + 1 => execs'[i] = execs'[j]
                      /\ current + 1 <= i /\ current + 1 <= j => execs'[i] = execs'[j]
    BY <1>2 DEF Level
  <2>1. Level(current)
    BY <1>1 DEF Ordered
  <2>2. Incomplete(i) /\ Incomplete(j)
    BY <1>1, <1>5
  <2>3. /\ i < current /\ current <= j => execs[i] = execs[j] + 1
        /\ i < current /\ j < current => execs[i] = execs[j]
        /\ current <= i /\ current <= j => execs[i] = execs[j]
        /\ j < current => execs[j] = execs[current] + 1
        /\ i < current => execs[i] = execs[current] + 1
        /\ current <= i => execs[i] = execs[current]
        /\ current <= j => execs[j] = execs[current]
    BY <1>1, <1>3, <2>1, <2>2 DEF Level
  <2>4. QED
    BY <1>1, <1>2, <1>3, <2>3
<1>10. QED
  BY <1>1, <1>2, <1>6, <1>7, <1>8, <1>9 DEF DriverInv, Running, Ordered

LEMMA NextDriverInv == DriverInv /\ [Next]_vars => DriverInv'
<1> SUFFICES ASSUME DriverInv, [Next]_vars PROVE DriverInv'
  OBVIOUS
<1>1. TypeOK'
  BY NextTypeOK DEF DriverInv
<1>2. CASE RejectArguments \/ PanicOnArguments
  BY <1>1, <1>2, CountersUnchanged
     DEF RejectArguments, PanicOnArguments, Return, DriverInv, Running, RepeatsExact,
          inputs
<1>3. CASE Start
  BY <1>1, <1>3, StartDriverInv
<1>4. CASE SkipCompletePhase
  BY <1>1, <1>4, FollowDriverInv DEF SkipCompletePhase, ShouldAdvancePhase
<1>5. CASE StartPhase
  <2>1. Incomplete(current)
    BY <1>5, CompleteIsNotIncomplete DEF StartPhase, DriverInv, TypeOK
  <2>2. QED
    BY <1>1, <1>5, <2>1, CountersUnchanged
       DEF StartPhase, DriverInv, Running, RepeatsExact, Ordered
<1>6. ASSUME NEW err \in PhaseResults, PhaseReturns(err) PROVE DriverInv'
  BY <1>1, <1>6, PhaseReturnsDriverInv
<1>7. CASE StayOnPhase
  BY <1>1, <1>7, CountersUnchanged
     DEF StayOnPhase, DriverInv, Running, RepeatsExact, Ordered, ShouldAdvancePhase
<1>8. CASE Advance
  BY <1>1, <1>8, FollowDriverInv DEF Advance
<1>9. CASE UNCHANGED vars
  BY <1>1, <1>9, CountersUnchanged
     DEF vars, inputs, DriverInv, Running, RepeatsExact, Ordered
<1>10. QED
  BY <1>2, <1>3, <1>4, <1>5, <1>6, <1>7, <1>8, <1>9 DEF Next, Drive, Returned

(* No phase is ever executed more often than the repeat table says, and the
   command returns without an error only after every phase was executed
   exactly that often: for every plan, every table and every pattern. *)
THEOREM RepeatsAreExact == Spec => []RepeatsExact
<1>1. DriverInv => RepeatsExact
  BY DEF DriverInv
<1>2. QED
  BY <1>1, InitDriverInv, NextDriverInv, PTL DEF Spec

-----------------------------------------------------------------------------
(***************************************************************************)
(* The driver implements PhaseSchedule.                                    *)
(***************************************************************************)

LEMMA MappedRepeat ==
  /\ DOMAIN ScheduleRepeat = DOMAIN execs
  /\ \A i \in DOMAIN execs : ScheduleRepeat[i] = Repeat(i)
BY DEF ScheduleRepeat

LEMMA MappedRepeatUnchanged ==
  ASSUME UNCHANGED <<repeats, execs>>
  PROVE  ScheduleRepeat' = ScheduleRepeat
BY DEF ScheduleRepeat, Repeat, GetRepeat

(* The phase the driver executes is due. *)
LEMMA ExecutedIsDue ==
  ASSUME DriverInv, pc = "phase"
  PROVE  current \in DOMAIN ScheduleRepeat /\ Schedule!Due(current)
<1>1. /\ TypeOK /\ DOMAIN execs = Phases /\ current \in Phases
      /\ Incomplete(current) /\ Ordered
  BY DEF DriverInv, TypeOK, Running
<1>2. \A i : Schedule!Incomplete(i) <=> i \in Phases /\ Incomplete(i)
  BY <1>1, MappedRepeat DEF Schedule!Incomplete, Incomplete
<1>3. \A i \in Phases : i \in Int /\ execs[i] \in Int
  BY <1>1 DEF TypeOK
<1>4. pattern = "sequence" =>
        \A j \in DOMAIN ScheduleRepeat : Schedule!Incomplete(j) => current <= j
  BY <1>1, <1>2, <1>3 DEF Ordered
<1>5. pattern = "cycle" =>
        \A j \in DOMAIN ScheduleRepeat : Schedule!Incomplete(j) =>
          \/ execs[current] < execs[j]
          \/ execs[current] = execs[j] /\ current <= j
  <2> SUFFICES ASSUME pattern = "cycle", NEW j \in Phases, Incomplete(j)
               PROVE  \/ execs[current] < execs[j]
                      \/ execs[current] = execs[j] /\ current <= j
    BY <1>2
  <2>1. Level(current)
    BY <1>1 DEF Ordered
  <2>2. /\ j < current => execs[j] = execs[current] + 1
        /\ current <= j => execs[current] = execs[j]
    BY <1>1, <1>3, <2>1 DEF Level
  <2>3. QED
    BY <1>1, <1>3, <2>2
<1>6. QED
  BY <1>1, <1>2, <1>4, <1>5, MappedRepeat DEF Schedule!Due

LEMMA InitImplements == Init => Schedule!Init
<1> SUFFICES ASSUME Init PROVE Schedule!Init
  OBVIOUS
<1>1. ScheduleRepeat = [i \in {} |-> 0]
  BY DEF Init, ScheduleRepeat
<1>2. QED
  BY <1>1 DEF Init, Schedule!Init, ScheduleStatus

LEMMA FollowImplements ==
  ASSUME DriverInv, DriverInv', pc \in {"loop", "advance"},
         \E next \in NextPhase(pattern, current, execs, repeats) : Follow(next),
         UNCHANGED <<inputs, pattern, repeats, execs>>
  PROVE  Schedule!Next \/ UNCHANGED Schedule!vars
<1>1. PICK next : Follow(next)
  OBVIOUS
<1>2. ScheduleRepeat' = ScheduleRepeat /\ UNCHANGED Schedule!asked
  BY MappedRepeatUnchanged DEF inputs, Schedule!asked
<1>3. ScheduleStatus = "running"
  BY DEF ScheduleStatus
<1>4. CASE next = Stop
  <2>1. pc' = "done" /\ outcome' = "completed"
    BY <1>1, <1>4 DEF Follow, Return
  <2>2. ScheduleStatus' = "completed"
    BY <2>1 DEF ScheduleStatus
  <2>3. \A i \in DOMAIN execs : execs[i] = Repeat(i)
    BY <2>1, CountersUnchanged DEF DriverInv, RepeatsExact, TypeOK
  <2>4. \A i \in DOMAIN ScheduleRepeat : execs[i] = ScheduleRepeat[i]
    BY <2>3, MappedRepeat
  <2>5. Schedule!Complete
    BY <1>2, <1>3, <2>2, <2>4 DEF Schedule!Complete
  <2>6. QED
    BY <2>5 DEF Schedule!Next
<1>5. CASE next # Stop
  <2>1. ScheduleStatus' = "running"
    BY <1>1, <1>5 DEF Follow, ScheduleStatus
  <2>2. QED
    BY <1>2, <1>3, <2>1 DEF Schedule!vars, Schedule!asked
<1>6. QED
  BY <1>4, <1>5

(* The repeats and the pattern in force are the ones asked for. *)
LEMMA RepeatsAreAskedFor ==
  ASSUME TypeOK, Start, NEW i \in Phases
  PROVE  Schedule!AsksFor(i, Repeat(i)')
<1>1. repeats' = RepeatsInForce /\ -1 <= flags.repeats /\ flags.repeats <= MaxRepeatsPerPhase
  BY DEF Start, ArgumentsValid
<1>2. /\ MaxRepeatsPerPhase \in Int /\ 1 <= MaxRepeatsPerPhase
      /\ flags.repeats \in Int /\ plan.repeat[i] \in Int
  <2>1. MaxRepeatsPerPhase \in Int /\ 1 <= MaxRepeatsPerPhase
    BY DriverAssumption
  <2>2. flags.repeats \in Int
    BY DriverAssumption DEF TypeOK
  <2>3. plan.repeat \in [Phases -> PlanRepeats]
    BY DEF TypeOK
  <2>4. plan.repeat[i] \in PlanRepeats
    BY <2>3
  <2>5. plan.repeat[i] \in Nat
    BY <2>4, DriverAssumption
  <2>6. QED
    BY <2>1, <2>2, <2>5
<1>3. Repeat(i)' = IF flags.repeats = 0 THEN MaxRepeatsPerPhase
                   ELSE IF flags.repeats > 0 THEN flags.repeats
                   ELSE Clamp(plan.repeat[i])
  BY <1>1 DEF Repeat, GetRepeat, RepeatsInForce, NewPhaseRepeats
<1>4. QED
  BY <1>1, <1>2, <1>3 DEF Clamp, Schedule!AsksFor

LEMMA PatternIsAskedFor ==
  ASSUME Start
  PROVE  Schedule!AsksForPattern(pattern')
BY DEF Start, ArgumentsValid, PatternInForce, ExecutorFor, Patterns,
       Schedule!AsksForPattern, Schedule!Patterns

LEMMA StartImplements ==
  ASSUME DriverInv, DriverInv', Start
  PROVE  Schedule!Next
<1>1. /\ pc = "start" /\ pc' = "loop" /\ Phases # {}
      /\ execs' = [i \in Phases |-> 0] /\ pattern' \in Patterns
  BY DEF Start, ArgumentsPanic, DriverInv, TypeOK
<1>2. PICK n \in 1..MaxPhases : Phases = 0..(n-1)
  <2>1. PICK n \in 0..MaxPhases : Phases = 0..(n-1)
    BY DEF DriverInv, TypeOK
  <2>2. n # 0
    BY <1>1, <2>1
  <2>3. n \in 1..MaxPhases
    BY <2>1, <2>2, DriverAssumption
  <2>4. QED
    BY <2>1, <2>3
<1>3. \A i \in Phases : Schedule!AsksFor(i, Repeat(i)')
  BY RepeatsAreAskedFor DEF DriverInv
<1>4. ScheduleRepeat' = [i \in Phases |-> Repeat(i)']
  BY <1>1 DEF ScheduleRepeat
<1>5. ScheduleStatus = "pending" /\ ScheduleStatus' = "running"
  BY <1>1 DEF ScheduleStatus
<1>6. DOMAIN plan.repeat = 0..(n-1) /\ UNCHANGED Schedule!asked
  BY <1>2 DEF Phases, Start, inputs, Schedule!asked
<1>7. Schedule!Accept(n)
  BY <1>1, <1>2, <1>3, <1>4, <1>5, <1>6, PatternIsAskedFor DEF Schedule!Accept
<1>8. QED
  BY <1>7 DEF Schedule!Next

LEMMA PhaseReturnsImplements ==
  ASSUME DriverInv, NEW err \in PhaseResults, PhaseReturns(err)
  PROVE  Schedule!Next
<1>1. pc = "phase" /\ outcome = "none" /\ DOMAIN execs = Phases
  BY DEF PhaseReturns, DriverInv, Running, TypeOK
<1>2. current \in DOMAIN ScheduleRepeat /\ Schedule!Due(current)
  BY <1>1, ExecutedIsDue
<1>3. ScheduleRepeat' = ScheduleRepeat /\ UNCHANGED Schedule!asked
  BY DEF PhaseReturns, ScheduleRepeat, Repeat, GetRepeat, inputs, Schedule!asked
<1>4. ScheduleStatus = "running" /\ ScheduleStatus' \in {"running", "failed"}
  BY <1>1 DEF PhaseReturns, Return, ScheduleStatus
<1>5. Schedule!Run(current, ScheduleStatus')
  BY <1>2, <1>3, <1>4 DEF Schedule!Run, PhaseReturns
<1>6. QED
  BY <1>2, <1>4, <1>5 DEF Schedule!Next

LEMMA NextImplements ==
  ASSUME DriverInv, DriverInv', [Next]_vars
  PROVE  Schedule!Next \/ UNCHANGED Schedule!vars
<1>1. CASE RejectArguments \/ PanicOnArguments
  <2>1. ScheduleStatus = "pending" /\ ScheduleStatus' = "rejected"
    BY <1>1 DEF RejectArguments, PanicOnArguments, Return, ScheduleStatus
  <2>2. ScheduleRepeat' = ScheduleRepeat /\ UNCHANGED <<plan, flags, pattern, execs>>
    BY <1>1, MappedRepeatUnchanged DEF RejectArguments, PanicOnArguments, inputs
  <2>3. QED
    BY <2>1, <2>2 DEF Schedule!Next, Schedule!Reject, Schedule!asked
<1>2. CASE Start
  BY <1>2, StartImplements
<1>3. CASE SkipCompletePhase
  BY <1>3, FollowImplements DEF SkipCompletePhase
<1>4. CASE StartPhase \/ StayOnPhase
  <2>1. ScheduleStatus = "running" /\ ScheduleStatus' = "running"
    BY <1>4 DEF StartPhase, StayOnPhase, ScheduleStatus
  <2>2. ScheduleRepeat' = ScheduleRepeat /\ UNCHANGED <<plan, flags, pattern, execs>>
    BY <1>4, MappedRepeatUnchanged DEF StartPhase, StayOnPhase, inputs
  <2>3. QED
    BY <2>1, <2>2 DEF Schedule!vars
<1>5. ASSUME NEW err \in PhaseResults, PhaseReturns(err)
      PROVE  Schedule!Next
  BY <1>5, PhaseReturnsImplements
<1>6. CASE Advance
  BY <1>6, FollowImplements DEF Advance
<1>7. CASE UNCHANGED vars
  BY <1>7, MappedRepeatUnchanged DEF vars, Schedule!vars, ScheduleStatus
<1>8. QED
  BY <1>1, <1>2, <1>3, <1>4, <1>5, <1>6, <1>7 DEF Next, Drive, Returned

(* command_client with its pattern executors implements PhaseSchedule: the
   repeats and the pattern in force are those that the flags and the plan ask
   for, every execution is of a phase that is due under them, a failed
   execution is the last one, and the command completes exactly when every
   phase is. *)
THEOREM DriverImplementsSchedule == Spec => ImplementsSchedule
<1>1. DriverInv /\ DriverInv' /\ [Next]_vars => [Schedule!Next]_(Schedule!vars)
  BY NextImplements
<1>2. QED
  BY <1>1, InitDriverInv, NextDriverInv, InitImplements, PTL
     DEF Spec, ImplementsSchedule, Schedule!Spec

-----------------------------------------------------------------------------
(***************************************************************************)
(* The variant of the loop.                                                *)
(***************************************************************************)

LEMMA PhasesFinite ==
  ASSUME TypeOK
  PROVE  IsFiniteSet(Phases)
<1>1. PICK n \in 0..MaxPhases : Phases = 0..(n-1)
  BY DEF TypeOK
<1>2. n - 1 \in Int
  BY DriverAssumption
<1>3. QED
  BY <1>1, <1>2, FS_Interval

LEMMA PhaseNumbers ==
  ASSUME TypeOK, Running
  PROVE  /\ DOMAIN execs = Phases /\ current \in Phases
         /\ \A i \in Phases : i \in 0..(MaxPhases - 1)
         /\ \A i \in Phases : i > current => current + 1 \in Phases
<1>1. DOMAIN execs = Phases /\ current \in Phases
  BY DEF TypeOK, Running
<1>2. PICK n \in 0..MaxPhases : Phases = 0..(n-1)
  BY DEF TypeOK
<1>3. QED
  BY <1>1, <1>2, DriverAssumption

LeftOf == [i \in DOMAIN execs |-> Repeat(i) - execs[i]]

LEMMA LeftTyped ==
  ASSUME DriverInv, Running
  PROVE  /\ IsFiniteSet(Phases) /\ DOMAIN execs = Phases /\ DOMAIN LeftOf = Phases
         /\ \A i \in Phases : LeftOf[i] \in Nat /\ LeftOf[i] = Repeat(i) - execs[i]
         /\ \A i \in Phases : Repeat(i) \in Int /\ execs[i] \in Int
         /\ Left = SumFunctionOnSet(LeftOf, Phases) /\ Left \in Nat
<1>1. TypeOK /\ RepeatsExact /\ DOMAIN execs = Phases
  BY PhaseNumbers DEF DriverInv
<1>2. IsFiniteSet(Phases)
  BY <1>1, PhasesFinite
<1>3. ASSUME NEW i \in Phases
      PROVE  /\ LeftOf[i] \in Nat /\ LeftOf[i] = Repeat(i) - execs[i]
             /\ Repeat(i) \in Int /\ execs[i] \in Int
  <2>1. Repeat(i) \in Int
    BY <1>1, RepeatPositive, DriverAssumption
  <2>2. execs[i] \in Nat /\ execs[i] <= Repeat(i)
    BY <1>1 DEF TypeOK, RepeatsExact
  <2>3. LeftOf[i] = Repeat(i) - execs[i]
    BY <1>1 DEF LeftOf
  <2>4. QED
    BY <2>1, <2>2, <2>3
<1>4. Left = SumFunctionOnSet(LeftOf, Phases)
  BY <1>1 DEF Left, LeftOf
<1>5. Left \in Nat
  BY <1>2, <1>3, <1>4, SumInNat
<1>6. QED
  BY <1>1, <1>2, <1>3, <1>4, <1>5 DEF LeftOf

LEMMA SkipsInRange ==
  ASSUME TypeOK, Running
  PROVE  Skips \in 0..(2 * MaxPhases)
<1>1. current \in 0..(MaxPhases - 1) /\ MaxPhases \in Nat
  BY PhaseNumbers, DriverAssumption
<1>2. Skips \in {0, MaxPhases - current, 2 * MaxPhases - current}
  BY DEF Skips
<1>3. QED
  BY <1>1, <1>2

LEMMA StepsTyped ==
  ASSUME TypeOK, Running
  PROVE  StepsAhead \in Nat /\ (pc # "advance" => StepsAhead < 2 * MaxPhases + 2)
<1>1. Skips \in 0..(2 * MaxPhases) /\ MaxPhases \in Nat
  BY SkipsInRange, DriverAssumption
<1>2. pc \in {"loop", "phase", "advance"}
  BY DEF Running
<1>3. QED
  BY <1>1, <1>2 DEF StepsAhead

(* A complete phase is passed: the next one is incomplete, or the executor
   goes on in the order of the phases and goes round once at most. *)
LEMMA SkipAdvances ==
  ASSUME TypeOK, Running, PhaseComplete(current, execs, repeats),
         NEW next \in NextPhase(pattern, current, execs, repeats), next # Stop,
         TypeOK', Running', current' = next, UNCHANGED <<execs, repeats>>
  PROVE  Skips' < Skips
<1> DEFINE Complete(i) == PhaseComplete(i, execs, repeats)
<1>1. /\ current \in 0..(MaxPhases - 1) /\ MaxPhases \in Nat
      /\ DOMAIN execs = Phases /\ \A i \in Phases : i \in 0..(MaxPhases - 1)
      /\ \A i \in Phases : i > current => current + 1 \in Phases
  BY PhaseNumbers, DriverAssumption
<1>2. \A i : PhaseComplete(i, execs, repeats)' <=> Complete(i)
  BY DEF PhaseComplete, GetRepeat
<1>3. /\ Complete(current)
      /\ Skips = IF \E i \in Phases : i > current /\ ~Complete(i)
                 THEN MaxPhases - current ELSE 2 * MaxPhases - current
  BY <1>1 DEF Skips
<1>4. Skips' = IF ~Complete(next) THEN 0
               ELSE IF \E i \in Phases : i > next /\ ~Complete(i)
                    THEN MaxPhases - next ELSE 2 * MaxPhases - next
  BY <1>1, <1>2 DEF Skips
<1>5. pattern \in Patterns
  BY DEF TypeOK
<1> HIDE DEF Complete
<1>6. CASE ~Complete(next)
  BY <1>1, <1>3, <1>4, <1>6
<1>7. CASE Complete(next) /\ next = current + 1
  <2>1. \A i \in Phases : i > current /\ ~Complete(i) <=> i > next /\ ~Complete(i)
    BY <1>1, <1>7
  <2>2. QED
    BY <1>1, <1>3, <1>4, <1>7, <2>1
<1>8. CASE next = 0 /\ current + 1 \notin Phases /\ \E i \in Phases : ~Complete(i)
  <2>1. Skips = 2 * MaxPhases - current
    BY <1>1, <1>3, <1>8
  <2>2. Complete(next) => \E i \in Phases : i > next /\ ~Complete(i)
    BY <1>1, <1>8
  <2>3. Skips' = 0 \/ Skips' = MaxPhases
    BY <1>1, <1>4, <1>8, <2>2
  <2>4. QED
    BY <1>1, <2>1, <2>3
<1>9. \/ ~Complete(next) \/ next = current + 1
      \/ next = 0 /\ current + 1 \notin Phases /\ \E i \in Phases : ~Complete(i)
  <2>1. CASE pattern = "sequence"
    BY <1>1, <1>3, <2>1 DEF NextPhase, SequenceNext, Complete
  <2>2. CASE pattern = "cycle"
    BY <1>1, <1>3, <2>2 DEF NextPhase, CycleNext, CycleSuccessor, IsComplete, Complete
  <2>3. CASE pattern = "random"
    BY <2>3 DEF NextPhase, RandomNext, Complete
  <2>4. QED
    BY <1>5, <2>1, <2>2, <2>3 DEF Patterns
<1>10. QED
  BY <1>6, <1>7, <1>8, <1>9

LEMMA FollowAdvances ==
  ASSUME DriverInv, Running, DriverInv', Running', pc \in {"loop", "advance"},
         pc = "loop" => PhaseComplete(current, execs, repeats),
         \E next \in NextPhase(pattern, current, execs, repeats) : Follow(next),
         UNCHANGED <<repeats, execs>>
  PROVE  StepsAhead' < StepsAhead
<1>1. TypeOK /\ TypeOK'
  BY DEF DriverInv
<1>2. PICK next \in NextPhase(pattern, current, execs, repeats) :
        next # Stop /\ current' = next /\ pc' = "loop"
  BY DEF Follow, Return, Running
<1>3. CASE pc = "loop"
  <2>1. Skips' < Skips
    BY <1>1, <1>2, <1>3, SkipAdvances
  <2>2. Skips \in Int /\ Skips' \in Int
    <3>1. MaxPhases \in Nat
      BY DriverAssumption
    <3>2. Skips \in 0..(2 * MaxPhases)
      BY <1>1, SkipsInRange
    <3>3. (Skips \in 0..(2 * MaxPhases))'
      BY <1>1, SkipsInRange, PTL
    <3>4. QED
      BY <3>1, <3>2, <3>3
  <2>3. StepsAhead = 1 + Skips
    BY <1>3 DEF StepsAhead
  <2>4. StepsAhead' = 1 + Skips'
    BY <1>2 DEF StepsAhead
  <2>5. \A m, n \in Int : m < n => 1 + m < 1 + n
    OBVIOUS
  <2>6. 1 + Skips' < 1 + Skips
    BY <2>1, <2>2, <2>5, Zenon
  <2>7. QED
    BY <2>3, <2>4, <2>6
<1>4. CASE pc = "advance"
  <2>1. StepsAhead = 2 * MaxPhases + 2
    BY <1>4 DEF StepsAhead
  <2>2. StepsAhead' < 2 * MaxPhases + 2
    <3>1. (pc # "advance" => StepsAhead < 2 * MaxPhases + 2)'
      BY <1>1, StepsTyped, PTL
    <3>2. QED
      BY <1>2, <3>1
  <2>3. QED
    BY <2>1, <2>2
<1>5. QED
  BY <1>3, <1>4

Advances ==
  /\ Left' >= 0 /\ StepsAhead' >= 0
  /\ Left' < Left \/ (Left' = Left /\ StepsAhead' < StepsAhead)

LEMMA NextAdvances ==
  ASSUME DriverInv, DriverInv', Running, Running', Next
  PROVE  Advances
<1>1. TypeOK /\ TypeOK'
  BY DEF DriverInv
<1>2. Left \in Nat /\ Left' \in Nat
  <2>1. Left \in Nat
    BY LeftTyped
  <2>2. (Left \in Nat)'
    BY LeftTyped, PTL
  <2>3. QED
    BY <2>1, <2>2
<1>3. StepsAhead' >= 0
  <2>1. (StepsAhead \in Nat)'
    BY <1>1, StepsTyped, PTL
  <2>2. QED
    BY <2>1
<1>4. ASSUME UNCHANGED <<execs, repeats>> PROVE Left' = Left
  BY <1>4 DEF Left, Repeat, GetRepeat
<1>5. CASE SkipCompletePhase
  <2>1. StepsAhead' < StepsAhead
    BY <1>5, FollowAdvances DEF SkipCompletePhase
  <2>2. QED
    BY <1>2, <1>3, <1>4, <1>5, <2>1 DEF SkipCompletePhase, Advances
<1>6. CASE Advance
  <2>1. StepsAhead' < StepsAhead
    BY <1>6, FollowAdvances DEF Advance
  <2>2. QED
    BY <1>2, <1>3, <1>4, <1>6, <2>1 DEF Advance, Advances
<1>7. CASE StartPhase
  <2>1. StepsAhead = 1 + Skips /\ StepsAhead' = 0
    BY <1>7 DEF StartPhase, StepsAhead
  <2>2. Skips = 0
    BY <1>7 DEF StartPhase, Skips
  <2>3. QED
    BY <1>2, <1>3, <1>4, <1>7, <2>1, <2>2 DEF StartPhase, Advances
<1>8. CASE StayOnPhase
  <2>1. StepsAhead = 2 * MaxPhases + 2 /\ pc' = "loop"
    BY <1>8 DEF StayOnPhase, StepsAhead
  <2>2. (pc # "advance" => StepsAhead < 2 * MaxPhases + 2)'
    BY <1>1, StepsTyped, PTL
  <2>3. QED
    BY <1>2, <1>3, <1>4, <1>8, <2>1, <2>2 DEF StayOnPhase, Advances
<1>9. ASSUME NEW err \in PhaseResults, PhaseReturns(err) PROVE Advances
  <2>1. /\ DOMAIN execs = Phases /\ current \in Phases
        /\ execs' = [execs EXCEPT ![current] = @ + 1] /\ repeats' = repeats
        /\ Phases' = Phases
    BY <1>1, <1>9, PhaseNumbers DEF PhaseReturns, inputs, Phases
  <2>2. /\ IsFiniteSet(Phases) /\ Left = SumFunctionOnSet(LeftOf, Phases)
        /\ \A i \in Phases : /\ LeftOf[i] \in Int /\ LeftOf[i] = Repeat(i) - execs[i]
                             /\ Repeat(i) \in Int /\ execs[i] \in Int
    BY LeftTyped
  <2>3. /\ Left' = SumFunctionOnSet(LeftOf', Phases)
        /\ \A i \in Phases : LeftOf'[i] \in Int /\ LeftOf'[i] = Repeat(i)' - execs'[i]
    <3>1. (/\ Left = SumFunctionOnSet(LeftOf, Phases)
           /\ \A i \in Phases : LeftOf[i] \in Nat /\ LeftOf[i] = Repeat(i) - execs[i])'
      BY LeftTyped, PTL
    <3>2. QED
      BY <2>1, <3>1
  <2>4. \A i : Repeat(i)' = Repeat(i)
    BY <2>1 DEF Repeat, GetRepeat
  <2>5. LeftOf'[current] = LeftOf[current] - 1
    BY <2>1, <2>2, <2>3, <2>4
  <2>6. \A i \in Phases \ {current} : LeftOf'[i] = LeftOf[i]
    BY <2>1, <2>2, <2>3, <2>4
  <2>7. Left' = Left + LeftOf'[current] - LeftOf[current]
    BY <2>1, <2>2, <2>3, <2>6, SumUpdate
  <2>8. Left' < Left
    BY <1>2, <2>1, <2>2, <2>5, <2>7
  <2>9. QED
    BY <1>2, <1>3, <2>8 DEF Advances
<1>10. QED
  BY <1>5, <1>6, <1>7, <1>8, <1>9
     DEF Next, Drive, Returned, RejectArguments, PanicOnArguments, Start, Return, Running

(* Every step of the loop comes nearer to its end, for every plan, every
   table and every pattern: the loop is never inside a phase, or at its top,
   more often than what is left to execute and one round of the phases allow. *)
THEOREM LoopComesNearer == Spec => LoopAdvances
<1>1. ASSUME DriverInv, [Next]_vars
      PROVE  [(pc \in {"loop", "phase", "advance"} /\ pc' # "done") => Advances]_vars
  <2>1. DriverInv'
    BY <1>1, NextDriverInv
  <2> SUFFICES ASSUME Next, pc \in {"loop", "phase", "advance"}, pc' # "done"
               PROVE  Advances
    BY <1>1
  <2>2. Running
    BY DEF Running
  <2>3. Running'
    BY DEF Running, Next, Drive, RejectArguments, PanicOnArguments, Start,
       SkipCompletePhase, StartPhase, StayOnPhase, Advance, PhaseReturns, Follow,
       Return, Returned
  <2>4. QED
    BY <1>1, <2>1, <2>2, <2>3, NextAdvances
<1>2. QED
  BY <1>1, InitDriverInv, NextDriverInv, PTL DEF Spec, LoopAdvances, Advances

-----------------------------------------------------------------------------
(***************************************************************************)
(* The time of the phases                                                  *)
(***************************************************************************)

(* A run with its time is a run of the driver. *)
LEMMA TimedInitIsInit == TimedInit => Init
BY DEF TimedInit

LEMMA TimedNextIsNext == [TimedNext]_timedVars => [Next]_vars
BY DEF TimedNext, timedVars, TimedStart, TimedStartPhase, Untimed, Next, Drive

LEMMA TimedIsDriven == TimedSpec => Spec
BY TimedInitIsInit, TimedNextIsNext, PTL DEF TimedSpec, Spec

LEMMA DriverInvTimed == TimedSpec => []DriverInv
BY TimedIsDriven, InitDriverInv, NextDriverInv, PTL DEF Spec

(* Arithmetic of the durations *)
LEMMA QuotientBounds ==
  ASSUME NEW a \in Nat, NEW t \in Nat \ {0}
  PROVE  /\ a \div t \in Nat
         /\ (a \div t) * t <= a
         /\ a - (a \div t) * t < t
         /\ a \div t <= a
OBVIOUS

LEMMA QuotientAtLeast ==
  ASSUME NEW a \in Nat, NEW m \in Nat, NEW t \in Nat \ {0}, m * t <= a
  PROVE  m <= a \div t
OBVIOUS

LEMMA QuotientExact ==
  ASSUME NEW m \in Nat, NEW t \in Nat \ {0}
  PROVE  (m * t) \div t = m
OBVIOUS

LEMMA WrapInRange ==
  ASSUME NEW x \in Int
  PROVE  Wrap(x) \in (-Int64)..(Int64 - 1)
<1>1. Int64 \in Nat \ {0}
  BY DurationsAssumption
<1>2. (x + Int64) % (2 * Int64) \in 0..(2 * Int64 - 1)
  BY <1>1
<1>3. QED
  BY <1>1, <1>2 DEF Wrap

LEMMA WrapFits ==
  ASSUME NEW x \in Nat, x < Int64
  PROVE  Wrap(x) = x
<1>1. Int64 \in Nat \ {0}
  BY DurationsAssumption
<1>2. (x + Int64) % (2 * Int64) = x + Int64
  BY <1>1
<1>3. QED
  BY <1>1, <1>2 DEF Wrap

LEMMA BoundedInRange ==
  ASSUME NEW x \in Int
  PROVE  Bounded(MinPhaseDuration, x,
       MaxPhaseDuration) \in MinPhaseDuration..MaxPhaseDuration
BY DurationsAssumption DEF Bounded

(* A finite set of numbers that is not empty has a maximum. *)
LEMMA MaxOfFinite ==
  ASSUME NEW S, IsFiniteSet(S), \A x \in S : x \in Int, S # {}
  PROVE  Max(S) \in S /\ \A y \in S : y <= Max(S)
<1> DEFINE Bound == {T \in SUBSET S : T # {} => \E m \in T : \A y \in T : m >= y}
<1>1. ASSUME NEW T \in SUBSET S, \A U \in SUBSET T : U # T => U \in Bound
      PROVE  T \in Bound
  <2> SUFFICES ASSUME T # {} PROVE \E m \in T : \A y \in T : m >= y
    OBVIOUS
  <2>1. PICK x \in T : TRUE
    OBVIOUS
  <2>2. CASE T = {x}
    BY <2>2
  <2>3. CASE T # {x}
    <3>1. T \ {x} \in Bound /\ T \ {x} # {}
      BY <1>1, <2>1, <2>3
    <3>2. PICK m \in T \ {x} : \A y \in T \ {x} : m >= y
      BY <3>1
    <3>3. x \in Int /\ m \in Int /\ \A y \in T : y \in Int
      BY <2>1
    <3>4. CASE m >= x
      BY <3>2, <3>4
    <3>5. CASE ~(m >= x)
      BY <2>1, <3>2, <3>3, <3>5
    <3>6. QED
      BY <3>4, <3>5
  <2>4. QED
    BY <2>2, <2>3
<1>2. S \in Bound
  <2>1. \A T \in SUBSET S : T \in Bound
    <3> HIDE DEF Bound
    <3>1. QED
      BY <1>1, SubsetInduction
  <2>2. QED
    BY <2>1
<1>3. \E m \in S : \A y \in S : m >= y
  BY <1>2
<1>4. Max(S) \in S /\ \A y \in S : Max(S) >= y
  BY <1>3 DEF Max
<1>5. QED
  BY <1>4

LEMMA LongestOfWorkers ==
  ASSUME NEW durations \in Seq(MinPhaseDuration..MaxPhaseDuration)
  PROVE  /\ LongestWorker(durations) \in 0..MaxPhaseDuration
         /\ \A j \in DOMAIN durations :
              /\ durations[j] \in MinPhaseDuration..MaxPhaseDuration
              /\ durations[j] <= LongestWorker(durations)
<1> DEFINE S == {0} \cup {durations[j] : j \in DOMAIN durations}
<1>1. DOMAIN durations = 1..Len(durations) /\ Len(durations) \in Nat
  OBVIOUS
<1>2. IsFiniteSet(DOMAIN durations)
  BY <1>1, FS_Interval
<1>3. IsFiniteSet({durations[j] : j \in DOMAIN durations})
  BY <1>2, FiniteImage
<1>4. IsFiniteSet(S)
  BY <1>3, FS_AddElement, FS_Singleton, FS_Union
<1>5. \A x \in S : x \in 0..MaxPhaseDuration
  BY DurationsAssumption
<1>6. Max(S) \in S /\ \A y \in S : y <= Max(S)
  <2>1. \A x \in S : x \in Int
    BY <1>5, DurationsAssumption
  <2>2. S # {}
    OBVIOUS
  <2>3. QED
    BY <1>4, <2>1, <2>2, MaxOfFinite
<1>7. \A j \in DOMAIN durations : durations[j] \in MinPhaseDuration..MaxPhaseDuration
  <2>1. \A T : \A s \in Seq(T) : \A j \in DOMAIN s : s[j] \in T
    OBVIOUS
  <2>2. QED
    BY <2>1
<1>8. QED
  BY <1>5, <1>6, <1>7 DEF LongestWorker

-----------------------------------------------------------------------------
(***************************************************************************)
(* The invariant of the time: from Start on the three cached values are    *)
(* what the table of repeats makes them, and the time given is the sum,    *)
(* over the phases, of the executions begun times the phase's duration.    *)
(***************************************************************************)
Planned == Running \/ outcome \in {"completed", "failed"}

Begun(i) == execs[i] + (IF pc = "phase" /\ i = current THEN 1 ELSE 0)

Spent == [i \in Phases |-> Begun(i) * cachedDurations[i]]

TimeInputs == workers \in [Phases -> PlanWorkers] /\ runtime \in Runtimes

Unplanned ==
  /\ adjusted = 0 /\ announced = 0 /\ given = 0
  /\ cachedDurations = [i \in {} |-> 0]

Plan ==
  /\ DOMAIN execs = Phases /\ Phases # {}
  /\ adjusted = AdjustedRuntimeDuration(workers, repeats, runtime)
  /\ announced = TotalDuration(workers, repeats, runtime, adjusted)
  /\ cachedDurations =
       [i \in Phases |-> PhaseDuration(workers, repeats, runtime, adjusted, i)]
  /\ given = SumFunctionOnSet(Spent, Phases)

TimeInv ==
  /\ TimeInputs
  /\ IF Planned THEN Plan ELSE Unplanned

LEMMA InputsTyped ==
  ASSUME TimeInputs
  PROVE  /\ DOMAIN workers = Phases
         /\ \A i \in Phases : workers[i] \in Seq(MinPhaseDuration..MaxPhaseDuration)
         /\ runtime \in 0..MaxPhaseDuration
         /\ runtime > 0 => runtime >= MinPhaseDuration
BY PlanTimeAssumption, DurationsAssumption DEF TimeInputs

(* How often the phases are executed together *)
LEMMA TotalRepeats ==
  ASSUME TypeOK, TimeInputs
  PROVE  /\ GetTotalRepeats(repeats, workers)
              = SumFunctionOnSet([i \in Phases |-> Repeat(i)], Phases)
         /\ GetTotalRepeats(repeats, workers) \in Nat
         /\ Phases # {} => GetTotalRepeats(repeats, workers) \in Nat \ {0}
<1> DEFINE R == [i \in Phases |-> Repeat(i)]
<1>1. IsFiniteSet(Phases)
  BY PhasesFinite
<1>2. \A i \in Phases : R[i] \in Nat /\ R[i] # 0
  <2>1. ASSUME NEW i \in Phases PROVE Repeat(i) \in Nat /\ Repeat(i) # 0
    <3>1. Repeat(i) \in 1..MaxRepeatsPerPhase
      BY RepeatPositive
    <3>2. QED
      BY <3>1, DriverAssumption
  <2>2. QED
    BY <2>1
<1>3. GetTotalRepeats(repeats, workers) = SumFunctionOnSet(R, Phases)
  BY InputsTyped DEF GetTotalRepeats, SumFunction, Repeat
<1> HIDE DEF R
<1>4. SumFunctionOnSet(R, Phases) \in Nat
  BY <1>1, <1>2, SumInNat
<1>5. ASSUME Phases # {} PROVE SumFunctionOnSet(R, Phases) # 0
  <2>1. PICK i \in Phases : TRUE
    BY <1>5
  <2>2. SumFunctionOnSet(R, Phases) = R[i] + SumFunctionOnSet(R, Phases \ {i})
    <3>1. \A y \in Phases : R[y] \in Int
      BY <1>2
    <3>2. QED
      BY <1>1, <2>1, <3>1, SumRemove
  <2>3. SumFunctionOnSet(R, Phases \ {i}) \in Nat
    <3>1. IsFiniteSet(Phases \ {i})
      BY <1>1, FS_Subset
    <3>2. \A x \in Phases \ {i} : R[x] \in Nat
      BY <1>2
    <3>3. QED
      BY <3>1, <3>2, SumInNat
  <2>4. R[i] \in Nat /\ R[i] # 0
    BY <1>2, <2>1
  <2>5. QED
    BY <2>2, <2>3, <2>4
<1>6. QED
  BY <1>3, <1>4, <1>5 DEF R

LEMMA AdjustedInRange ==
  ASSUME TypeOK, TimeInputs
  PROVE  AdjustedRuntimeDuration(workers, repeats, runtime) \in 0..(Int64 - 1)
<1> DEFINE m == MinPhaseDuration * GetTotalRepeats(repeats, workers)
<1>1. m \in Int
  BY TotalRepeats, DurationsAssumption
<1> HIDE DEF m
<1>2. Wrap(m) \in (-Int64)..(Int64 - 1)
  BY <1>1, WrapInRange
<1>3. runtime \in 0..MaxPhaseDuration
  BY InputsTyped
<1>4. QED
  BY <1>2, <1>3, DurationsAssumption DEF AdjustedRuntimeDuration, m

(* A phase's duration is within the limits of the package. *)
LEMMA DurationInRange ==
  ASSUME TypeOK, TimeInputs, Phases # {}, NEW i \in Phases
  PROVE  PhaseDuration(workers, repeats, runtime,
           AdjustedRuntimeDuration(workers, repeats, runtime), i)
             \in MinPhaseDuration..MaxPhaseDuration
<1> DEFINE a == AdjustedRuntimeDuration(workers, repeats, runtime)
           t == GetTotalRepeats(repeats, workers)
<1>1. a \in Nat
  BY AdjustedInRange, DurationsAssumption
<1>2. t \in Nat \ {0}
  BY TotalRepeats
<1> HIDE DEF a, t
<1>3. a \div t \in Int
  BY <1>1, <1>2
<1>4. LongestWorker(workers[i]) \in Int
  BY InputsTyped, LongestOfWorkers, DurationsAssumption
<1>5. (IF runtime > 0 THEN a \div t ELSE LongestWorker(workers[i])) \in Int
  BY <1>3, <1>4
<1>6. QED
  BY <1>5, BoundedInRange DEF PhaseDuration, a, t

LEMMA DurationsInRange ==
  TypeOK /\ TimeInputs /\ Phases # {} =>
    \A i \in Phases :
      PhaseDuration(workers, repeats, runtime,
        AdjustedRuntimeDuration(workers, repeats, runtime), i)
          \in MinPhaseDuration..MaxPhaseDuration
BY DurationInRange

LEMMA DurationsInRangeNext ==
  (TypeOK /\ TimeInputs /\ Phases # {} =>
    \A i \in Phases :
      PhaseDuration(workers, repeats, runtime,
        AdjustedRuntimeDuration(workers, repeats, runtime), i)
          \in MinPhaseDuration..MaxPhaseDuration)'
BY DurationsInRange, PTL

LEMMA BegunTyped ==
  ASSUME DriverInv, Planned, DOMAIN execs = Phases
  PROVE  \A i \in Phases : Begun(i) \in Nat
BY DEF DriverInv, TypeOK, Begun

(* Between the steps of the loop no execution has begun that is not counted. *)
LEMMA SpentTyped ==
  ASSUME DriverInv, TimeInv, Planned
  PROVE  /\ \A i \in Phases : cachedDurations[i] \in MinPhaseDuration..MaxPhaseDuration
         /\ \A i \in Phases : Spent[i] \in Nat
<1>1. TypeOK /\ TimeInputs /\ Plan
  BY DEF DriverInv, TimeInv
<1>2. \A i \in Phases : cachedDurations[i] \in MinPhaseDuration..MaxPhaseDuration
  BY <1>1, DurationInRange DEF Plan
<1>3. \A i \in Phases : Begun(i) \in Nat /\ cachedDurations[i] \in Nat
  BY <1>1, <1>2, BegunTyped, DurationsAssumption DEF Plan
<1>4. \A i \in Phases : Begun(i) * cachedDurations[i] \in Nat
  <2>1. ASSUME NEW i \in Phases PROVE Begun(i) * cachedDurations[i] \in Nat
    <3>1. \A a, b \in Nat : a * b \in Nat
      OBVIOUS
    <3>2. QED
      BY <1>3, <3>1
  <2>2. QED
    BY <2>1
<1>5. QED
  BY <1>2, <1>4 DEF Spent

LEMMA TypeFromTimeInv ==
  ASSUME DriverInv, TimeInv
  PROVE  TimedTypeOK
<1>1. TypeOK /\ TimeInputs
  BY DEF DriverInv, TimeInv
<1>2. CASE ~Planned
  <2>1. Unplanned
    BY <1>2 DEF TimeInv
  <2>2. cachedDurations \in [{} -> MinPhaseDuration..MaxPhaseDuration]
    BY <2>1 DEF Unplanned
  <2>3. 0 \in 0..(Int64 - 1) /\ 0 \in (-Int64)..(Int64 - 1) /\ 0 \in Nat
    BY DurationsAssumption
  <2>4. QED
    BY <1>1, <2>1, <2>2, <2>3 DEF Unplanned, TimedTypeOK, TimeInputs
<1>3. CASE Planned
  <2>1. Plan
    BY <1>3 DEF TimeInv
  <2>2. adjusted \in 0..(Int64 - 1)
    BY <1>1, <2>1, AdjustedInRange DEF Plan
  <2>3. cachedDurations \in [Phases -> MinPhaseDuration..MaxPhaseDuration]
    BY <1>3, <2>1, SpentTyped DEF Plan
  <2>4. IsFiniteSet(Phases)
    BY <1>1, PhasesFinite
  <2>5. announced \in (-Int64)..(Int64 - 1)
    <3> DEFINE S == SumFunction(PhaseTotals(workers, repeats, runtime, adjusted))
    <3>1. S \in Int
      <4> DEFINE F == PhaseTotals(workers, repeats, runtime, adjusted)
      <4>1. DOMAIN F = Phases
        BY <1>1, InputsTyped DEF PhaseTotals
      <4>2. \A i \in Phases : F[i] \in Int
        <5>1. ASSUME NEW i \in Phases PROVE F[i] \in Int
          <6>1. GetRepeat(repeats, i) \in Int
            <7>1. Repeat(i) \in 1..MaxRepeatsPerPhase
              BY <1>1, RepeatPositive
            <7>2. QED
              BY <7>1, DriverAssumption DEF Repeat
          <6>2. PhaseDuration(workers, repeats, runtime, adjusted, i) \in Int
            BY <1>1, <2>1, DurationInRange, DurationsAssumption DEF Plan
          <6>3. F[i] = GetRepeat(repeats, i)
                         * PhaseDuration(workers, repeats, runtime, adjusted, i)
            BY <1>1, InputsTyped DEF PhaseTotals
          <6>4. \A a, b \in Int : a * b \in Int
            OBVIOUS
          <6>5. QED
            BY <6>1, <6>2, <6>3, <6>4
        <5>2. QED
          BY <5>1
      <4> HIDE DEF F
      <4>3. SumFunctionOnSet(F, Phases) \in Int
        BY <2>4, <4>2, SumInInt
      <4>4. QED
        BY <4>1, <4>3 DEF SumFunction, F
    <3> HIDE DEF S
    <3>2. Wrap(S) \in (-Int64)..(Int64 - 1)
      BY <3>1, WrapInRange
    <3>3. adjusted \in (-Int64)..(Int64 - 1)
      BY <2>2, DurationsAssumption
    <3>4. QED
      BY <2>1, <3>2, <3>3 DEF Plan, TotalDuration, S
  <2>6. given \in Nat
    <3>1. \A i \in Phases : Spent[i] \in Nat
      BY <1>3, SpentTyped
    <3>2. SumFunctionOnSet(Spent, Phases) \in Nat
      BY <2>4, <3>1, SumInNat
    <3>3. QED
      BY <2>1, <3>2 DEF Plan
  <2>7. QED
    BY <1>1, <2>2, <2>3, <2>5, <2>6 DEF TimedTypeOK, TimeInputs
<1>4. QED
  BY <1>2, <1>3

LEMMA InitTimeInv == TimedInit => TimeInv
BY DEF TimedInit, Init, TimeInv, TimeInputs, Planned, Running, Unplanned, Phases

LEMMA StartTimeInv ==
  ASSUME DriverInv, DriverInv', TimeInv, TimedStart
  PROVE  TimeInv'
<1>1. /\ pc = "start" /\ pc' = "loop" /\ outcome = "none" /\ Phases # {}
      /\ execs' = [i \in Phases |-> 0] /\ UNCHANGED <<plan, workers, runtime, given>>
  BY DEF TimedStart, Start, ArgumentsPanic, DriverInv, inputs
<1>2. Phases' = Phases /\ Planned' /\ TimeInputs' /\ given = 0
  BY <1>1 DEF Phases, Planned, Running, TimeInv, TimeInputs, Unplanned
<1>3. IsFiniteSet(Phases)
  BY PhasesFinite DEF DriverInv
<1>4. cachedDurations' =
        [i \in Phases |-> PhaseDuration(workers, repeats', runtime, adjusted', i)]
  BY DEF TimedStart
<1>5. \A i \in Phases : cachedDurations'[i] \in Int
  <2>1. TypeOK' /\ TimeInputs' /\ Phases' # {}
    BY <1>1, <1>2 DEF DriverInv
  <2>2. adjusted' = AdjustedRuntimeDuration(workers, repeats, runtime)'
    BY <1>1 DEF TimedStart, AdjustedRuntimeDuration, GetTotalRepeats, GetRepeat
  <2>3. \A i \in Phases :
          PhaseDuration(workers, repeats', runtime,
            AdjustedRuntimeDuration(workers, repeats, runtime)', i)
              \in MinPhaseDuration..MaxPhaseDuration
    BY <1>1, <1>2, <2>1, DurationsInRangeNext
  <2>5. QED
    BY <1>4, <2>2, <2>3, DurationsAssumption
<1>6. \A i \in Phases : Spent'[i] = 0
  <2>1. ASSUME NEW i \in Phases PROVE Spent'[i] = 0
    <3>1. Spent'[i] = Begun(i)' * cachedDurations'[i]
      BY <1>2 DEF Spent
    <3>2. Begun(i)' = 0
      BY <1>1 DEF Begun
    <3>3. cachedDurations'[i] \in Int
      BY <1>5
    <3>4. \A c \in Int : 0 * c = 0
      OBVIOUS
    <3>5. QED
      BY <3>1, <3>2, <3>3, <3>4
  <2>2. QED
    BY <2>1
<1>7. SumFunctionOnSet(Spent', Phases) = 0
  BY <1>3, <1>6, SumOfZeros
<1>8. SumFunctionOnSet(Spent, Phases)' = 0
  BY <1>2, <1>7
<1>9. Plan'
  BY <1>1, <1>2, <1>4, <1>8 DEF Plan, TimedStart
<1>10. QED
  BY <1>2, <1>9 DEF TimeInv

(* A step of the loop leaves the plan of the times alone. *)
LEMMA PlanCarriesOver ==
  ASSUME TimeInv, Planned, Planned', UNCHANGED <<inputs, repeats, timing>>,
         DOMAIN execs' = Phases, given' = SumFunctionOnSet(Spent', Phases)
  PROVE  TimeInv'
<1>1. Phases' = Phases
  BY DEF inputs, Phases
<1>2. TimeInputs' /\ Plan
  BY <1>1 DEF TimeInv, TimeInputs, timing
<1>3. SumFunctionOnSet(Spent, Phases)' = SumFunctionOnSet(Spent', Phases)
  BY <1>1
<1>4. Plan'
  BY <1>1, <1>2, <1>3 DEF Plan, timing
<1>5. QED
  BY <1>2, <1>4 DEF TimeInv

(* No execution begins and none that has begun is forgotten. *)
LEMMA SpentUnchanged ==
  ASSUME DriverInv, TimeInv, Planned, Planned', DOMAIN execs' = Phases,
         UNCHANGED <<inputs, repeats, timing, given>>,
         \A i \in Phases : Begun(i)' = Begun(i)
  PROVE  TimeInv'
<1>1. Phases' = Phases
  BY DEF inputs, Phases
<1>2. Spent' = Spent
  BY <1>1 DEF Spent, timing
<1>3. given' = SumFunctionOnSet(Spent', Phases)
  BY <1>2 DEF TimeInv, Plan
<1>4. QED
  BY <1>3, PlanCarriesOver

LEMMA StartPhaseTimeInv ==
  ASSUME DriverInv, TimeInv, TimedStartPhase
  PROVE  TimeInv'
<1>1. /\ pc = "loop" /\ pc' = "phase" /\ current \in Phases
      /\ UNCHANGED <<inputs, repeats, current, execs, timing>>
      /\ given' = given + GetPhaseDuration(current)
  BY DEF TimedStartPhase, StartPhase, DriverInv, TypeOK
<1>2. Planned /\ Planned' /\ Plan /\ Phases' = Phases
  BY <1>1 DEF Planned, Running, TimeInv, inputs, Phases
<1>3. GetPhaseDuration(current) = cachedDurations[current]
  BY <1>1, <1>2 DEF Plan, GetPhaseDuration
<1>4. IsFiniteSet(Phases)
  BY PhasesFinite DEF DriverInv
<1>5. \A i \in Phases : Spent[i] \in Int /\ cachedDurations[i] \in Nat
  BY <1>2, SpentTyped, DurationsAssumption
<1>6. \A i \in Phases : Spent'[i] = IF i = current THEN Spent[i] + cachedDurations[current]
                                    ELSE Spent[i]
  <2>1. ASSUME NEW i \in Phases
        PROVE  Spent'[i] = IF i = current THEN Spent[i] + cachedDurations[current]
                           ELSE Spent[i]
    <3>1. execs[i] \in Nat /\ cachedDurations[i] \in Nat
      BY <1>2, <1>5 DEF DriverInv, TypeOK, Plan
    <3>2. Begun(i) = execs[i] /\ Begun(i)' = execs[i] + (IF i = current THEN 1 ELSE 0)
      BY <1>1, <3>1 DEF Begun
    <3>3. Spent[i] = execs[i] * cachedDurations[i]
      BY <3>2 DEF Spent
    <3>4. Spent'[i] = (execs[i] + (IF i = current THEN 1 ELSE 0)) * cachedDurations[i]
      BY <1>1, <1>2, <3>2 DEF Spent, timing
    <3>5. \A a, b \in Nat : (a + 1) * b = a * b + b
      OBVIOUS
    <3>6. CASE i = current
      BY <3>1, <3>3, <3>4, <3>5, <3>6
    <3>7. CASE i # current
      BY <3>1, <3>3, <3>4, <3>7
    <3>8. QED
      BY <3>6, <3>7
  <2>2. QED
    BY <2>1
<1>7. SumFunctionOnSet(Spent', Phases)
        = SumFunctionOnSet(Spent, Phases) + Spent'[current] - Spent[current]
  <2>1. \A i \in Phases : Spent[i] \in Int /\ Spent'[i] \in Int
    BY <1>1, <1>5, <1>6
  <2>2. \A i \in Phases \ {current} : Spent'[i] = Spent[i]
    BY <1>6
  <2>3. QED
    BY <1>1, <1>4, <2>1, <2>2, SumUpdate
<1>8. SumFunctionOnSet(Spent, Phases) \in Int
  BY <1>4, <1>5, SumInInt
<1>9. Spent'[current] = Spent[current] + cachedDurations[current]
  BY <1>1, <1>6
<1>10. given = SumFunctionOnSet(Spent, Phases)
  BY <1>2 DEF Plan
<1>11. given' = SumFunctionOnSet(Spent', Phases)
  <2>1. Spent[current] \in Int /\ cachedDurations[current] \in Int
    BY <1>1, <1>5
  <2>2. QED
    BY <1>1, <1>3, <1>7, <1>8, <1>9, <1>10, <2>1
<1>12. DOMAIN execs' = Phases
  BY <1>1, <1>2 DEF Plan
<1>13. QED
  BY <1>1, <1>2, <1>11, <1>12, PlanCarriesOver

LEMMA UntimedTimeInv ==
  ASSUME DriverInv, TimeInv, Untimed
  PROVE  TimeInv'
<1>1. UNCHANGED <<inputs, timing, given>> /\ Phases' = Phases
  BY DEF Untimed, RejectArguments, PanicOnArguments, SkipCompletePhase, StayOnPhase,
         Advance, Returned, PhaseReturns, vars, inputs, Phases
<1>2. CASE RejectArguments \/ PanicOnArguments
  <2>1. ~Planned /\ ~Planned'
    BY <1>2 DEF RejectArguments, PanicOnArguments, Return, DriverInv, Planned, Running
  <2>2. QED
    BY <1>1, <2>1 DEF TimeInv, TimeInputs, Unplanned, timing
<1>3. CASE SkipCompletePhase \/ Advance
  <2>1. /\ pc \in {"loop", "advance"} /\ UNCHANGED <<repeats, execs>>
        /\ \E next \in NextPhase(pattern, current, execs, repeats) : Follow(next)
    BY <1>3 DEF SkipCompletePhase, Advance
  <2>2. PICK next : Follow(next)
    BY <2>1
  <2>3. \/ pc' = "done" /\ outcome' = "completed"
        \/ pc' = "loop"
    BY <2>2 DEF Follow, Return
  <2>4. Planned /\ Planned' /\ DOMAIN execs = Phases
    BY <2>1, <2>3 DEF Planned, Running, DriverInv, TypeOK
  <2>5. \A i \in Phases : Begun(i)' = Begun(i)
    BY <2>1, <2>3 DEF Begun
  <2>6. QED
    BY <1>1, <2>1, <2>4, <2>5, SpentUnchanged
<1>4. CASE StayOnPhase
  <2>1. /\ pc = "advance" /\ pc' = "loop" /\ UNCHANGED <<repeats, execs>>
    BY <1>4 DEF StayOnPhase
  <2>2. Planned /\ Planned' /\ DOMAIN execs = Phases
    BY <2>1 DEF Planned, Running, DriverInv, TypeOK
  <2>3. \A i \in Phases : Begun(i)' = Begun(i)
    BY <2>1 DEF Begun
  <2>4. QED
    BY <1>1, <2>1, <2>2, <2>3, SpentUnchanged
<1>5. ASSUME NEW err \in PhaseResults, PhaseReturns(err) PROVE TimeInv'
  <2>1. /\ pc = "phase" /\ current \in Phases /\ DOMAIN execs = Phases
        /\ UNCHANGED <<repeats, current>>
        /\ execs' = [execs EXCEPT ![current] = @ + 1]
    BY <1>5 DEF PhaseReturns, DriverInv, TypeOK
  <2>2. \/ pc' = "done" /\ outcome' = "failed"
        \/ pc' = "advance"
    BY <1>5 DEF PhaseReturns, Return
  <2>3. Planned /\ Planned' /\ DOMAIN execs' = Phases
    BY <2>1, <2>2 DEF Planned, Running
  <2>4. \A i \in Phases : Begun(i)' = Begun(i)
    <3>1. \A i \in Phases : execs[i] \in Nat
      BY <2>1 DEF DriverInv, TypeOK
    <3>2. QED
      BY <2>1, <2>2, <3>1 DEF Begun
  <2>5. QED
    BY <1>1, <2>1, <2>3, <2>4, SpentUnchanged
<1>6. CASE Returned
  BY <1>1, <1>6
     DEF Returned, vars, TimeInv, TimeInputs, Planned, Running, Plan, Unplanned,
         timing, Spent, Begun
<1>7. QED
  BY <1>2, <1>3, <1>4, <1>5, <1>6 DEF Untimed

LEMMA NextTimeInv ==
  DriverInv /\ DriverInv' /\ TimeInv /\ [TimedNext]_timedVars => TimeInv'
<1> SUFFICES ASSUME DriverInv, DriverInv', TimeInv, [TimedNext]_timedVars
             PROVE  TimeInv'
  OBVIOUS
<1>1. CASE TimedStart
  BY <1>1, StartTimeInv
<1>2. CASE TimedStartPhase
  BY <1>2, StartPhaseTimeInv
<1>3. CASE Untimed
  BY <1>3, UntimedTimeInv
<1>4. CASE UNCHANGED timedVars
  <2>1. Phases' = Phases
    BY <1>4 DEF timedVars, vars, Phases
  <2>2. QED
    BY <1>4, <2>1
       DEF timedVars, vars, TimeInv, TimeInputs, Planned, Running, Plan, Unplanned,
           timing, Spent, Begun
<1>5. QED
  BY <1>1, <1>2, <1>3, <1>4 DEF TimedNext

LEMMA TimeInvHolds == TimedSpec => [](DriverInv /\ TimeInv)
<1>1. TimedSpec => []DriverInv
  BY DriverInvTimed
<1>2. QED
  BY <1>1, InitTimeInv, NextTimeInv, PTL DEF TimedSpec

(* The durations and the totals keep their types for a plan of any length:
   in particular no execution of a phase gets less than the minimum or more
   than the maximum, whether its duration comes from the workers or from a
   share of the runtime given on the command line. *)
THEOREM TimeTypeCorrect == TimedSpec => []TimedTypeOK
BY TypeFromTimeInv, TimeInvHolds, PTL

LEMMA GroupsFit ==
  ASSUME DriverInv, TimeInv
  PROVE  GroupsFitTheirPhase
<1> SUFFICES ASSUME runtime = 0, NEW i \in DOMAIN cachedDurations,
                    NEW j \in DOMAIN workers[i]
             PROVE  workers[i][j] <= cachedDurations[i]
  BY DEF GroupsFitTheirPhase
<1>1. TypeOK /\ TimeInputs /\ Plan /\ i \in Phases
  BY DEF DriverInv, TimeInv, Unplanned, Plan
<1>2. workers[i] \in Seq(MinPhaseDuration..MaxPhaseDuration)
  BY <1>1, InputsTyped
<1>3. workers[i][j] \in MinPhaseDuration..MaxPhaseDuration
  BY <1>2, LongestOfWorkers
<1>4. LongestWorker(workers[i]) \in 0..MaxPhaseDuration
      /\ workers[i][j] <= LongestWorker(workers[i])
  BY <1>2, LongestOfWorkers
<1>5. cachedDurations[i]
        = Bounded(MinPhaseDuration, LongestWorker(workers[i]), MaxPhaseDuration)
  BY <1>1 DEF Plan, PhaseDuration
<1>6. QED
  BY <1>3, <1>4, <1>5, DurationsAssumption DEF Bounded

(* The context a group is started with ends no later than its phase's, for
   any workers and any repeats. *)
THEOREM GroupsFitTheirPhases == TimedSpec => []GroupsFitTheirPhase
BY GroupsFit, TimeInvHolds, PTL

-----------------------------------------------------------------------------
(* The budget *)

(* The time of all the executions the table asks for *)
Whole == [i \in Phases |-> Repeat(i) * cachedDurations[i]]

LEMMA GivenWithinWhole ==
  ASSUME DriverInv, TimeInv, Planned
  PROVE  /\ SumFunctionOnSet(Whole, Phases) \in Nat
         /\ given <= SumFunctionOnSet(Whole, Phases)
         /\ outcome = "completed" => given = SumFunctionOnSet(Whole, Phases)
<1>1. TypeOK /\ RepeatsExact /\ TimeInputs /\ Plan /\ DOMAIN execs = Phases
  BY DEF DriverInv, TimeInv, Plan
<1>2. IsFiniteSet(Phases)
  BY <1>1, PhasesFinite
<1>3. \A i \in Phases : /\ Begun(i) \in Nat /\ Repeat(i) \in Nat
                        /\ cachedDurations[i] \in Nat
  <2>1. ASSUME NEW i \in Phases PROVE Repeat(i) \in Nat
    <3>1. Repeat(i) \in 1..MaxRepeatsPerPhase
      BY <1>1, RepeatPositive
    <3>2. QED
      BY <3>1, DriverAssumption
  <2>2. QED
    BY <1>1, <2>1, BegunTyped, SpentTyped, DurationsAssumption
<1>4. \A i \in Phases : Begun(i) <= Repeat(i)
  <2>1. ASSUME NEW i \in Phases PROVE Begun(i) <= Repeat(i)
    <3>1. execs[i] \in Nat /\ execs[i] <= Repeat(i) /\ Repeat(i) \in Nat
      BY <1>1, <1>3 DEF RepeatsExact, TypeOK
    <3>2. pc = "phase" /\ i = current => execs[i] < Repeat(i)
      BY DEF DriverInv, Incomplete
    <3>3. QED
      BY <3>1, <3>2 DEF Begun
  <2>2. QED
    BY <2>1
<1>5. \A a, b, c \in Nat : /\ a * c \in Nat
                           /\ a <= b => a * c <= b * c
  <2>1. ASSUME NEW a \in Nat, NEW b \in Nat, NEW c \in Nat, a <= b
        PROVE  a * c <= b * c
    <3>1. b - a \in Nat /\ (b - a) * c \in Nat
      BY <2>1
    <3>2. b * c = a * c + (b - a) * c
      OBVIOUS
    <3>3. a * c \in Nat
      OBVIOUS
    <3>4. QED
      BY <3>1, <3>2, <3>3
  <2>2. \A a, c \in Nat : a * c \in Nat
    OBVIOUS
  <2>3. QED
    BY <2>1, <2>2
<1>6. \A i \in Phases : /\ Spent[i] \in Nat /\ Whole[i] \in Nat
                        /\ Spent[i] <= Whole[i]
  <2>1. ASSUME NEW i \in Phases
        PROVE  Spent[i] \in Nat /\ Whole[i] \in Nat /\ Spent[i] <= Whole[i]
    <3>1. /\ Begun(i) * cachedDurations[i] \in Nat
          /\ Repeat(i) * cachedDurations[i] \in Nat
          /\ Begun(i) * cachedDurations[i] <= Repeat(i) * cachedDurations[i]
      BY <1>3, <1>4, <1>5
    <3>2. QED
      BY <3>1 DEF Spent, Whole
  <2>2. QED
    BY <2>1
<1>7. given = SumFunctionOnSet(Spent, Phases)
  BY <1>1 DEF Plan
<1>8. SumFunctionOnSet(Whole, Phases) \in Nat
  BY <1>2, <1>6, SumInNat
<1>9. SumFunctionOnSet(Spent, Phases) <= SumFunctionOnSet(Whole, Phases)
  <2>1. \A i \in Phases : Spent[i] \in Int /\ Whole[i] \in Int /\ Spent[i] <= Whole[i]
    BY <1>6
  <2>2. QED
    BY <1>2, <2>1, SumMonotone
<1>10. ASSUME outcome = "completed"
       PROVE  SumFunctionOnSet(Spent, Phases) = SumFunctionOnSet(Whole, Phases)
  <2>1. ~Running
    BY <1>10 DEF DriverInv
  <2>2. \A i \in Phases : Begun(i) = Repeat(i)
    BY <1>1, <1>3, <1>10, <2>1 DEF RepeatsExact, Begun, Running, TypeOK
  <2>3. Spent = Whole
    BY <2>2 DEF Spent, Whole
  <2>4. QED
    BY <2>3
<1>11. QED
  BY <1>7, <1>8, <1>9, <1>10

(* Without an override the announced total is the whole. *)
LEMMA BudgetOfWorkers ==
  ASSUME DriverInv, TimeInv, Planned, runtime = 0, Fits
  PROVE  announced = SumFunctionOnSet(Whole, Phases)
<1>1. TypeOK /\ TimeInputs /\ Plan
  BY DEF DriverInv, TimeInv
<1>2. PhaseTotals(workers, repeats, runtime, adjusted) = Whole
  <2>1. \A i \in Phases : cachedDurations[i] = PhaseDuration(workers, repeats,
       runtime, adjusted, i)
    BY <1>1 DEF Plan
  <2>2. QED
    BY <1>1, <2>1, InputsTyped DEF PhaseTotals, Whole, Repeat
<1>3. DOMAIN Whole = Phases
  BY DEF Whole
<1>4. SumFunction(Whole) = SumFunctionOnSet(Whole, Phases)
  BY <1>3 DEF SumFunction
<1>5. SumFunctionOnSet(Whole, Phases) \in Nat
  BY GivenWithinWhole
<1>6. SumFunctionOnSet(Whole, Phases) < Int64
  BY <1>2, <1>4 DEF Fits
<1>7. announced = Wrap(SumFunctionOnSet(Whole, Phases))
  BY <1>1, <1>2, <1>4 DEF Plan, TotalDuration
<1>8. QED
  BY <1>5, <1>6, <1>7, WrapFits

(* With an override every phase gets the same share of it, and the shares
   leave less than one unit for every execution. *)
LEMMA BudgetOfOverride ==
  ASSUME DriverInv, TimeInv, Planned, runtime > 0, Fits
  PROVE  /\ announced \in Nat
         /\ SumFunctionOnSet(Whole, Phases) <= announced
         /\ announced - SumFunctionOnSet(Whole, Phases)
              < GetTotalRepeats(repeats, workers)
<1> DEFINE t == GetTotalRepeats(repeats, workers)
           d == adjusted \div t
           R == [i \in Phases |-> Repeat(i)]
<1>1. TypeOK /\ TimeInputs /\ Plan
  BY DEF DriverInv, TimeInv
<1>2. t \in Nat \ {0} /\ t = SumFunctionOnSet(R, Phases)
  BY <1>1, TotalRepeats DEF Plan
<1>3. adjusted \in Nat
  BY <1>1, AdjustedInRange, DurationsAssumption DEF Plan
<1>4. /\ runtime \in MinPhaseDuration..MaxPhaseDuration
      /\ MinPhaseDuration * t \in Nat /\ MinPhaseDuration * t < Int64
  <2>1. runtime \in MinPhaseDuration..MaxPhaseDuration
    BY <1>1, InputsTyped, DurationsAssumption
  <2>2. MinPhaseDuration * t < Int64
    BY DEF Fits
  <2>3. \A a, b \in Nat : a * b \in Nat
    OBVIOUS
  <2>4. MinPhaseDuration \in Nat /\ t \in Nat
    BY <1>2, DurationsAssumption
  <2>5. QED
    BY <2>1, <2>2, <2>3, <2>4
<1>5. adjusted = IF runtime < MinPhaseDuration * t THEN MinPhaseDuration * t ELSE runtime
  <2>1. Wrap(MinPhaseDuration * t) = MinPhaseDuration * t
    BY <1>4, WrapFits
  <2>2. QED
    BY <1>1, <1>4, <2>1, DurationsAssumption DEF Plan, AdjustedRuntimeDuration
<1>6. d \in Nat /\ d * t <= adjusted /\ adjusted - d * t < t /\ d <= adjusted
  <2> HIDE DEF t
  <2>1. QED
    BY <1>2, <1>3, QuotientBounds
<1>7. d \in MinPhaseDuration..MaxPhaseDuration
  <2> HIDE DEF t
  <2>1. MinPhaseDuration \in Nat /\ MaxPhaseDuration \in Nat
        /\ MinPhaseDuration <= MaxPhaseDuration
    BY DurationsAssumption
  <2>2. CASE runtime < MinPhaseDuration * t
    <3>1. d = MinPhaseDuration
      BY <1>2, <1>5, <2>1, <2>2, QuotientExact
    <3>2. QED
      BY <2>1, <3>1
  <2>3. CASE ~(runtime < MinPhaseDuration * t)
    <3>1. MinPhaseDuration * t <= adjusted /\ adjusted <= MaxPhaseDuration
      BY <1>4, <1>5, <2>1, <2>3
    <3>2. MinPhaseDuration <= d
      BY <1>2, <1>3, <2>1, <3>1, QuotientAtLeast
    <3>3. QED
      BY <1>3, <1>6, <2>1, <3>1, <3>2
  <2>4. QED
    BY <2>2, <2>3
<1>8. \A i \in Phases : cachedDurations[i] = d
  BY <1>1, <1>7, DurationsAssumption DEF Plan, PhaseDuration, Bounded
<1>9. SumFunctionOnSet(Whole, Phases) = d * t
  <2>1. \A i \in Phases : R[i] \in Int
    <3>1. ASSUME NEW i \in Phases PROVE Repeat(i) \in Int
      <4>1. Repeat(i) \in 1..MaxRepeatsPerPhase
        BY <1>1, RepeatPositive
      <4>2. QED
        BY <4>1, DriverAssumption
    <3>2. QED
      BY <3>1
  <2>2. \A i \in Phases : Whole[i] = R[i] * d
    BY <1>8 DEF Whole
  <2>3. IsFiniteSet(Phases) /\ d \in Int
    BY <1>1, <1>6, PhasesFinite
  <2> HIDE DEF R, d
  <2>4. \A a, b \in Int : a * b = b * a
    OBVIOUS
  <2>5. \A i \in Phases : R[i] \in Int /\ Whole[i] = d * R[i]
    BY <2>1, <2>2, <2>3, <2>4
  <2>6. SumFunctionOnSet(Whole, Phases) = d * SumFunctionOnSet(R, Phases)
    BY <2>3, <2>5, SumScaled
  <2>7. QED
    BY <1>2, <2>6
<1>10. announced = adjusted
  BY <1>1 DEF Plan, TotalDuration
<1>11. QED
  BY <1>3, <1>6, <1>9, <1>10

LEMMA BudgetFromTimeInv ==
  ASSUME DriverInv, TimeInv
  PROVE  BudgetKept
<1> SUFFICES ASSUME Fits
             PROVE  /\ given <= announced
                    /\ outcome = "completed" =>
                         announced - given < GetTotalRepeats(repeats, workers)
  BY DEF BudgetKept
<1>1. CASE ~Planned
  BY <1>1 DEF TimeInv, Unplanned, Planned
<1>2. CASE Planned
  <2>1. TypeOK /\ TimeInputs /\ Plan
    BY <1>2 DEF DriverInv, TimeInv
  <2>2. GetTotalRepeats(repeats, workers) \in Nat \ {0}
    BY <2>1, TotalRepeats DEF Plan
  <2>3. given \in Nat
    BY TypeFromTimeInv DEF TimedTypeOK
  <2>4. runtime \in Nat
    BY <2>1, InputsTyped, DurationsAssumption
  <2>5. CASE runtime = 0
    <3>1. announced = SumFunctionOnSet(Whole, Phases)
      BY <1>2, <2>5, BudgetOfWorkers
    <3>2. QED
      BY <1>2, <2>2, <2>3, <3>1, GivenWithinWhole
  <2>6. CASE runtime > 0
    BY <1>2, <2>2, <2>3, <2>6, BudgetOfOverride, GivenWithinWhole
  <2>7. QED
    BY <2>4, <2>5, <2>6
<1>3. QED
  BY <1>1, <1>2

(* For every plan whose total fits an int64, every pattern and every runtime
   given on the command line: at no moment have the phases had more time
   than the total announced at the start, and a completed run has had all
   of it but the remainders of one division. *)
THEOREM BudgetIsKept == TimedSpec => []BudgetKept
BY BudgetFromTimeInv, TimeInvHolds, PTL
=============================================================================
