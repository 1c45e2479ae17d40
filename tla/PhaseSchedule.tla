---------------------------- MODULE PhaseSchedule ----------------------------
(***************************************************************************)
(* What the client command promises about the order and the number of      *)
(* phase executions, without the loop that produces them: the plan and the *)
(* flags settle how often each phase is to be executed, and under which    *)
(* pattern; every execution is of a phase that is due under it; the        *)
(* command completes exactly when every phase has been executed as often   *)
(* as asked; after a failed execution nothing else is executed.            *)
(***************************************************************************)
EXTENDS Integers

CONSTANTS MaxPhases, MaxRepeatsPerPhase

VARIABLES
  plan,      \* for each phase the repeat it asks for, and a pattern
  flags,     \* the repeats and the pattern the command line asks for
  status,    \* pending, running, completed, failed or rejected
  pattern,   \* the pattern in force once the plan is accepted
  repeat,    \* how often each phase is to be executed
  execs      \* how often each phase has been executed

asked == <<plan, flags>>
vars == <<plan, flags, status, pattern, repeat, execs>>

Patterns == {"sequence", "cycle", "random"}

Init ==
  /\ status = "pending"
  /\ pattern = "sequence"
  /\ repeat = [i \in {} |-> 0]
  /\ execs = [i \in {} |-> 0]

Incomplete(i) == i \in DOMAIN repeat /\ execs[i] < repeat[i]

(* sequence: the lowest incomplete phase; cycle: the incomplete phase that
   was executed least often, the lowest such; random: any incomplete one *)
Due(i) ==
  /\ Incomplete(i)
  /\ pattern = "sequence" => \A j \in DOMAIN repeat : Incomplete(j) => i <= j
  /\ pattern = "cycle" =>
       \A j \in DOMAIN repeat : Incomplete(j) =>
         \/ execs[i] < execs[j]
         \/ execs[i] = execs[j] /\ i <= j

(* A positive flag asks for that many executions of every phase, 0 for the
   most there may be; -1 leaves it to the plan, whose wish is met as closely
   as at least one execution and at most the most allow. *)
AsksFor(i, times) ==
  /\ times \in 1..MaxRepeatsPerPhase
  /\ flags.repeats > 0 => times = flags.repeats
  /\ flags.repeats = 0 => times = MaxRepeatsPerPhase
  /\ flags.repeats < 0 =>
       \A other \in 1..MaxRepeatsPerPhase :
         /\ plan.repeat[i] <= other => times <= other
         /\ plan.repeat[i] >= other => times >= other

(* The flag's pattern, or without one the plan's, or else the sequence *)
AsksForPattern(kind) ==
  /\ kind \in Patterns
  /\ flags.pattern # "" => kind = flags.pattern
  /\ flags.pattern = "" /\ kind # plan.pattern =>
       plan.pattern \notin Patterns /\ kind = "sequence"

Reject ==
  /\ status = "pending"
  /\ status' = "rejected"
  /\ UNCHANGED <<asked, pattern, repeat, execs>>

Accept(n) ==
  /\ status = "pending"
  /\ status' = "running"
  /\ DOMAIN plan.repeat = 0..(n-1)
  /\ DOMAIN repeat' = 0..(n-1)
  /\ \A i \in 0..(n-1) : AsksFor(i, repeat'[i])
  /\ AsksForPattern(pattern')
  /\ execs' = [i \in 0..(n-1) |-> 0]
  /\ UNCHANGED asked

Run(i, result) ==
  /\ status = "running"
  /\ Due(i)
  /\ execs' = [execs EXCEPT ![i] = @ + 1]
  /\ status' = result
  /\ UNCHANGED <<asked, pattern, repeat>>

Complete ==
  /\ status = "running"
  /\ \A i \in DOMAIN repeat : execs[i] = repeat[i]
  /\ status' = "completed"
  /\ UNCHANGED <<asked, pattern, repeat, execs>>

Next ==
  \/ Reject
  \/ \E n \in 1..MaxPhases : Accept(n)
  \/ \E i \in DOMAIN repeat, result \in {"running", "failed"} : Run(i, result)
  \/ Complete

Spec == Init /\ [][Next]_vars
=============================================================================
