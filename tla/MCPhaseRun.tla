----------------------------- MODULE MCPhaseRun -----------------------------
(* Small instances of PhaseRun for TLC. *)
EXTENDS PhaseRun, TLC

Group(n, d) == [instances |-> n, duration |-> d]

APhase(limit, groups) ==
  [setup |-> TRUE, teardown |-> TRUE, encodable |-> TRUE, hostValid |-> TRUE,
   limit |-> limit, workers |-> groups]

(* One group that fills the phase; two groups of which the first ends
   before the phase does; a runtime override longer than the groups *)
MCOrdinary == {
  APhase(1, <<Group(2, 1)>>),
  APhase(2, <<Group(1, 1), Group(1, 2)>>),
  APhase(3, <<Group(1, 1), Group(1, 1)>>) }

(* No group, no sections, a host no request can be built for, a workload
   that cannot be marshalled *)
MCUnusual == {
  APhase(1, <<>>),
  [APhase(1, <<Group(1, 1)>>) EXCEPT !.setup = FALSE, !.teardown = FALSE],
  [APhase(2, <<Group(1, 1), Group(1, 1)>>) EXCEPT !.setup = FALSE, !.hostValid = FALSE],
  [APhase(1, <<Group(1, 1)>>) EXCEPT !.encodable = FALSE] }

MCPhases == MCOrdinary \cup MCUnusual

MCOneWorker == { APhase(1, <<Group(1, 1)>>) }
=============================================================================
