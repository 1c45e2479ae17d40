--------------------------- MODULE MCLoadedServer ---------------------------
(* Small instances of LoadedServer for TLC. *)
EXTENDS LoadedServer, TLC

CONSTANT a

(* The actions the workloads are made of *)
A == INSTANCE WorkloadServer WITH
       Background <- {}, Scripts <- {}, Allocations <- {}, Workloads <- {}

(* A phase that ends with its only group *)
MCPhases == {
  [setup |-> TRUE, teardown |-> TRUE, encodable |-> TRUE, hostValid |-> TRUE,
   limit |-> 1, workers |-> <<[instances |-> 2, duration |-> 1]>>] }

(* A critical section around a call, an answer that a failure follows, the
   answer 400, and a workload that is turned down and would have answered
   something else *)
MCLoads == {
  <<A!Lock(a), A!HTTPRequest, A!Unlock(a)>>,
  <<A!Respond("503"), A!HTTPRequest>>,
  <<A!Respond("400")>>,
  <<A!Respond("503"), A!Unknown>> }

(* A setup that is answered, though not well; the teardown enters the same
   critical section. *)
MCSetup == <<A!Respond("400")>>
MCTeardown == <<A!Lock(a), A!Unlock(a)>>

MCIds == {a}
=============================================================================
