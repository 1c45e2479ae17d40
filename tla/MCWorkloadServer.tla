-------------------------- MODULE MCWorkloadServer --------------------------
(* Small instances of WorkloadServer for TLC. *)
EXTENDS WorkloadServer, TLC

CONSTANTS a, b, c

Small == [size |-> 1, count |-> 3, limit |-> 3]
Large == [size |-> 3, count |-> 2, limit |-> 1]
Negative == [size |-> -1, count |-> 1, limit |-> 1]

MCAllocations == {Small, Large, Negative}

(* The critical section of plans/inefficient_locking.yaml, one around a call
   to another service, two nested ones, a request that can kill the process,
   one that answers early and then fails, one that Verify turns down
   although its first action is a Lock, one that panics in its section, at a
   status code or before that if the client gets an answer first, and some
   that leak memory, with different limits, of which the smaller one lets go
   of a larger piece, and a size that cannot be *)
MCWorkloads == {
  <<Lock(a), Work, Unlock(a)>>,
  <<Lock(a), HTTPRequest, Unlock(a)>>,
  <<Lock(a), Lock(b), Unlock(b), Unlock(a)>>,
  <<Panic, Respond("503"), MongodbQuery>>,
  <<Lock(a), Unknown>>,
  <<Lock(a), Respond(Invalid), Unlock(a)>>,
  <<Respond("503"), Respond(Invalid), Allocate(Negative)>>,
  <<Allocate(Small)>>,
  <<Allocate(Large)>> }

(* A script that produces a message in a critical section, in which a nil
   channel may end the process, and one that waits for the requests *)
MCScripts == {
  <<Lock(a), RabbitProduce, Unlock(a)>>,
  <<Lock(b), Unlock(b)>> }

(* Locks in opposite orders, a call that may fail in a critical section; and
   beside those a consumer, whose Unlock without a Lock ends the process or
   frees another's lock, and who has a mutex to himself *)
MCLockingWorkloads == {
  <<Lock(a), HTTPRequest, Lock(b), Unlock(b), Unlock(a)>>,
  <<Lock(b), Lock(a), Unlock(a), Unlock(b)>> }
MCLockingScripts == { <<Unlock(b)>>, <<Lock(c), Unlock(c)>> }

ASSUME MCBracketed ==
  /\ \A w \in MCWorkloads : Verified(w) => Bracketed(w)
  /\ \A w \in MCScripts : Bracketed(w)

MCIds == {a, b}
MCLockingIds == {a, b, c}

(* Requests are interchangeable; no property of the safety run is a liveness
   property *)
MCSymmetry == Permutations(Handlers \ Background)
=============================================================================
