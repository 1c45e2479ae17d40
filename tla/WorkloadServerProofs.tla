------------------------ MODULE WorkloadServerProofs ------------------------
(***************************************************************************)
(* Proofs about WorkloadServer for any number of concurrent requests and   *)
(* consumers, any set of mutex ids and any workloads and scripts, as long  *)
(* as the scripts and the workloads that Verify accepts bracket their      *)
(* critical sections.                                                      *)
(***************************************************************************)
EXTENDS WorkloadServer, WellFoundedInduction, TLAPS

AllBracketed ==
  /\ \A w \in Workloads : Verified(w) => Bracketed(w)
  /\ \A w \in Scripts : Bracketed(w)

(* What a handler's pc says about the action it is at, and about the request
   it serves. *)
Positioned(h) ==
  /\ workload[h] \in Seq(Actions)
  /\ workload[h] # <<>> => \/ workload[h] \in Workloads /\ Verified(workload[h])
                           \/ workload[h] \in Scripts
  /\ next[h] \in 1..(Len(workload[h]) + 1)
  /\ pc[h] = "idle" => next[h] = 1
  /\ pc[h] \in {"call", "lookup", "lock", "unlock"} => next[h] <= Len(workload[h])
  /\ pc[h] = "call" => workload[h][next[h]] \in Calls
  /\ pc[h] \in {"lookup", "lock"} => \E id \in Ids : workload[h][next[h]] = Lock(id)
  /\ pc[h] = "unlock" => \E id \in Ids : workload[h][next[h]] = Unlock(id)

HoldersHaveLocks ==
  \A h \in Handlers, id \in Ids : Holds(h, id) => locks[id] = "locked"

ServerInv ==
  /\ TypeOK
  /\ \A h \in Handlers : Positioned(h)
  /\ HoldersHaveLocks
  /\ MutualExclusion

-----------------------------------------------------------------------------
(* Critical sections *)

LEMMA ActionsDiffer ==
  /\ \A i, j : Lock(i) # Unlock(j)
  /\ \A i, j : Lock(i) # Respond(j) /\ Unlock(i) # Respond(j)
  /\ \A i, j : Lock(i) # Allocate(j) /\ Unlock(i) # Allocate(j)
  /\ \A i : Lock(i) \notin {Work, Panic, Unknown} \cup Calls
  /\ \A i : Unlock(i) \notin {Work, Panic, Unknown} \cup Calls
  /\ \A i, j : Lock(i) = Lock(j) => i = j
  /\ \A i, j : Unlock(i) = Unlock(j) => i = j
<1>1. \A call \in Calls : call[1] = "Call"
  BY DEF Calls, Call, HTTPRequest, HTTPGetRequest, RedisCommand, PostgresqlQuery,
         MysqlQuery, SnowflakeQuery, MongodbQuery, ElasticQuery, ElasticInsert,
         CreateFile, RandomIO, KafkaProduce, RabbitProduce, MinioObject, SqlQuery,
         RedisMethod
<1>2. \A i : Lock(i)[1] = "Lock" /\ Unlock(i)[1] = "Unlock"
  BY DEF Lock, Unlock
<1>3. \A i : Lock(i) \notin Calls /\ Unlock(i) \notin Calls
  BY <1>1, <1>2
<1>4. QED
  BY <1>3 DEF Lock, Unlock, Respond, Allocate, Work, Panic, Unknown

LEMMA NothingHeldAtFirst ==
  ASSUME NEW w, NEW id
  PROVE  ~HeldAt(w, 1, id)
BY DEF HeldAt

(* One action further, id is held if the action locked it, or if it was held
   and the action did not unlock it. *)
LEMMA HeldAfterAction ==
  ASSUME NEW w, NEW id, NEW k \in Nat, k >= 1
  PROVE  HeldAt(w, k + 1, id) <=>
           \/ w[k] = Lock(id)
           \/ HeldAt(w, k, id) /\ w[k] # Unlock(id)
<1>1. ASSUME w[k] = Lock(id) PROVE HeldAt(w, k + 1, id)
  <2>1. k \in 1..((k + 1) - 1) /\ (k + 1)..((k + 1) - 1) = {}
    OBVIOUS
  <2>2. QED
    BY <1>1, <2>1 DEF HeldAt
<1>2. ASSUME HeldAt(w, k, id), w[k] # Unlock(id) PROVE HeldAt(w, k + 1, id)
  <2>1. PICK i \in 1..(k-1) : /\ w[i] = Lock(id)
                              /\ \A j \in (i+1)..(k-1) : w[j] # Unlock(id)
    BY <1>2 DEF HeldAt
  <2>2. \A j \in (i+1)..((k+1)-1) : w[j] # Unlock(id)
    BY <1>2, <2>1
  <2>3. i \in 1..((k+1)-1)
    BY <2>1
  <2>4. QED
    BY <2>1, <2>2, <2>3 DEF HeldAt
<1>3. ASSUME HeldAt(w, k + 1, id), w[k] # Lock(id)
      PROVE  HeldAt(w, k, id) /\ w[k] # Unlock(id)
  <2>1. PICK i \in 1..((k+1)-1) : /\ w[i] = Lock(id)
                                  /\ \A j \in (i+1)..((k+1)-1) : w[j] # Unlock(id)
    BY <1>3 DEF HeldAt
  <2>2. i # k
    BY <1>3, <2>1
  <2>3. i \in 1..(k-1) /\ k \in (i+1)..((k+1)-1)
    BY <2>1, <2>2
  <2>4. \A j \in (i+1)..(k-1) : w[j] # Unlock(id)
    BY <2>1
  <2>5. QED
    BY <2>1, <2>3, <2>4 DEF HeldAt
<1>4. QED
  BY <1>1, <1>2, <1>3

-----------------------------------------------------------------------------
(* Types *)

LEMMA InitTypeOK == Init => TypeOK
<1> SUFFICES ASSUME Init PROVE TypeOK
  OBVIOUS
<1>1. up \in BOOLEAN /\ doomed \in BOOLEAN /\ leaked \in Nat
  BY DEF Init
<1>2. cancelled \in [Handlers -> BOOLEAN]
  BY DEF Init
<1>3. \A h \in Handlers : (registry = h) <=> (pc[h] \in {"lookup", "unlock"})
  BY ServerAssumption DEF Init
<1>4. QED
  BY <1>1, <1>2, <1>3 DEF Init, TypeOK, Statuses, Codes

LEMMA DieTypeOK ==
  ASSUME TypeOK, Die
  PROVE  TypeOK'
BY ServerAssumption DEF TypeOK, Die, Statuses, Codes

LEMMA LeakIsSum ==
  ASSUME NEW n \in Nat, NEW a \in Allocations, ~MakePanics(a), NEW k \in 0..a.count
  PROVE  n + k * a.size \in Nat
<1>1. a.size \in Int /\ a.count \in Nat
  BY ServerAssumption
<1>2. CASE k = 0
  BY <1>1, <1>2
<1>3. CASE k # 0
  <2>1. k \in Nat /\ a.count > 0
    BY <1>1, <1>3
  <2>2. a.size \in Nat
    BY <1>1, <2>1 DEF MakePanics
  <2>3. k * a.size \in Nat
    BY <2>1, <2>2
  <2>4. QED
    BY <2>3
<1>4. QED
  BY <1>2, <1>3

(* A step of a handler that neither takes nor returns GLOBAL_MUTEX. *)
LEMMA HandleTypeOK ==
  ASSUME TypeOK, NEW h \in Handlers,
         \/ \E w \in Workloads : Receive(h, w) \/ RejectRequest(h, w)
         \/ \E w \in Scripts : TakeMessage(h, w)
         \/ Cancel(h) \/ Complete(h) \/ DoWork(h) \/ DoPanic(h) \/ StartCall(h)
         \/ \E code \in HeaderCodes : DoRespond(h, code)
         \/ \E a \in Allocations : DoAllocate(h, a)
         \/ EndCall(h) \/ ActionPanics(h)
         \/ \E id \in Ids : AcquireLock(h, id)
  PROVE  TypeOK'
<1> USE DEF process, request
<1>1. CASE \E w \in Workloads : Receive(h, w) \/ RejectRequest(h, w)
  <2>1. PICK w \in Workloads : Receive(h, w) \/ RejectRequest(h, w)
    BY <1>1
  <2>2. CASE Receive(h, w)
    BY <2>2 DEF TypeOK, Receive, Begin, Statuses, Codes
  <2>3. CASE RejectRequest(h, w)
    BY <2>3 DEF TypeOK, RejectRequest, Statuses, Codes
  <2>4. QED
    BY <2>1, <2>2, <2>3
<1>2. CASE Cancel(h)
  BY <1>2 DEF TypeOK, Cancel
<1>3. CASE Complete(h)
  BY <1>3 DEF TypeOK, Complete, Leave, WriteHeader, Statuses, Codes
<1>4. CASE DoWork(h)
  BY <1>4 DEF TypeOK, DoWork, At, Proceed
<1>5. CASE DoPanic(h)
  <2>1. doomed' \in BOOLEAN
    BY <1>5 DEF TypeOK, DoPanic
  <2>2. /\ pc[h] = "next" /\ pc' = [pc EXCEPT ![h] = "next"]
        /\ next' = [next EXCEPT ![h] = @ + 1]
        /\ UNCHANGED <<up, leaked, workload, cancelled, status, registry, locks>>
    BY <1>5 DEF DoPanic, At, Proceed
  <2>3. QED
    BY <2>1, <2>2 DEF TypeOK
<1>6. CASE StartCall(h)
  BY <1>6 DEF TypeOK, StartCall, At
<1>7. CASE \E code \in HeaderCodes : DoRespond(h, code)
  <2>1. PICK code \in HeaderCodes : DoRespond(h, code)
    BY <1>7
  <2>2. status' \in [Handlers -> Statuses]
    BY <2>1 DEF TypeOK, DoRespond, WriteHeader, Statuses, HeaderCodes
  <2>3. /\ pc[h] = "next" /\ pc' = [pc EXCEPT ![h] = "next"]
        /\ next' = [next EXCEPT ![h] = @ + 1]
        /\ UNCHANGED <<up, doomed, leaked, workload, cancelled, registry, locks>>
    BY <2>1 DEF DoRespond, At, Proceed
  <2>4. QED
    BY <2>2, <2>3 DEF TypeOK
<1>8. CASE CallSucceeds(h)
  BY <1>8 DEF TypeOK, CallSucceeds, MayEnd, Proceed
<1>9. CASE CallFails(h)
  BY <1>9 DEF TypeOK, CallFails, MayEnd, Leave, WriteHeader, Statuses, Codes
<1>10. CASE CallPanics(h)
  BY <1>10 DEF TypeOK, CallPanics, MayEnd, Leave, Statuses, Codes
<1>11. CASE \E id \in Ids : AcquireLock(h, id)
  BY <1>11 DEF TypeOK, AcquireLock, Proceed
<1>12. CASE \E w \in Scripts : TakeMessage(h, w)
  <2>1. PICK w \in Scripts : TakeMessage(h, w)
    BY <1>12
  <2>2. QED
    BY <2>1 DEF TypeOK, TakeMessage, Begin, Statuses, Codes
<1>13. CASE ScriptPanics(h)
  BY <1>13, DieTypeOK DEF ScriptPanics
<1>14. CASE \E a \in Allocations : DoAllocate(h, a)
  <2>1. PICK a \in Allocations : DoAllocate(h, a)
    BY <1>14
  <2>2. leaked' \in Nat
    <3>1. /\ ~MakePanics(a)
          /\ \E k \in 0..a.count : leaked' = leaked + k * a.size
      BY <2>1 DEF DoAllocate
    <3>2. leaked \in Nat
      BY DEF TypeOK
    <3>3. QED
      BY <3>1, <3>2, LeakIsSum
  <2>3. /\ pc[h] = "next" /\ pc' = [pc EXCEPT ![h] = "next"]
        /\ next' = [next EXCEPT ![h] = @ + 1]
        /\ UNCHANGED <<up, doomed, workload, cancelled, status, registry, locks>>
    BY <2>1 DEF DoAllocate, At, Proceed
  <2>4. QED
    BY <2>2, <2>3 DEF TypeOK
<1>15. CASE ActionPanics(h)
  <2>1. pc[h] = "next"
    BY <1>15 DEF ActionPanics, At
  <2>2. status' \in [Handlers -> Statuses]
    BY <1>15 DEF TypeOK, ActionPanics, Statuses
  <2>3. Leave(h) /\ UNCHANGED <<up, doomed, leaked, registry, locks>>
    BY <1>15 DEF ActionPanics
  <2>4. QED
    BY <2>1, <2>2, <2>3 DEF TypeOK, Leave
<1>16. QED
  BY <1>1, <1>2, <1>3, <1>4, <1>5, <1>6, <1>7, <1>8, <1>9, <1>10, <1>11, <1>12,
     <1>13, <1>14, <1>15 DEF EndCall

(* The steps that take and return GLOBAL_MUTEX. *)
LEMMA RegistryTypeOK ==
  ASSUME TypeOK, NEW h \in Handlers, NEW id \in Ids,
         EnterRegistry(h, id) \/ Lookup(h, id) \/ ReleaseLock(h, id)
  PROVE  TypeOK'
<1> USE DEF process, request
<1>1. CASE EnterRegistry(h, id)
  BY <1>1, ServerAssumption DEF TypeOK, EnterRegistry, At
<1>2. CASE Lookup(h, id)
  BY <1>2, ServerAssumption DEF TypeOK, Lookup
<1>3. CASE ReleaseLock(h, id)
  BY <1>3, ServerAssumption DEF TypeOK, ReleaseLock, Proceed
<1>4. QED
  BY <1>1, <1>2, <1>3

LEMMA NextTypeOK == TypeOK /\ [Next]_vars => TypeOK'
<1> SUFFICES ASSUME TypeOK, [Next]_vars PROVE TypeOK'
  OBVIOUS
<1>1. ASSUME NEW h \in Handlers, Handle(h) PROVE TypeOK'
  BY <1>1, HandleTypeOK, RegistryTypeOK, DieTypeOK DEF Handle, Compute, FatalUnlock
<1>2. CASE Crash \/ Signal
  BY <1>2, DieTypeOK DEF Crash, Signal
<1>3. CASE Restart
  BY <1>3 DEF Restart, TypeOK
<1>4. CASE UNCHANGED vars
  BY <1>4 DEF vars, TypeOK
<1>5. QED
  BY <1>1, <1>2, <1>3, <1>4 DEF Next

(* Every variable keeps its type, and GLOBAL_MUTEX is held exactly by the
   handler that is between its Lock and its Unlock. *)
THEOREM TypeCorrect == Spec => []TypeOK
BY InitTypeOK, NextTypeOK, PTL DEF Spec

-----------------------------------------------------------------------------
(***************************************************************************)
(* Mutual exclusion.  MutualExclusion is not inductive by itself: that a   *)
(* second request cannot acquire the lock needs HoldersHaveLocks, and that *)
(* an Unlock frees nobody else's section needs both, and that the request  *)
(* unlocking holds the lock, which is where Bracketed comes in.            *)
(***************************************************************************)

LEMMA InitServerInv == Init => ServerInv
<1> SUFFICES ASSUME Init PROVE ServerInv
  OBVIOUS
<1>1. TypeOK
  BY InitTypeOK
<1>2. ASSUME NEW h \in Handlers PROVE Positioned(h)
  <2>1. /\ pc[h] = "idle" /\ workload[h] = <<>> /\ next[h] = 1
    BY DEF Init
  <2>2. <<>> \in Seq(Actions) /\ Len(<<>>) = 0
    OBVIOUS
  <2>3. QED
    BY <2>1, <2>2 DEF Positioned
<1>3. \A h \in Handlers, id \in Ids : ~Holds(h, id)
  BY DEF Init, Holds
<1>4. QED
  BY <1>1, <1>2, <1>3 DEF ServerInv, HoldersHaveLocks, MutualExclusion

(* A step that lets nobody enter a critical section and frees no lock. *)
LEMMA NobodyEnters ==
  ASSUME ServerInv, TypeOK',
         \A h \in Handlers : Positioned(h)',
         \A h \in Handlers, id \in Ids : Holds(h, id)' => Holds(h, id),
         \A id \in Ids : locks[id] = "locked" => locks'[id] = "locked"
  PROVE  ServerInv'
<1>1. HoldersHaveLocks'
  BY DEF ServerInv, HoldersHaveLocks
<1>2. MutualExclusion'
  BY DEF ServerInv, MutualExclusion
<1>3. QED
  BY <1>1, <1>2 DEF ServerInv

LEMMA OthersStay ==
  ASSUME NEW g \in Handlers,
         pc'[g] = pc[g], workload'[g] = workload[g], next'[g] = next[g]
  PROVE  /\ Positioned(g) => Positioned(g)'
         /\ \A id : Holds(g, id)' = Holds(g, id)
BY DEF Positioned, Holds, HeldAt

(* The same, for a step of one handler. *)
LEMMA OneHandlerMoves ==
  ASSUME ServerInv, TypeOK', NEW h \in Handlers,
         \A g \in Handlers \ {h} :
           pc'[g] = pc[g] /\ workload'[g] = workload[g] /\ next'[g] = next[g],
         Positioned(h)',
         \A id \in Ids : Holds(h, id)' => Holds(h, id),
         \A id \in Ids : locks[id] = "locked" => locks'[id] = "locked"
  PROVE  ServerInv'
<1>1. \A g \in Handlers \ {h} : /\ Positioned(g) => Positioned(g)'
                                /\ \A id : Holds(g, id)' = Holds(g, id)
  BY OthersStay
<1>2. \A g \in Handlers : Positioned(g)'
  BY <1>1 DEF ServerInv
<1>3. \A g \in Handlers, id \in Ids : Holds(g, id)' => Holds(g, id)
  BY <1>1
<1>4. QED
  BY <1>2, <1>3, NobodyEnters

LEMMA ReceiveServerInv ==
  ASSUME ServerInv, TypeOK', NEW h \in Handlers, NEW w,
         \/ w \in Workloads /\ Receive(h, w)
         \/ w \in Scripts /\ TakeMessage(h, w)
  PROVE  ServerInv'
<1>1. /\ pc'[h] = "next" /\ workload'[h] = w /\ next'[h] = 1
      /\ \A g \in Handlers \ {h} :
           pc'[g] = pc[g] /\ workload'[g] = workload[g] /\ next'[g] = next[g]
      /\ locks' = locks
  BY DEF Receive, TakeMessage, Begin, ServerInv, TypeOK, Positioned
<1>2. /\ w \in Seq(Actions) /\ Len(w) \in Nat
      /\ (w \in Workloads /\ Verified(w)) \/ w \in Scripts
  <2>1. ScriptSteps \subseteq Actions
    BY DEF Actions
  <2>2. Seq(ScriptSteps) \subseteq Seq(Actions)
    BY <2>1
  <2>3. QED
    BY <2>2, ServerAssumption DEF Receive
<1>3. Positioned(h)'
  BY <1>1, <1>2 DEF Positioned
<1>4. \A id \in Ids : ~Holds(h, id)'
  BY <1>1, NothingHeldAtFirst DEF Holds, HeldAt
<1>5. QED
  BY <1>1, <1>3, <1>4, OneHandlerMoves

LEMMA LeaveServerInv ==
  ASSUME ServerInv, TypeOK', NEW h \in Handlers, Leave(h), UNCHANGED locks
  PROVE  ServerInv'
<1>1. /\ pc'[h] = "idle" /\ workload'[h] = <<>> /\ next'[h] = 1
      /\ \A g \in Handlers \ {h} :
           pc'[g] = pc[g] /\ workload'[g] = workload[g] /\ next'[g] = next[g]
  BY DEF Leave, ServerInv, TypeOK
<1>2. <<>> \in Seq(Actions) /\ Len(<<>>) = 0
  OBVIOUS
<1>3. Positioned(h)'
  BY <1>1, <1>2 DEF Positioned
<1>4. \A id \in Ids : ~Holds(h, id)'
  BY <1>1 DEF Holds
<1>5. QED
  BY <1>1, <1>3, <1>4, OneHandlerMoves

(* A handler waits inside an action: it stays where it is in its workload. *)
LEMMA WaitServerInv ==
  ASSUME ServerInv, TypeOK', NEW h \in Handlers,
         StartCall(h) \/ \E id \in Ids : EnterRegistry(h, id) \/ Lookup(h, id)
  PROVE  ServerInv'
<1>1. /\ workload' = workload /\ next' = next
      /\ pc[h] # "idle" /\ pc'[h] # "idle"
      /\ \A g \in Handlers \ {h} : pc'[g] = pc[g]
  BY DEF StartCall, EnterRegistry, Lookup, At, ServerInv, TypeOK, request
<1>2. \A id \in Ids : locks[id] = "locked" => locks'[id] = "locked"
  BY DEF StartCall, EnterRegistry, Lookup, ServerInv, TypeOK
<1>3. Positioned(h)'
  <2>1. Positioned(h)
    BY DEF ServerInv
  <2>2. CASE StartCall(h)
    BY <1>1, <2>1, <2>2 DEF StartCall, At, Positioned, ServerInv, TypeOK
  <2>3. ASSUME NEW id \in Ids, EnterRegistry(h, id) PROVE Positioned(h)'
    BY <1>1, <2>1, <2>3 DEF EnterRegistry, At, Positioned, ServerInv, TypeOK
  <2>4. ASSUME NEW id \in Ids, Lookup(h, id) PROVE Positioned(h)'
    BY <1>1, <2>1, <2>4 DEF Lookup, Positioned, ServerInv, TypeOK
  <2>5. QED
    BY <2>2, <2>3, <2>4
<1>4. \A id \in Ids : Holds(h, id)' => Holds(h, id)
  BY <1>1 DEF Holds, HeldAt
<1>5. QED
  BY <1>1, <1>2, <1>3, <1>4, OneHandlerMoves

(* Where a handler is after an action, whatever the action. *)
LEMMA ProceedPosition ==
  ASSUME ServerInv, NEW h \in Handlers, pc[h] # "idle",
         next[h] <= Len(workload[h]), Proceed(h), UNCHANGED workload
  PROVE  /\ Positioned(h)'
         /\ \A g \in Handlers \ {h} :
              pc'[g] = pc[g] /\ workload'[g] = workload[g] /\ next'[g] = next[g]
         /\ \A id \in Ids : Holds(h, id)' <=>
              \/ workload[h][next[h]] = Lock(id)
              \/ Holds(h, id) /\ workload[h][next[h]] # Unlock(id)
<1>1. Positioned(h) /\ next[h] \in Nat /\ next[h] >= 1
  BY DEF ServerInv, Positioned
<1>2. /\ pc'[h] = "next" /\ next'[h] = next[h] + 1 /\ workload' = workload
      /\ \A g \in Handlers \ {h} : pc'[g] = pc[g] /\ next'[g] = next[g]
  BY DEF Proceed, ServerInv, TypeOK
<1>3. Len(workload[h]) \in Nat
  BY <1>1 DEF Positioned
<1>4. Positioned(h)'
  BY <1>1, <1>2, <1>3 DEF Positioned
<1>5. \A id \in Ids : Holds(h, id)' <=> HeldAt(workload[h], next[h] + 1, id)
  BY <1>2 DEF Holds, HeldAt
<1>6. \A id \in Ids : HeldAt(workload[h], next[h] + 1, id) <=>
        \/ workload[h][next[h]] = Lock(id)
        \/ HeldAt(workload[h], next[h], id) /\ workload[h][next[h]] # Unlock(id)
  BY <1>1, HeldAfterAction
<1>7. \A id \in Ids : Holds(h, id) <=> HeldAt(workload[h], next[h], id)
  BY DEF Holds
<1>8. \A g \in Handlers \ {h} :
        pc'[g] = pc[g] /\ workload'[g] = workload[g] /\ next'[g] = next[g]
  BY <1>2
<1>9. QED
  BY <1>4, <1>5, <1>6, <1>7, <1>8

LEMMA PassServerInv ==
  ASSUME ServerInv, TypeOK', NEW h \in Handlers,
         \/ DoWork(h) \/ DoPanic(h) \/ CallSucceeds(h)
         \/ \E code \in HeaderCodes : DoRespond(h, code)
         \/ \E a \in Allocations : DoAllocate(h, a)
  PROVE  ServerInv'
<1>1. /\ pc[h] # "idle" /\ next[h] <= Len(workload[h])
      /\ Proceed(h) /\ UNCHANGED workload /\ UNCHANGED locks
  BY DEF DoWork, DoPanic, CallSucceeds, MayEnd, DoRespond, DoAllocate, At, request, ServerInv,
         Positioned
<1>2. \A id \in Ids : workload[h][next[h]] # Lock(id)
  <2>1. \/ workload[h][next[h]] \in {Work, Panic} \cup Calls
        \/ \E code \in HeaderCodes : workload[h][next[h]] = Respond(code)
        \/ \E a \in Allocations : workload[h][next[h]] = Allocate(a)
    BY DEF DoWork, DoPanic, CallSucceeds, MayEnd, DoRespond, DoAllocate, At, ServerInv,
           Positioned
  <2>2. QED
    BY <2>1, ActionsDiffer
<1>3. QED
  BY <1>1, <1>2, ProceedPosition, OneHandlerMoves

(* The lock was free, so nobody was in a section of id. *)
LEMMA AcquireServerInv ==
  ASSUME ServerInv, TypeOK', NEW h \in Handlers, NEW id \in Ids, AcquireLock(h, id)
  PROVE  ServerInv'
<1>1. /\ pc[h] # "idle" /\ next[h] <= Len(workload[h])
      /\ Proceed(h) /\ UNCHANGED workload
      /\ workload[h][next[h]] = Lock(id)
  BY DEF AcquireLock, request, ServerInv, Positioned
<1>2. /\ locks[id] # "locked" /\ locks'[id] = "locked"
      /\ \A i \in Ids \ {id} : locks'[i] = locks[i]
  BY DEF AcquireLock, ServerInv, TypeOK
<1>3. \A g \in Handlers : ~Holds(g, id)
  BY <1>2 DEF ServerInv, HoldersHaveLocks
<1>4. /\ Positioned(h)'
      /\ \A g \in Handlers \ {h} :
           pc'[g] = pc[g] /\ workload'[g] = workload[g] /\ next'[g] = next[g]
      /\ \A i \in Ids \ {id} : Holds(h, i)' => Holds(h, i)
  BY <1>1, ProceedPosition, ActionsDiffer
<1>5. \A g \in Handlers \ {h} : /\ Positioned(g) => Positioned(g)'
                                /\ \A i : Holds(g, i)' = Holds(g, i)
  BY <1>4, OthersStay
<1>6. \A g \in Handlers : Positioned(g)'
  BY <1>4, <1>5 DEF ServerInv
<1>7. HoldersHaveLocks'
  BY <1>2, <1>4, <1>5 DEF ServerInv, HoldersHaveLocks
<1>8. MutualExclusion'
  BY <1>3, <1>4, <1>5 DEF ServerInv, MutualExclusion
<1>9. QED
  BY <1>6, <1>7, <1>8 DEF ServerInv

(* A handler about to unlock is in the section: its workload is bracketed. *)
LEMMA UnlockerHolds ==
  ASSUME AllBracketed, ServerInv, NEW h \in Handlers, NEW id \in Ids,
         pc[h] = "unlock", workload[h][next[h]] = Unlock(id)
  PROVE  Holds(h, id) /\ locks[id] = "locked"
<1>1. next[h] \in 1..Len(workload[h])
  BY DEF ServerInv, Positioned
<1>2. workload[h] # <<>>
  BY <1>1
<1>3. Bracketed(workload[h])
  BY <1>2 DEF ServerInv, Positioned, AllBracketed
<1>4. Holds(h, id)
  BY <1>1, <1>3 DEF Bracketed, Holds
<1>5. QED
  BY <1>4 DEF ServerInv, HoldersHaveLocks

LEMMA ReleaseServerInv ==
  ASSUME AllBracketed, ServerInv, TypeOK',
         NEW h \in Handlers, NEW id \in Ids, ReleaseLock(h, id)
  PROVE  ServerInv'
<1>1. /\ pc[h] = "unlock" /\ next[h] <= Len(workload[h])
      /\ Proceed(h) /\ UNCHANGED workload
      /\ workload[h][next[h]] = Unlock(id)
  BY DEF ReleaseLock, request, ServerInv, Positioned
<1>2. Holds(h, id)
  BY <1>1, UnlockerHolds
<1>3. \A i \in Ids \ {id} : locks'[i] = locks[i]
  BY DEF ReleaseLock, ServerInv, TypeOK
<1>4. /\ Positioned(h)'
      /\ \A g \in Handlers \ {h} :
           pc'[g] = pc[g] /\ workload'[g] = workload[g] /\ next'[g] = next[g]
      /\ \A i \in Ids : Holds(h, i)' => Holds(h, i) /\ i # id
  BY <1>1, ProceedPosition, ActionsDiffer
<1>5. \A g \in Handlers \ {h} : /\ Positioned(g) => Positioned(g)'
                                /\ \A i : Holds(g, i)' = Holds(g, i)
  BY <1>4, OthersStay
<1>6. \A g \in Handlers : Positioned(g)'
  BY <1>4, <1>5 DEF ServerInv
<1>7. \A g \in Handlers, i \in Ids : Holds(g, i)' => Holds(g, i) /\ i # id
  BY <1>2, <1>4, <1>5 DEF ServerInv, MutualExclusion
<1>8. HoldersHaveLocks'
  BY <1>3, <1>7 DEF ServerInv, HoldersHaveLocks
<1>9. MutualExclusion'
  BY <1>7 DEF ServerInv, MutualExclusion
<1>10. QED
  BY <1>6, <1>8, <1>9 DEF ServerInv

LEMMA DieServerInv ==
  ASSUME TypeOK', Die
  PROVE  ServerInv'
<1>1. \A h \in Handlers : pc'[h] = "idle" /\ workload'[h] = <<>> /\ next'[h] = 1
  BY DEF Die
<1>2. <<>> \in Seq(Actions) /\ Len(<<>>) = 0
  OBVIOUS
<1>3. ASSUME NEW h \in Handlers PROVE Positioned(h)'
  <2>1. pc'[h] = "idle" /\ workload'[h] = <<>> /\ next'[h] = 1
    BY <1>1
  <2>2. QED
    BY <1>2, <2>1 DEF Positioned
<1>4. \A h \in Handlers, id \in Ids : ~Holds(h, id)'
  BY <1>1 DEF Holds
<1>5. QED
  BY <1>3, <1>4 DEF ServerInv, HoldersHaveLocks, MutualExclusion

LEMMA HandleServerInv ==
  ASSUME AllBracketed, ServerInv, TypeOK', NEW h \in Handlers, Handle(h)
  PROVE  ServerInv'
<1>1. CASE \/ \E w \in Workloads : Receive(h, w)
           \/ \E w \in Scripts : TakeMessage(h, w)
  BY <1>1, ReceiveServerInv
<1>2. CASE Cancel(h) \/ \E w \in Workloads : RejectRequest(h, w)
  <2>1. UNCHANGED <<pc, workload, next, locks>>
    BY <1>2 DEF Cancel, RejectRequest, request, ServerInv, TypeOK
  <2>2. QED
    BY <2>1, NobodyEnters DEF ServerInv, Positioned, Holds, HeldAt
<1>3. CASE Complete(h) \/ CallFails(h) \/ CallPanics(h) \/ ActionPanics(h)
  BY <1>3, LeaveServerInv DEF Complete, CallFails, CallPanics, ActionPanics
<1>4. CASE \/ DoWork(h) \/ DoPanic(h) \/ CallSucceeds(h)
           \/ \E code \in HeaderCodes : DoRespond(h, code)
           \/ \E a \in Allocations : DoAllocate(h, a)
  BY <1>4, PassServerInv
<1>5. CASE StartCall(h) \/ \E id \in Ids : EnterRegistry(h, id) \/ Lookup(h, id)
  BY <1>5, WaitServerInv
<1>6. ASSUME NEW id \in Ids, AcquireLock(h, id) PROVE ServerInv'
  BY <1>6, AcquireServerInv
<1>7. ASSUME NEW id \in Ids, ReleaseLock(h, id) PROVE ServerInv'
  BY <1>7, ReleaseServerInv
<1>8. CASE ScriptPanics(h) \/ \E id \in Ids : FatalUnlock(h, id)
  BY <1>8, DieServerInv DEF FatalUnlock, ScriptPanics
<1>9. QED
  BY <1>1, <1>2, <1>3, <1>4, <1>5, <1>6, <1>7, <1>8 DEF Handle, Compute, EndCall

LEMMA NextServerInv ==
  ASSUME AllBracketed
  PROVE  ServerInv /\ [Next]_vars => ServerInv'
<1> SUFFICES ASSUME ServerInv, [Next]_vars PROVE ServerInv'
  OBVIOUS
<1>1. TypeOK'
  BY NextTypeOK DEF ServerInv
<1>2. ASSUME NEW h \in Handlers, Handle(h) PROVE ServerInv'
  BY <1>1, <1>2, HandleServerInv
<1>3. CASE Crash \/ Signal
  BY <1>1, <1>3, DieServerInv DEF Crash, Signal
<1>4. CASE Restart \/ UNCHANGED vars
  <2>1. UNCHANGED <<pc, workload, next, locks>>
    BY <1>4 DEF Restart, vars
  <2>2. QED
    BY <1>1, <2>1, NobodyEnters DEF ServerInv, Positioned, Holds, HeldAt
<1>5. QED
  BY <1>2, <1>3, <1>4 DEF Next

(* No two requests are ever inside critical sections of the same id, for
   any number of requests, ids and bracketed workloads, through failures,
   panics, cancellations and restarts of the server. *)
THEOREM MutexExcludes == AllBracketed /\ Spec => []MutualExclusion
<1> SUFFICES ASSUME AllBracketed PROVE Spec => []MutualExclusion
  OBVIOUS
<1>1. ServerInv => MutualExclusion
  BY DEF ServerInv
<1>2. ServerInv /\ [Next]_vars => ServerInv'
  BY NextServerInv
<1>3. QED
  BY <1>1, <1>2, InitServerInv, PTL DEF Spec

(* No bracketed workload ever unlocks an unlocked mutex, which would end
   the process: the lock it is about to release is still its own. *)
THEOREM UnlockIsNeverFatal == AllBracketed /\ Spec => []NoFatalUnlock
<1> SUFFICES ASSUME AllBracketed PROVE Spec => []NoFatalUnlock
  OBVIOUS
<1>1. ServerInv => NoFatalUnlock
  BY UnlockerHolds DEF NoFatalUnlock
<1>2. ServerInv /\ [Next]_vars => ServerInv'
  BY NextServerInv
<1>3. QED
  BY <1>1, <1>2, InitServerInv, PTL DEF Spec
-----------------------------------------------------------------------------
(***************************************************************************)
(* Leaked memory                                                           *)
(***************************************************************************)

(* The last allocation that one loop leaks was let in by the loop's limit. *)
LEMMA OneAllocationTooMany ==
  ASSUME NEW a \in Allocations, ~MakePanics(a), a.limit > 0, leaked \in Nat,
         NEW k \in 0..a.count, LeakedBy(a, k), k # 0
  PROVE  leaked + k * a.size <= a.limit + a.size
<1>1. a.size \in Nat /\ a.count \in Nat /\ a.limit \in Nat
  <2>1. a.size \in Int /\ a.count \in Nat /\ a.limit \in Nat
    BY ServerAssumption
  <2>2. a.count > 0
    BY <2>1
  <2>3. QED
    BY <2>1, <2>2 DEF MakePanics
<1>2. PICK j \in 0..a.count : k = j + 1
  <2>1. k - 1 \in 0..a.count /\ k = (k - 1) + 1
    BY <1>1
  <2>2. QED
    BY <2>1
<1>3. ~Full(a, leaked + j * a.size)
  BY <1>1, <1>2 DEF LeakedBy
<1>4. j * a.size \in Nat /\ (j + 1) * a.size = j * a.size + a.size
  <2>1. j \in Nat
    BY <1>1
  <2>2. QED
    BY <1>1, <2>1
<1>5. leaked + j * a.size <= a.limit
  BY <1>1, <1>3, <1>4 DEF Full
<1>6. QED
  BY <1>1, <1>2, <1>4, <1>5

LEMMA AllocateLeakBounded ==
  ASSUME TypeOK, LeakBounded, NEW h \in Handlers, NEW a \in Allocations,
         DoAllocate(h, a)
  PROVE  LeakBounded'
<1>1. /\ ~MakePanics(a)
      /\ \E k \in 0..a.count : LeakedBy(a, k) /\ leaked' = leaked + k * a.size
  BY DEF DoAllocate
<1>0. PICK k \in 0..a.count : LeakedBy(a, k) /\ leaked' = leaked + k * a.size
  BY <1>1
<1>2. a.size \in Int /\ leaked \in Nat
  BY ServerAssumption DEF TypeOK
<1>3. CASE k = 0
  BY <1>0, <1>2, <1>3 DEF LeakBounded
<1>4. CASE k # 0
  BY <1>0, <1>1, <1>2, <1>4, OneAllocationTooMany DEF LeakBounded
<1>5. QED
  BY <1>3, <1>4

LEMMA NextLeakBounded == TypeOK /\ LeakBounded /\ [Next]_vars => LeakBounded'
<1> SUFFICES ASSUME TypeOK, LeakBounded, [Next]_vars PROVE LeakBounded'
  OBVIOUS
<1>1. CASE UNCHANGED leaked
  BY <1>1 DEF LeakBounded
<1>2. CASE leaked' = 0
  BY <1>2 DEF LeakBounded
<1>3. ASSUME NEW h \in Handlers, Handle(h)
      PROVE  \/ UNCHANGED leaked \/ leaked' = 0
             \/ \E a \in Allocations : DoAllocate(h, a)
  BY <1>3 DEF Handle, Receive, RejectRequest, TakeMessage, Begin, Cancel, Compute,
     Complete, DoWork, DoPanic, StartCall, DoRespond, Lookup, ReleaseLock, FatalUnlock,
     EndCall, CallSucceeds, CallFails, CallPanics, ActionPanics, ScriptPanics,
     EnterRegistry, AcquireLock, Die, process
<1>4. CASE Crash \/ Signal
  BY <1>2, <1>4 DEF Crash, Signal, Die
<1>5. CASE Restart \/ UNCHANGED vars
  BY <1>1, <1>5 DEF Restart, vars
<1>6. QED
  BY <1>1, <1>2, <1>3, <1>4, <1>5, AllocateLeakBounded DEF Next

(* Whatever the limits and sizes, and however many requests leak memory with
   limits of their own, the server never keeps more than one allocation
   beyond the most generous limit. *)
THEOREM LeakStaysBounded == Spec => []LeakBounded
<1>1. Init => LeakBounded
  BY DEF Init, LeakBounded
<1>2. QED
  BY <1>1, InitTypeOK, NextTypeOK, NextLeakBounded, PTL DEF Spec

-----------------------------------------------------------------------------
(***************************************************************************)
(* Orphaned locks                                                          *)
(***************************************************************************)

(* A handler that is done with a bracketed workload holds nothing. *)
LEMMA CompleteHoldsNothing ==
  ASSUME AllBracketed, ServerInv, NEW h \in Handlers, NEW id \in Ids, Complete(h)
  PROVE  ~Holds(h, id)
<1>1. next[h] = Len(workload[h]) + 1
  BY DEF Complete, ServerInv, Positioned
<1>2. CASE workload[h] = <<>>
  BY <1>1, <1>2, NothingHeldAtFirst DEF Holds
<1>3. CASE workload[h] # <<>>
  <2>1. Bracketed(workload[h])
    BY <1>3 DEF ServerInv, Positioned, AllBracketed
  <2>2. QED
    BY <1>1, <2>1 DEF Bracketed, Holds
<1>4. QED
  BY <1>2, <1>3
(* What a step can do to the section of an id: nothing, begin one, end one,
   fail inside one, or end the process. *)
Undisturbed(id) ==
  /\ locks'[id] = "locked" <=> locks[id] = "locked"
  /\ \A g \in Handlers : Holds(g, id)' <=> Holds(g, id)

Begins(id) == locks[id] # "locked" /\ \E h \in Handlers : Holds(h, id)'

Ends(id) == locks'[id] # "locked" /\ \E h \in Handlers : Holds(h, id)

FailsInside(id) ==
  /\ locks' = locks
  /\ \E h \in Handlers : /\ Failing(h) /\ pc'[h] = "idle"
                         /\ \A g \in Handlers \ {h} : Holds(g, id)' <=> Holds(g, id)
                         /\ ~Holds(h, id)'

Dies(id) == ~up' /\ locks'[id] # "locked"

Disturbance(id) ==
  Undisturbed(id) \/ Begins(id) \/ Ends(id) \/ FailsInside(id) \/ Dies(id)

(* The handler's place does not matter unless it holds something. *)
LEMMA OneHandlerUndisturbed ==
  ASSUME NEW h \in Handlers, NEW id \in Ids,
         \A g \in Handlers \ {h} :
           pc'[g] = pc[g] /\ workload'[g] = workload[g] /\ next'[g] = next[g],
         Holds(h, id)' <=> Holds(h, id),
         locks'[id] = "locked" <=> locks[id] = "locked"
  PROVE  Undisturbed(id)
<1>1. ASSUME NEW g \in Handlers PROVE Holds(g, id)' <=> Holds(g, id)
  <2>1. CASE g = h
    BY <2>1
  <2>2. CASE g # h
    BY <2>2, OthersStay
  <2>3. QED
    BY <2>1, <2>2
<1>2. QED
  BY <1>1 DEF Undisturbed

LEMMA PanicsAtAction ==
  ASSUME NEW h \in Handlers, ActionPanics(h)
  PROVE  \E action \in Panicking : At(h, action)
<1>1. CASE At(h, Respond(Invalid))
  <2>1. Respond(Invalid) \in Panicking
    BY DEF Panicking
  <2>2. QED
    BY <1>1, <2>1
<1>2. ASSUME NEW a \in Allocations, At(h, Allocate(a)), MakePanics(a)
      PROVE  \E action \in Panicking : At(h, action)
  <2>1. Allocate(a) \in Panicking
    BY <1>2 DEF Panicking
  <2>2. QED
    BY <1>2, <2>1
<1>3. QED
  BY <1>1, <1>2 DEF ActionPanics

LEMMA LeaveDisturbs ==
  ASSUME AllBracketed, ServerInv, NEW h \in Handlers, NEW id \in Ids,
         Complete(h) \/ CallFails(h) \/ CallPanics(h) \/ ActionPanics(h)
  PROVE  Disturbance(id)
<1>1. /\ pc'[h] = "idle" /\ locks' = locks
      /\ \A g \in Handlers \ {h} :
           pc'[g] = pc[g] /\ workload'[g] = workload[g] /\ next'[g] = next[g]
  BY DEF Complete, CallFails, CallPanics, ActionPanics, Leave, ServerInv, TypeOK
<1>2. ~Holds(h, id)'
  BY <1>1 DEF Holds
<1>3. CASE Complete(h)
  <2>1. ~Holds(h, id)
    BY <1>3, CompleteHoldsNothing
  <2>2. QED
    BY <1>1, <1>2, <2>1, OneHandlerUndisturbed DEF Disturbance
<1>4. CASE CallFails(h) \/ CallPanics(h) \/ ActionPanics(h)
  <2>1. Failing(h)
    BY <1>4, PanicsAtAction DEF CallFails, CallPanics, MayEnd, Failing
  <2>2. \A g \in Handlers \ {h} : Holds(g, id)' <=> Holds(g, id)
    BY <1>1, OthersStay
  <2>3. QED
    BY <1>1, <1>2, <2>1, <2>2 DEF Disturbance, FailsInside
<1>5. QED
  BY <1>3, <1>4

LEMMA PassDisturbs ==
  ASSUME ServerInv, NEW h \in Handlers, NEW id \in Ids,
         \/ DoWork(h) \/ DoPanic(h) \/ CallSucceeds(h)
         \/ \E code \in HeaderCodes : DoRespond(h, code)
         \/ \E a \in Allocations : DoAllocate(h, a)
  PROVE  Disturbance(id)
<1>1. /\ pc[h] # "idle" /\ next[h] <= Len(workload[h])
      /\ Proceed(h) /\ UNCHANGED workload /\ UNCHANGED locks
  BY DEF DoWork, DoPanic, CallSucceeds, MayEnd, DoRespond, DoAllocate, At, request,
         ServerInv, Positioned
<1>2. workload[h][next[h]] # Lock(id) /\ workload[h][next[h]] # Unlock(id)
  <2>1. \/ workload[h][next[h]] \in {Work, Panic} \cup Calls
        \/ \E code \in HeaderCodes : workload[h][next[h]] = Respond(code)
        \/ \E a \in Allocations : workload[h][next[h]] = Allocate(a)
    BY DEF DoWork, DoPanic, CallSucceeds, MayEnd, DoRespond, DoAllocate, At, ServerInv,
           Positioned
  <2>2. QED
    BY <2>1, ActionsDiffer
<1>3. QED
  BY <1>1, <1>2, ProceedPosition, OneHandlerUndisturbed DEF Disturbance

LEMMA WaitDisturbs ==
  ASSUME ServerInv, NEW h \in Handlers, NEW id \in Ids,
         \/ StartCall(h) \/ Cancel(h)
         \/ \E w \in Workloads : RejectRequest(h, w)
         \/ \E i \in Ids : EnterRegistry(h, i) \/ Lookup(h, i)
  PROVE  Disturbance(id)
<1>1. /\ workload' = workload /\ next' = next
      /\ pc[h] = "idle" <=> pc'[h] = "idle"
      /\ \A g \in Handlers \ {h} : pc'[g] = pc[g]
  BY DEF StartCall, Cancel, RejectRequest, EnterRegistry, Lookup, At, ServerInv, TypeOK,
         request
<1>2. locks'[id] = "locked" <=> locks[id] = "locked"
  BY DEF StartCall, Cancel, RejectRequest, EnterRegistry, Lookup, ServerInv, TypeOK
<1>3. Holds(h, id)' <=> Holds(h, id)
  BY <1>1 DEF Holds, HeldAt
<1>4. QED
  BY <1>1, <1>2, <1>3, OneHandlerUndisturbed DEF Disturbance

LEMMA BeginDisturbs ==
  ASSUME ServerInv, NEW h \in Handlers, NEW id \in Ids, NEW w,
         Receive(h, w) \/ TakeMessage(h, w)
  PROVE  Disturbance(id)
<1>1. /\ pc[h] = "idle" /\ next'[h] = 1 /\ locks' = locks
      /\ \A g \in Handlers \ {h} :
           pc'[g] = pc[g] /\ workload'[g] = workload[g] /\ next'[g] = next[g]
  BY DEF Receive, TakeMessage, Begin, ServerInv, TypeOK, Positioned
<1>2. ~Holds(h, id) /\ ~Holds(h, id)'
  BY <1>1, NothingHeldAtFirst DEF Holds, HeldAt
<1>3. QED
  BY <1>1, <1>2, OneHandlerUndisturbed DEF Disturbance

LEMMA AcquireDisturbs ==
  ASSUME ServerInv, NEW h \in Handlers, NEW i \in Ids, NEW id \in Ids,
         AcquireLock(h, i)
  PROVE  Disturbance(id)
<1>1. /\ pc[h] # "idle" /\ next[h] <= Len(workload[h])
      /\ Proceed(h) /\ UNCHANGED workload
      /\ workload[h][next[h]] = Lock(i)
      /\ locks[i] # "locked" /\ \A j \in Ids \ {i} : locks'[j] = locks[j]
  BY DEF AcquireLock, request, ServerInv, Positioned, TypeOK
<1>2. CASE i = id
  BY <1>1, <1>2, ProceedPosition DEF Disturbance, Begins
<1>3. CASE i # id
  <2>1. Holds(h, id)' <=> Holds(h, id)
    BY <1>1, <1>3, ProceedPosition, ActionsDiffer
  <2>2. QED
    BY <1>1, <1>3, <2>1, ProceedPosition, OneHandlerUndisturbed DEF Disturbance
<1>4. QED
  BY <1>2, <1>3

LEMMA ReleaseDisturbs ==
  ASSUME AllBracketed, ServerInv, NEW h \in Handlers, NEW i \in Ids, NEW id \in Ids,
         ReleaseLock(h, i)
  PROVE  Disturbance(id)
<1>1. /\ pc[h] = "unlock" /\ next[h] <= Len(workload[h])
      /\ Proceed(h) /\ UNCHANGED workload
      /\ workload[h][next[h]] = Unlock(i)
      /\ locks'[i] # "locked" /\ \A j \in Ids \ {i} : locks'[j] = locks[j]
  BY DEF ReleaseLock, request, ServerInv, Positioned, TypeOK
<1>2. CASE i = id
  BY <1>1, <1>2, UnlockerHolds DEF Disturbance, Ends
<1>3. CASE i # id
  <2>1. Holds(h, id)' <=> Holds(h, id)
    BY <1>1, <1>3, ProceedPosition, ActionsDiffer
  <2>2. QED
    BY <1>1, <1>3, <2>1, ProceedPosition, OneHandlerUndisturbed DEF Disturbance
<1>4. QED
  BY <1>2, <1>3

LEMMA DieDisturbs ==
  ASSUME NEW id \in Ids, Die
  PROVE  Disturbance(id)
BY DEF Die, Dies, Disturbance

LEMMA NextDisturbs ==
  ASSUME AllBracketed, ServerInv, [Next]_vars, NEW id \in Ids
  PROVE  Disturbance(id)
<1>1. ASSUME NEW h \in Handlers, Handle(h) PROVE Disturbance(id)
  <2>1. CASE Complete(h) \/ CallFails(h) \/ CallPanics(h) \/ ActionPanics(h)
    BY <2>1, LeaveDisturbs
  <2>2. CASE \/ DoWork(h) \/ DoPanic(h) \/ CallSucceeds(h)
             \/ \E code \in HeaderCodes : DoRespond(h, code)
             \/ \E a \in Allocations : DoAllocate(h, a)
    BY <2>2, PassDisturbs
  <2>3. CASE \/ StartCall(h) \/ Cancel(h)
             \/ \E w \in Workloads : RejectRequest(h, w)
             \/ \E i \in Ids : EnterRegistry(h, i) \/ Lookup(h, i)
    BY <2>3, WaitDisturbs
  <2>4. CASE \/ \E w \in Workloads : Receive(h, w)
             \/ \E w \in Scripts : TakeMessage(h, w)
    BY <2>4, BeginDisturbs
  <2>5. CASE \E i \in Ids : AcquireLock(h, i)
    BY <2>5, AcquireDisturbs
  <2>6. CASE \E i \in Ids : ReleaseLock(h, i)
    BY <2>6, ReleaseDisturbs
  <2>7. CASE ScriptPanics(h) \/ \E i \in Ids : FatalUnlock(h, i)
    BY <2>7, DieDisturbs DEF FatalUnlock, ScriptPanics
  <2>8. QED
    BY <1>1, <2>1, <2>2, <2>3, <2>4, <2>5, <2>6, <2>7 DEF Handle, Compute, EndCall
<1>2. CASE Crash \/ Signal
  BY <1>2, DieDisturbs DEF Crash, Signal
<1>3. CASE Restart \/ UNCHANGED vars
  <2>1. UNCHANGED <<pc, workload, next, locks>>
    BY <1>3 DEF Restart, vars
  <2>2. QED
    BY <2>1 DEF Disturbance, Undisturbed, Holds, HeldAt
<1>4. QED
  BY <1>1, <1>2, <1>3 DEF Next

(* Only a call that fails or panics inside a critical section, or an action
   that panics there by itself, leaves its lock behind, for any number of requests, ids and bracketed workloads. *)
THEOREM OnlyFailuresOrphan == AllBracketed /\ Spec => OrphanedByFailure
<1> SUFFICES ASSUME AllBracketed PROVE Spec => OrphanedByFailure
  OBVIOUS
<1> DEFINE ByFailure ==
      \A id \in Orphaned' \ Orphaned :
        \E h \in Handlers : Failing(h) /\ pc'[h] = "idle" /\ Holds(h, id)
<1>1. ServerInv /\ [Next]_vars => [ByFailure]_vars
  <2> SUFFICES ASSUME ServerInv, [Next]_vars PROVE ByFailure
    OBVIOUS
  <2> SUFFICES ASSUME NEW id \in Ids, id \in Orphaned', id \notin Orphaned
               PROVE  \E h \in Handlers : Failing(h) /\ pc'[h] = "idle" /\ Holds(h, id)
    BY DEF Orphaned
  <2>1. locks'[id] = "locked" /\ \A g \in Handlers : ~Holds(g, id)'
    BY DEF Orphaned
  <2>2. FailsInside(id)
    BY <2>1, NextDisturbs DEF Disturbance, Undisturbed, Begins, Ends, Dies, Orphaned
  <2>3. PICK g \in Handlers : Holds(g, id)
    BY <2>1, <2>2 DEF FailsInside, Orphaned
  <2>4. QED
    BY <2>1, <2>2, <2>3 DEF FailsInside
<1>2. ServerInv /\ [Next]_vars => ServerInv'
  BY NextServerInv
<1>3. QED
  BY <1>1, <1>2, InitServerInv, PTL DEF Spec, OrphanedByFailure

(* No request can free an orphaned lock: it lasts until the process ends. *)
THEOREM OrphansLast == AllBracketed /\ Spec => OrphanedUntilRestart
<1> SUFFICES ASSUME AllBracketed PROVE Spec => OrphanedUntilRestart
  OBVIOUS
<1>1. ServerInv /\ [Next]_vars => [up' => Orphaned \subseteq Orphaned']_vars
  <2> SUFFICES ASSUME ServerInv, [Next]_vars, up', NEW id \in Ids, id \in Orphaned
               PROVE  id \in Orphaned'
    BY DEF Orphaned
  <2>1. locks[id] = "locked" /\ \A g \in Handlers : ~Holds(g, id)
    BY DEF Orphaned
  <2>2. Undisturbed(id) \/ FailsInside(id)
    BY <2>1, NextDisturbs DEF Disturbance, Begins, Ends, Dies
  <2>3. locks'[id] = "locked" /\ \A g \in Handlers : ~Holds(g, id)'
    BY <2>1, <2>2 DEF Undisturbed, FailsInside
  <2>4. QED
    BY <2>3 DEF Orphaned
<1>2. ServerInv /\ [Next]_vars => ServerInv'
  BY NextServerInv
<1>3. QED
  BY <1>1, <1>2, InitServerInv, PTL DEF Spec, OrphanedUntilRestart

-----------------------------------------------------------------------------
(***************************************************************************)
(* Plans that lock in one order and neither call nor panic inside a        *)
(* critical section, as the repository's own do: of the two ways in which  *)
(* a request gets stuck neither is left.                                   *)
(***************************************************************************)

(* What handlers execute *)
Executed == {w \in Workloads : Verified(w)} \cup Scripts

(* The ids can be numbered so that a section inside another one always has
   the higher number. *)
LocksInOrder ==
  \E limit \in Nat : \E rank \in [Ids -> 0..limit] :
    \A w \in Executed : \A k \in 1..Len(w), i, j \in Ids :
      HeldAt(w, k, i) /\ w[k] = Lock(j) => rank[i] < rank[j]

FailuresOutside ==
  \A w \in Executed : \A k \in 1..Len(w), id \in Ids :
    w[k] \in Calls \cup Panicking => ~HeldAt(w, k, id)

LEMMA AtItsAction ==
  ASSUME ServerInv, NEW h \in Handlers,
         pc[h] \in {"call", "lookup", "lock", "unlock"} \/ \E action : At(h, action)
  PROVE  workload[h] \in Executed /\ next[h] \in 1..Len(workload[h])
<1>1. Positioned(h)
  BY DEF ServerInv
<1>2. next[h] \in 1..Len(workload[h])
  BY <1>1 DEF Positioned, At
<1>3. workload[h] # <<>>
  BY <1>2
<1>4. QED
  BY <1>1, <1>2, <1>3 DEF Positioned, Executed

LEMMA GreatestRank ==
  ASSUME NEW limit \in Nat, NEW R \in SUBSET (0..limit), R # {}
  PROVE  \E m \in R : \A n \in R : ~(m < n)
<1> DEFINE T == {limit - n : n \in R}
<1>1. T \subseteq Nat /\ T # {}
  <2>1. \A n \in R : limit - n \in Nat
    OBVIOUS
  <2>2. PICK r \in R : TRUE
    OBVIOUS
  <2>3. limit - r \in T
    OBVIOUS
  <2>4. QED
    BY <2>1, <2>3
<1>2. \A x, y \in Nat : y < x => <<y, x>> \in OpToRel(<, Nat)
  BY DEF OpToRel
<1>3. PICK x \in T : \A y \in T : <<y, x>> \notin OpToRel(<, Nat)
  <2> HIDE DEF T
  <2>1. QED
    BY <1>1, NatLessThanWellFounded, WFMin
<1>4. \A y \in T : ~(y < x)
  BY <1>1, <1>2, <1>3
<1>5. PICK m \in R : x = limit - m
  BY <1>3
<1>6. \A n \in R : limit - n \in T
  OBVIOUS
<1>7. \A n \in R : ~(limit - n < limit - m)
  BY <1>4, <1>5, <1>6
<1>8. QED
  BY <1>7

(* Who waits for an id inside sections waits for a higher one than those, so
   of the ids that are waited for the highest is held by nobody who waits. *)
LEMMA OrderExcludesDeadlock ==
  ASSUME ServerInv, LocksInOrder
  PROVE  ~Deadlocked
<1> SUFFICES ASSUME NEW S \in (SUBSET Handlers) \ {{}},
                    \A h \in S : \E id \in Ids, g \in S : WaitsFor(h, id) /\ Holds(g, id)
             PROVE  FALSE
  BY DEF Deadlocked
<1>0. PICK limit \in Nat : \E rank \in [Ids -> 0..limit] :
        \A w \in Executed : \A k \in 1..Len(w), i, j \in Ids :
          HeldAt(w, k, i) /\ w[k] = Lock(j) => rank[i] < rank[j]
  BY DEF LocksInOrder
<1>1. PICK rank \in [Ids -> 0..limit] :
        \A w \in Executed : \A k \in 1..Len(w), i, j \in Ids :
          HeldAt(w, k, i) /\ w[k] = Lock(j) => rank[i] < rank[j]
  BY <1>0
<1> DEFINE R == {rank[id] : id \in {i \in Ids : \E h \in S : WaitsFor(h, i)}}
<1>2. R \in SUBSET (0..limit) /\ R # {}
  <2>1. \A id \in Ids : rank[id] \in 0..limit
    OBVIOUS
  <2>2. PICK h \in S, id \in Ids : WaitsFor(h, id)
    OBVIOUS
  <2>3. rank[id] \in R
    BY <2>2
  <2>4. QED
    BY <2>1, <2>3
<1>3. ASSUME NEW id \in Ids, NEW h \in S, WaitsFor(h, id)
      PROVE  \E n \in R : rank[id] < n
  <2>1. PICK g \in S : Holds(g, id)
    BY <1>3, ActionsDiffer DEF WaitsFor
  <2>2. PICK j \in Ids : WaitsFor(g, j)
    OBVIOUS
  <2>3. workload[g] \in Executed /\ next[g] \in 1..Len(workload[g])
    BY <2>2, AtItsAction DEF WaitsFor
  <2>4. rank[id] < rank[j]
    BY <1>1, <2>1, <2>2, <2>3 DEF WaitsFor, Holds
  <2>5. rank[j] \in R
    BY <2>2
  <2>6. QED
    BY <2>4, <2>5
<1> HIDE DEF R
<1>4. PICK m \in R : \A n \in R : ~(m < n)
  BY <1>2, GreatestRank
<1>5. PICK id \in Ids : m = rank[id] /\ \E h \in S : WaitsFor(h, id)
  BY DEF R
<1>6. QED
  BY <1>3, <1>4, <1>5

(* Requests that wait for each other's mutexes for ever: not if every plan
   locks in the same order, whatever the server's requests do in between. *)
THEOREM OrderPreventsDeadlock ==
  AllBracketed /\ LocksInOrder /\ Spec => []~Deadlocked
<1> SUFFICES ASSUME AllBracketed, LocksInOrder PROVE Spec => []~Deadlocked
  OBVIOUS
<1>1. ServerInv => ~Deadlocked
  BY OrderExcludesDeadlock
<1>2. ServerInv /\ [Next]_vars => ServerInv'
  BY NextServerInv
<1>3. QED
  BY <1>1, <1>2, InitServerInv, PTL DEF Spec

(* A lock is left behind only from a failure inside a section: without those
   every locked mutex has its holder, and the holder will come to its Unlock. *)
LEMMA NextOrphansNone ==
  ASSUME AllBracketed, FailuresOutside, ServerInv, Orphaned = {}, Next
  PROVE  Orphaned' = {}
<1> SUFFICES ASSUME NEW id \in Ids, locks'[id] = "locked",
                    \A g \in Handlers : ~Holds(g, id)'
             PROVE  FALSE
  BY DEF Orphaned
<1>1. FailsInside(id)
  <2>1. Disturbance(id)
    BY NextDisturbs
  <2>2. QED
    BY <2>1 DEF Disturbance, Undisturbed, Begins, Ends, Dies, Orphaned
<1>2. PICK h \in Handlers : /\ Failing(h)
                            /\ \A g \in Handlers \ {h} : Holds(g, id)' <=> Holds(g, id)
  BY <1>1 DEF FailsInside
<1>3. locks[id] = "locked"
  BY <1>1 DEF FailsInside
<1>4. Holds(h, id)
  BY <1>2, <1>3 DEF Orphaned
<1>5. workload[h] \in Executed /\ next[h] \in 1..Len(workload[h])
  BY <1>2, AtItsAction DEF Failing
<1>6. workload[h][next[h]] \in Calls \cup Panicking
  BY <1>2 DEF Failing, At, ServerInv, Positioned
<1>7. QED
  BY <1>4, <1>5, <1>6 DEF FailuresOutside, Holds

LEMMA OrphanedStays ==
  ASSUME Orphaned = {}, UNCHANGED vars
  PROVE  Orphaned' = {}
BY DEF Orphaned, Holds, HeldAt, vars

LEMMA InitOrphansNone == Init => Orphaned = {}
BY DEF Init, Orphaned

(* No lock is ever orphaned by plans that make their calls outside of the
   critical sections, and whatever else may panic there, through every failure
   and cancellation. *)
THEOREM FailuresOutsideOrphanNothing ==
  AllBracketed /\ FailuresOutside /\ Spec => [](Orphaned = {})
<1> SUFFICES ASSUME AllBracketed, FailuresOutside PROVE Spec => [](Orphaned = {})
  OBVIOUS
<1>1. ServerInv /\ Orphaned = {} /\ [Next]_vars => (Orphaned = {})'
  BY NextOrphansNone, OrphanedStays
<1>2. ServerInv /\ [Next]_vars => ServerInv'
  BY NextServerInv
<1>3. QED
  BY <1>1, <1>2, InitServerInv, InitOrphansNone, PTL DEF Spec

(* Without orphans, what is stuck waits for each other. *)
LEMMA StuckAreDeadlocked ==
  ASSUME Orphaned = {}, NEW h \in Handlers, Stuck(h)
  PROVE  Deadlocked
<1>1. PICK S \in SUBSET Handlers :
        /\ h \in S
        /\ \A g \in S : \E id \in Ids :
             /\ WaitsFor(g, id) /\ locks[id] = "locked"
             /\ id \in Orphaned \/ \E f \in S : Holds(f, id)
  BY DEF Stuck
<1>2. \A g \in S : \E id \in Ids, f \in S :
        WaitsFor(g, id) /\ Holds(f, id) /\ locks[id] = "locked"
  BY <1>1
<1>3. S \in (SUBSET Handlers) \ {{}}
  BY <1>1
<1>4. QED
  BY <1>2, <1>3 DEF Deadlocked

(* With plans that lock in one order and fail outside of their sections, no
   request ever gets into the one position in which RequestsEnd lets it stay
   in the server. *)
THEOREM OrderedRequestsNeverStick ==
  AllBracketed /\ LocksInOrder /\ FailuresOutside /\ Spec =>
    [](\A h \in Handlers : ~Stuck(h))
<1> SUFFICES ASSUME AllBracketed, LocksInOrder, FailuresOutside
             PROVE  Spec => [](\A h \in Handlers : ~Stuck(h))
  OBVIOUS
<1>1. ServerInv /\ Orphaned = {} => \A h \in Handlers : ~Stuck(h)
  BY StuckAreDeadlocked, OrderExcludesDeadlock
<1>2. ServerInv /\ Orphaned = {} /\ [Next]_vars => (ServerInv /\ Orphaned = {})'
  BY NextServerInv, NextOrphansNone, OrphanedStays
<1>3. QED
  BY <1>1, <1>2, InitServerInv, InitOrphansNone, PTL DEF Spec

-----------------------------------------------------------------------------
(* Somebody always can go on *)

(* The handler is not waiting for a mutex that another one has; a call in
   progress is the other side's to end. *)
CanMove(h) ==
  \/ /\ pc[h] = "next"
     /\ (\E id \in Ids : At(h, Lock(id)) \/ At(h, Unlock(id))) => registry = None
  \/ pc[h] \in {"call", "lookup"}
  \/ \E id \in Ids : /\ pc[h] = "unlock"
                     /\ workload[h][next[h]] = Unlock(id) /\ locks[id] = "locked"
  \/ \E id \in Ids : WaitsFor(h, id) /\ locks[id] = "unlocked"

SomebodyMoves ==
  (\E h \in Handlers : pc[h] # "idle") => \E h \in Handlers : CanMove(h)

(* Who waits for a mutex has looked it up before. *)
MutexKnown ==
  \A h \in Handlers, id \in Ids : WaitsFor(h, id) => locks[id] # "absent"

LEMMA OthersWait ==
  ASSUME ServerInv, NEW h \in Handlers, Handle(h), pc' # [g \in Handlers |-> "idle"]
  PROVE  /\ \A g \in Handlers \ {h}, id \in Ids : WaitsFor(g, id)' => WaitsFor(g, id)
         /\ \A id \in Ids : locks[id] # "absent" => locks'[id] # "absent"
         /\ \A id \in Ids : WaitsFor(h, id)' => WaitsFor(h, id) \/ locks'[id] # "absent"
<1>1. TypeOK
  BY DEF ServerInv
<1>2. CASE \/ \E w \in Workloads : Receive(h, w)
           \/ \E w \in Scripts : TakeMessage(h, w)
  BY <1>1, <1>2 DEF Receive, TakeMessage, Begin, WaitsFor, TypeOK
<1>3. CASE Cancel(h) \/ \E w \in Workloads : RejectRequest(h, w)
  BY <1>1, <1>3 DEF Cancel, RejectRequest, request, WaitsFor
<1>4. CASE Complete(h) \/ CallFails(h) \/ CallPanics(h) \/ ActionPanics(h)
  BY <1>1, <1>4 DEF Complete, CallFails, CallPanics, ActionPanics, Leave, WaitsFor, TypeOK
<1>5. CASE \/ DoWork(h) \/ DoPanic(h) \/ CallSucceeds(h)
           \/ \E code \in HeaderCodes : DoRespond(h, code)
           \/ \E a \in Allocations : DoAllocate(h, a)
  BY <1>1, <1>5 DEF DoWork, DoPanic, CallSucceeds, DoRespond, DoAllocate, Proceed,
     request, WaitsFor, TypeOK
<1>6. CASE StartCall(h) \/ \E id \in Ids : EnterRegistry(h, id)
  BY <1>1, <1>6 DEF StartCall, EnterRegistry, request, WaitsFor, TypeOK
<1>7. ASSUME NEW i \in Ids, Lookup(h, i)
      PROVE  /\ \A g \in Handlers \ {h}, id \in Ids : WaitsFor(g, id)' => WaitsFor(g, id)
             /\ \A id \in Ids : locks[id] # "absent" => locks'[id] # "absent"
             /\ \A id \in Ids : WaitsFor(h, id)' => WaitsFor(h, id) \/ locks'[id] # "absent"
  <2>1. /\ workload' = workload /\ next' = next
        /\ \A g \in Handlers \ {h} : pc'[g] = pc[g]
        /\ \A id \in Ids : locks'[id] = IF id = i /\ locks[id] = "absent"
                                        THEN "unlocked" ELSE locks[id]
    BY <1>1, <1>7 DEF Lookup, request, TypeOK
  <2>2. \A id \in Ids : WaitsFor(h, id)' => id = i
    BY <1>7, <2>1, ActionsDiffer DEF Lookup, WaitsFor
  <2>3. locks'[i] # "absent"
    BY <2>1
  <2>4. QED
    BY <2>1, <2>2, <2>3 DEF WaitsFor
<1>8. CASE \E i \in Ids : AcquireLock(h, i) \/ ReleaseLock(h, i)
  BY <1>1, <1>8 DEF AcquireLock, ReleaseLock, Proceed, request, WaitsFor, TypeOK
<1>9. CASE ScriptPanics(h) \/ \E i \in Ids : FatalUnlock(h, i)
  BY <1>9 DEF ScriptPanics, FatalUnlock, Die
<1>10. QED
  BY <1>2, <1>3, <1>4, <1>5, <1>6, <1>7, <1>8, <1>9 DEF Handle, Compute, EndCall

LEMMA NextMutexKnown == ServerInv /\ MutexKnown /\ [Next]_vars => MutexKnown'
<1> SUFFICES ASSUME ServerInv, MutexKnown, [Next]_vars PROVE MutexKnown'
  OBVIOUS
<1>1. CASE pc' = [g \in Handlers |-> "idle"]
  BY <1>1 DEF MutexKnown, WaitsFor
<1>2. ASSUME pc' # [g \in Handlers |-> "idle"], NEW h \in Handlers, Handle(h)
      PROVE  MutexKnown'
  BY <1>2, OthersWait DEF MutexKnown
<1>3. CASE Crash \/ Signal
  BY <1>1, <1>3 DEF Crash, Signal, Die
<1>4. CASE Restart \/ UNCHANGED vars
  BY <1>4 DEF Restart, vars, MutexKnown, WaitsFor
<1>5. QED
  BY <1>1, <1>2, <1>3, <1>4 DEF Next

(* GLOBAL_MUTEX is held only by somebody who gives it back without waiting;
   without it, if all of them waited for mutexes that others have, these
   would be waiting too. *)
LEMMA InvMoves ==
  ASSUME AllBracketed, ServerInv, MutexKnown, Orphaned = {}, ~Deadlocked
  PROVE  SomebodyMoves
<1> SUFFICES ASSUME NEW f \in Handlers, pc[f] # "idle",
                    \A h \in Handlers : ~CanMove(h)
             PROVE  FALSE
  BY DEF SomebodyMoves
<1>1. TypeOK /\ \A h \in Handlers : Positioned(h)
  BY DEF ServerInv
<1>2. \A h \in Handlers : pc[h] # "unlock"
  BY <1>1, UnlockerHolds DEF CanMove, Positioned
<1>3. \A h \in Handlers : pc[h] \notin {"call", "lookup"}
  BY DEF CanMove
<1>4. registry = None
  BY <1>1, <1>2, <1>3 DEF TypeOK
<1>5. \A h \in Handlers : pc[h] \in {"idle", "lock"}
  BY <1>1, <1>2, <1>3, <1>4 DEF TypeOK, CanMove
<1> DEFINE S == {h \in Handlers : pc[h] = "lock"}
<1>6. ASSUME NEW h \in S
      PROVE  \E id \in Ids, g \in S : WaitsFor(h, id) /\ Holds(g, id) /\ locks[id] = "locked"
  <2>1. PICK id \in Ids : WaitsFor(h, id)
    BY <1>1 DEF Positioned, WaitsFor
  <2>2. locks[id] = "locked"
    BY <1>1, <2>1 DEF MutexKnown, CanMove, TypeOK
  <2>3. PICK g \in Handlers : Holds(g, id)
    BY <2>2 DEF Orphaned
  <2>4. g \in S
    BY <1>5, <2>3 DEF Holds
  <2>5. QED
    BY <2>1, <2>2, <2>3, <2>4
<1>7. f \in S /\ S \in SUBSET Handlers
  BY <1>5
<1> HIDE DEF S
<1>8. Deadlocked
  BY <1>6, <1>7 DEF Deadlocked
<1>9. QED
  BY <1>8

(* While there are requests one of them can go on, or waits for a call alone:
   neither the mutexes of the plans nor GLOBAL_MUTEX, under which the Unlock
   of one happens, ever bring the server to a halt. *)
THEOREM ServerNeverHalts ==
  AllBracketed /\ LocksInOrder /\ FailuresOutside /\ Spec => []SomebodyMoves
<1> SUFFICES ASSUME AllBracketed, LocksInOrder, FailuresOutside
             PROVE  Spec => []SomebodyMoves
  OBVIOUS
<1>1. Init => ServerInv /\ MutexKnown /\ Orphaned = {}
  BY InitServerInv, InitOrphansNone DEF Init, MutexKnown, WaitsFor
<1>2. ServerInv /\ MutexKnown /\ Orphaned = {} /\ [Next]_vars
        => (ServerInv /\ MutexKnown /\ Orphaned = {})'
  BY NextServerInv, NextMutexKnown, NextOrphansNone, OrphanedStays
<1>3. ServerInv /\ MutexKnown /\ Orphaned = {} => SomebodyMoves
  BY InvMoves, OrderExcludesDeadlock
<1>4. QED
  BY <1>1, <1>2, <1>3, PTL DEF Spec
=============================================================================
