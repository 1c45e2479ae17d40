--------------------------- MODULE WorkloadServer ---------------------------
(***************************************************************************)
(* One server process: handleRequests (cmd/chaosmania/server.go), the      *)
(* Workload interpreter (pkg/actions/plan.go) and the actions whose        *)
(* effects other requests can see, above all GlobalMutexLock and           *)
(* GlobalMutexUnlock (pkg/actions/global_mutex_*_action.go).               *)
(*                                                                         *)
(* A handler is the goroutine net/http runs for one request, or the one in *)
(* which a consumer runs the script of its background service for one      *)
(* message after another (pkg/actions/script_action.go).  Handlers         *)
(* share GLOBAL_MUTEX, the table GLOBAL_MUTEX_LOCKS it guards, and the     *)
(* fate of the process: net/http recovers a panic of a request's handler,  *)
(* but a panic of another goroutine and the runtime's "unlock of unlocked  *)
(* mutex" end the process, and every other request with it.                *)
(***************************************************************************)
EXTENDS Integers, Sequences

CONSTANTS
  Handlers,    \* requests that can be in progress together, and consumers
  Background,  \* the handlers that are consumers of background services
  Ids,         \* the "id" of GlobalMutexLock and GlobalMutexUnlock
  Workloads,   \* the workloads clients send
  Scripts,     \* the scripts the consumers run for each message
  Allocations, \* the configurations of AllocateMemory that leak
  None

(* Actions, abstracted to what other requests can tell apart: Work returns
   nil and touches nothing shared (Burn, Sleep, Print, Fibonacci); Respond
   writes the header (HTTPResponse); Unknown has no entry in ACTIONS or a
   configuration that does not parse; a call leaves the process *)
Lock(id)      == <<"Lock", id>>
Unlock(id)    == <<"Unlock", id>>
Respond(code) == <<"Respond", code>>
Allocate(a)   == <<"Allocate", a>>
Work    == <<"Work", None>>
Panic   == <<"Panic", None>>
Unknown == <<"Unknown", None>>

(* How a call may end, and what ends it at the latest: the context it was
   given, a limit of its own, or nothing but the other side's answer *)
Call(ends, latest) == <<"Call", [ends |-> ends, latest |-> latest]>>

HTTPRequest     == Call({"nil", "error"}, "context")
HTTPGetRequest  == Call({"nil", "error"}, "context")
RedisCommand    == Call({"nil", "error", "panic"}, "context")
PostgresqlQuery == Call({"nil", "error", "panic"}, "context")
MysqlQuery      == Call({"nil", "error", "panic"}, "context")
SnowflakeQuery  == Call({"nil", "error"}, "context")
MongodbQuery    == Call({"error", "panic"}, "answer")
ElasticQuery    == Call({"nil", "error"}, "context")
ElasticInsert   == Call({"nil", "error"}, "answer")
CreateFile      == Call({"nil", "error", "panic"}, "own")
RandomIO        == Call({"nil", "error", "panic"}, "own")

(* Methods of services, for scripts only *)
KafkaProduce    == Call({"nil", "error"}, "own")
RabbitProduce   == Call({"nil", "error", "panic"}, "answer")
MinioObject     == Call({"nil", "error", "panic"}, "context")
SqlQuery        == Call({"nil", "error"}, "context")
RedisMethod     == Call({"nil", "error"}, "context")

Calls == {HTTPRequest, HTTPGetRequest, RedisCommand, PostgresqlQuery, MysqlQuery,
          SnowflakeQuery, MongodbQuery, ElasticQuery, ElasticInsert, CreateFile,
          RandomIO, KafkaProduce, RabbitProduce, MinioObject, SqlQuery, RedisMethod}

(* The status codes that requests get, and one that no response can have *)
Codes == {"200", "400", "500", "503"}
Invalid == "invalid"
HeaderCodes == Codes \cup {Invalid}
Statuses == Codes \cup {"none", "aborted"}

(* What a script can do: a Script action stands in its workload as the steps
   it performs.  An error that the script catches is a call that succeeds. *)
ScriptSteps == {Lock(id) : id \in Ids} \cup {Unlock(id) : id \in Ids}
                 \cup {Work} \cup Calls

Actions == ScriptSteps \cup {Respond(code) : code \in HeaderCodes} \cup {Panic, Unknown}
             \cup {Allocate(a) : a \in Allocations}

(* make panics for a negative size, once there is something to allocate. *)
MakePanics(a) == a.count > 0 /\ a.size < 0

(* Actions that may end their request in their own goroutine, at the first
   WriteHeader or at make, although Verify accepts their configuration *)
Panicking == {Respond(Invalid)} \cup {Allocate(a) : a \in {x \in Allocations : MakePanics(x)}}

ASSUME ServerAssumption ==
  /\ Workloads \subseteq Seq(Actions)
  /\ Scripts \subseteq Seq(ScriptSteps)
  /\ Background \subseteq Handlers
  /\ None \notin Handlers
  /\ Allocations \subseteq [size : Int, count : Nat, limit : Nat]

VARIABLES
  up,         \* the process runs
  doomed,     \* a goroutine of the Panic action is about to panic
  pc,         \* where each handler is
  workload,   \* the workload of its request
  next,       \* the index of the action it executes or executes next
  cancelled,  \* the request's context is cancelled: the client gave up
  status,     \* the first WriteHeader of the request, or how it ended
  registry,   \* the handler that holds GLOBAL_MUTEX
  locks,      \* GLOBAL_MUTEX_LOCKS
  leaked      \* AllocateMemory.leakedDataSize

vars == <<up, doomed, pc, workload, next, cancelled, status, registry, locks, leaked>>
request == <<workload, cancelled>>
process == <<up, doomed, leaked>>

Init ==
  /\ up = TRUE
  /\ doomed = FALSE
  /\ leaked = 0
  /\ pc = [h \in Handlers |-> "idle"]
  /\ workload = [h \in Handlers |-> <<>>]
  /\ next = [h \in Handlers |-> 1]
  /\ cancelled = [h \in Handlers |-> FALSE]
  /\ status = [h \in Handlers |-> "none"]
  /\ registry = None
  /\ locks = [id \in Ids |-> "absent"]

-----------------------------------------------------------------------------
(* A request *)

(* Workload.Verify: nothing is executed unless every action can be *)
Verified(w) == \A k \in 1..Len(w) : w[k] # Unknown

Begin(h, w) ==
  /\ up
  /\ pc[h] = "idle"
  /\ pc' = [pc EXCEPT ![h] = "next"]
  /\ workload' = [workload EXCEPT ![h] = w]
  /\ status' = [status EXCEPT ![h] = "none"]
  /\ UNCHANGED <<process, next, cancelled, registry, locks>>

Receive(h, w) ==
  /\ h \notin Background
  /\ Verified(w)
  /\ Begin(h, w)

(* A consumer of a background service takes a message and runs its script. *)
TakeMessage(h, w) ==
  /\ h \in Background
  /\ Begin(h, w)

RejectRequest(h, w) ==
  /\ h \notin Background
  /\ up
  /\ pc[h] = "idle"
  /\ ~Verified(w)
  /\ status' = [status EXCEPT ![h] = "400"]
  /\ UNCHANGED <<process, pc, request, next, registry, locks>>

(* The client's timeout or disconnection cancels r.Context(). *)
Cancel(h) ==
  /\ h \notin Background
  /\ pc[h] # "idle"
  /\ ~cancelled[h]
  /\ cancelled' = [cancelled EXCEPT ![h] = TRUE]
  /\ UNCHANGED <<process, pc, workload, next, status, registry, locks>>

(* Faulty variant: the last WriteHeader of a request counts.               *)
WriteHeaderAgain(h, code) ==
  status' = [status EXCEPT ![h] = IF h \in Background THEN @ ELSE code]

(* Only the first WriteHeader of a request counts; a consumer has nobody to
   answer. *)
WriteHeader(h, code) ==
  status' = [status EXCEPT ![h] =
               IF @ = "none" /\ h \notin Background THEN code ELSE @]

At(h, action) ==
  /\ pc[h] = "next"
  /\ next[h] <= Len(workload[h])
  /\ workload[h][next[h]] = action

Proceed(h) ==
  /\ pc' = [pc EXCEPT ![h] = "next"]
  /\ next' = [next EXCEPT ![h] = @ + 1]

(* The handler returns: its workload and its context are gone. *)
Leave(h) ==
  /\ pc' = [pc EXCEPT ![h] = "idle"]
  /\ workload' = [workload EXCEPT ![h] = <<>>]
  /\ next' = [next EXCEPT ![h] = 1]
  /\ cancelled' = [cancelled EXCEPT ![h] = FALSE]

(* Faulty variant: Execute returns as soon as it finds the context
   cancelled, in the middle of a critical section too.                     *)
CompleteWhenCancelled(h) ==
  /\ pc[h] = "next"
  /\ next[h] > Len(workload[h]) \/ cancelled[h]
  /\ Leave(h)
  /\ WriteHeader(h, "200")
  /\ UNCHANGED <<process, registry, locks>>

Complete(h) ==
  /\ pc[h] = "next"
  /\ next[h] > Len(workload[h])
  /\ Leave(h)
  /\ WriteHeader(h, "200")
  /\ UNCHANGED <<process, registry, locks>>

-----------------------------------------------------------------------------
(* Actions that touch nothing shared.  A cancelled context is logged by
   Execute and otherwise left to the action. *)

DoWork(h) ==
  /\ At(h, Work)
  /\ Proceed(h)
  /\ UNCHANGED <<process, request, status, registry, locks>>

(* A second WriteHeader is ignored before its code is looked at. *)
DoRespond(h, code) ==
  /\ At(h, Respond(code))
  /\ code = Invalid => status[h] # "none"
  /\ WriteHeader(h, code)
  /\ Proceed(h)
  /\ UNCHANGED <<process, request, registry, locks>>

(* The goroutine panics, if the dice say so, at some later moment. *)
DoPanic(h) ==
  /\ At(h, Panic)
  /\ Proceed(h)
  /\ doomed' \in {doomed, TRUE}
  /\ UNCHANGED <<up, leaked, request, status, registry, locks>>

StartCall(h) ==
  /\ \E call \in Calls : At(h, call)
  /\ pc' = [pc EXCEPT ![h] = "call"]
  /\ UNCHANGED <<process, request, next, status, registry, locks>>

MayEnd(h, how) == pc[h] = "call" /\ how \in workload[h][next[h]][2].ends

CallSucceeds(h) ==
  /\ MayEnd(h, "nil")
  /\ Proceed(h)
  /\ UNCHANGED <<process, request, status, registry, locks>>

(* Execute returns the error and skips the rest of the workload, an Unlock
   included. *)
CallFails(h) ==
  /\ MayEnd(h, "error")
  /\ Leave(h)
  /\ WriteHeader(h, "500")
  /\ UNCHANGED <<process, registry, locks>>

(* An action panics in the handler's own goroutine: net/http recovers and
   drops the connection. *)
CallPanics(h) ==
  /\ h \notin Background
  /\ MayEnd(h, "panic")
  /\ Leave(h)
  /\ status' = [status EXCEPT ![h] = "aborted"]
  /\ UNCHANGED <<process, registry, locks>>

-----------------------------------------------------------------------------
(* AllocateMemory *)

(* The limit is passed; 0 is no limit. *)
Full(a, size) == a.limit > 0 /\ size > a.limit

(* Faulty variant: the limit is looked at once, before the loop.           *)
LeakedByAtOnce(a, k) == k = IF Full(a, leaked) THEN 0 ELSE a.count

(* The loop leaks the first k allocations: it looks at the limit of its own
   request before it adds one. *)
LeakedBy(a, k) ==
  /\ \A j \in 0..a.count : j < k => ~Full(a, leaked + j * a.size)
  /\ k < a.count => Full(a, leaked + k * a.size)

(* The loop runs under the action's mutex, which covers nothing else. *)
DoAllocate(h, a) ==
  /\ At(h, Allocate(a))
  /\ ~MakePanics(a)
  /\ \E k \in 0..a.count : LeakedBy(a, k) /\ leaked' = leaked + k * a.size
  /\ Proceed(h)
  /\ UNCHANGED <<up, doomed, request, status, registry, locks>>

(* An action panics in the handler's own goroutine without having called
   anybody: WriteHeader with a code outside of 100..999, unless a header was
   written before, or make, before anything is leaked. *)
ActionPanics(h) ==
  /\ h \notin Background
  /\ \/ At(h, Respond(Invalid)) /\ status[h] = "none"
     \/ \E a \in Allocations : At(h, Allocate(a)) /\ MakePanics(a)
  /\ Leave(h)
  /\ status' = [status EXCEPT ![h] = "aborted"]
  /\ UNCHANGED <<process, registry, locks>>

-----------------------------------------------------------------------------
(* GlobalMutexLock and GlobalMutexUnlock *)

(* GLOBAL_MUTEX.Lock() of either action *)
EnterRegistry(h, id) ==
  /\ registry = None
  /\ \/ At(h, Lock(id)) /\ pc' = [pc EXCEPT ![h] = "lookup"]
     \/ At(h, Unlock(id)) /\ pc' = [pc EXCEPT ![h] = "unlock"]
  /\ registry' = h
  /\ UNCHANGED <<process, request, next, status, locks>>

(* Faulty variant: a second Lock replaces the mutex of the first.          *)
LookupReplaces(h, id) ==
  /\ pc[h] = "lookup"
  /\ workload[h][next[h]] = Lock(id)
  /\ locks' = [locks EXCEPT ![id] = "unlocked"]
  /\ registry' = None
  /\ pc' = [pc EXCEPT ![h] = "lock"]
  /\ UNCHANGED <<process, request, next, status>>

(* Create the mutex unless it exists, take the pointer, release
   GLOBAL_MUTEX before waiting for the mutex itself *)
Lookup(h, id) ==
  /\ pc[h] = "lookup"
  /\ workload[h][next[h]] = Lock(id)
  /\ locks' = [locks EXCEPT ![id] = IF @ = "absent" THEN "unlocked" ELSE @]
  /\ registry' = None
  /\ pc' = [pc EXCEPT ![h] = "lock"]
  /\ UNCHANGED <<process, request, next, status>>

(* Faulty variant: TryLock, whose result is not looked at.                 *)
TryAcquireLock(h, id) ==
  /\ pc[h] = "lock"
  /\ workload[h][next[h]] = Lock(id)
  /\ locks' = [locks EXCEPT ![id] = "locked"]
  /\ Proceed(h)
  /\ UNCHANGED <<process, request, status, registry>>

(* lock.Lock(): waits for the mutex, and for nothing else, not even for the
   request's context *)
AcquireLock(h, id) ==
  /\ pc[h] = "lock"
  /\ workload[h][next[h]] = Lock(id)
  /\ locks[id] = "unlocked"
  /\ locks' = [locks EXCEPT ![id] = "locked"]
  /\ Proceed(h)
  /\ UNCHANGED <<process, request, status, registry>>

(* Faulty variant: GLOBAL_MUTEX is not released after an Unlock.           *)
ReleaseLockKeepsRegistry(h, id) ==
  /\ pc[h] = "unlock"
  /\ workload[h][next[h]] = Unlock(id)
  /\ locks[id] # "unlocked"
  /\ locks' = [locks EXCEPT ![id] = IF @ = "locked" THEN "unlocked" ELSE @]
  /\ Proceed(h)
  /\ UNCHANGED <<process, request, status, registry>>

(* Unlock with GLOBAL_MUTEX held; an id that was never locked is skipped *)
ReleaseLock(h, id) ==
  /\ pc[h] = "unlock"
  /\ workload[h][next[h]] = Unlock(id)
  /\ locks[id] # "unlocked"
  /\ locks' = [locks EXCEPT ![id] = IF @ = "locked" THEN "unlocked" ELSE @]
  /\ registry' = None
  /\ Proceed(h)
  /\ UNCHANGED <<process, request, status>>

-----------------------------------------------------------------------------
(* The end of the process *)

(* Everything is in memory; the connections of all requests break. *)
Die ==
  /\ up' = FALSE
  /\ doomed' = FALSE
  /\ leaked' = 0
  /\ pc' = [h \in Handlers |-> "idle"]
  /\ workload' = [h \in Handlers |-> <<>>]
  /\ next' = [h \in Handlers |-> 1]
  /\ cancelled' = [h \in Handlers |-> FALSE]
  /\ status' = [h \in Handlers |-> IF pc[h] = "idle" THEN status[h] ELSE "aborted"]
  /\ registry' = None
  /\ locks' = [id \in Ids |-> "absent"]

(* sync: unlock of unlocked mutex *)
FatalUnlock(h, id) ==
  /\ pc[h] = "unlock"
  /\ workload[h][next[h]] = Unlock(id)
  /\ locks[id] = "unlocked"
  /\ Die

Crash == doomed /\ Die

(* Nobody recovers the panic of a consumer. *)
ScriptPanics(h) ==
  /\ h \in Background
  /\ MayEnd(h, "panic")
  /\ Die

(* SIGINT or SIGTERM: command_server returns without server.Shutdown *)
Signal == up /\ Die

(* The pod's container is started again. *)
Restart ==
  /\ ~up
  /\ up' = TRUE
  /\ UNCHANGED <<doomed, leaked, pc, workload, next, cancelled, status, registry, locks>>

-----------------------------------------------------------------------------

Compute(h) ==
  \/ Complete(h) \/ DoWork(h) \/ DoPanic(h) \/ StartCall(h) \/ ActionPanics(h)
  \/ \E code \in HeaderCodes : DoRespond(h, code)
  \/ \E a \in Allocations : DoAllocate(h, a)
  \/ \E id \in Ids : Lookup(h, id) \/ ReleaseLock(h, id) \/ FatalUnlock(h, id)

EndCall(h) == CallSucceeds(h) \/ CallFails(h) \/ CallPanics(h) \/ ScriptPanics(h)

Handle(h) ==
  \/ \E w \in Workloads : Receive(h, w) \/ RejectRequest(h, w)
  \/ \E w \in Scripts : TakeMessage(h, w)
  \/ Cancel(h)
  \/ Compute(h)
  \/ EndCall(h)
  \/ \E id \in Ids : EnterRegistry(h, id) \/ AcquireLock(h, id)

Next ==
  \/ \E h \in Handlers : Handle(h)
  \/ Crash \/ Signal \/ Restart

Spec == Init /\ [][Next]_vars

(* A call in progress that ends whether or not the other side answers: it
   has a limit of its own, or its context is cancelled *)
Bounded(h) ==
  /\ pc[h] = "call"
  /\ \/ workload[h][next[h]][2].latest = "own"
     \/ workload[h][next[h]][2].latest = "context" /\ cancelled[h]

(* Handlers are goroutines and are scheduled.  sync.Mutex hands itself to
   the longest waiter once that has starved for a millisecond, so a mutex
   that keeps being released is acquired in the end (strong fairness).  A
   worker's request carries a timeout, so a request that stays unanswered is
   cancelled. *)
Fairness ==
  \A h \in Handlers :
    /\ WF_vars(Compute(h))
    /\ WF_vars(Cancel(h))
    /\ WF_vars(Bounded(h) /\ EndCall(h))
    /\ SF_vars(\E id \in Ids : EnterRegistry(h, id))
    /\ SF_vars(\E id \in Ids : AcquireLock(h, id))

FairSpec == Spec /\ Fairness

-----------------------------------------------------------------------------
(* Critical sections *)

(* The workload has locked id before its k-th action and not unlocked it
   since. *)
HeldAt(w, k, id) ==
  \E i \in 1..(k-1) :
    /\ w[i] = Lock(id)
    /\ \A j \in (i+1)..(k-1) : w[j] # Unlock(id)

(* Every plan of the repository that uses the mutexes brackets its critical
   sections; the server does not require it. *)
Bracketed(w) ==
  \A id \in Ids :
    /\ \A k \in 1..Len(w) : /\ w[k] = Lock(id) => ~HeldAt(w, k, id)
                            /\ w[k] = Unlock(id) => HeldAt(w, k, id)
    /\ ~HeldAt(w, Len(w) + 1, id)

Holds(h, id) == pc[h] # "idle" /\ HeldAt(workload[h], next[h], id)

(* Locked, and whoever locked it is gone *)
Orphaned ==
  {id \in Ids : locks[id] = "locked" /\ \A h \in Handlers : ~Holds(h, id)}

WaitsFor(h, id) == pc[h] = "lock" /\ workload[h][next[h]] = Lock(id)

(* Handlers that wait for each other, or for themselves, for ever *)
Deadlocked ==
  \E S \in (SUBSET Handlers) \ {{}} :
    \A h \in S : \E id \in Ids, g \in S :
      WaitsFor(h, id) /\ Holds(g, id) /\ locks[id] = "locked"

(* It waits for a mutex, and so does every handler on whom that depends, up
   to an orphaned lock or round in a circle. *)
Stuck(h) ==
  \E S \in SUBSET Handlers :
    /\ h \in S
    /\ \A g \in S : \E id \in Ids :
         /\ WaitsFor(g, id) /\ locks[id] = "locked"
         /\ id \in Orphaned \/ \E f \in S : Holds(f, id)

(* The types of the variables; GLOBAL_MUTEX is held exactly by the handler
   that is between its Lock and its Unlock.                                *)
TypeOK ==
  /\ up \in BOOLEAN /\ doomed \in BOOLEAN /\ leaked \in Nat
  /\ pc \in [Handlers -> {"idle", "next", "call", "lookup", "lock", "unlock"}]
  /\ workload \in [Handlers -> Workloads \cup Scripts \cup {<<>>}]
  /\ next \in [Handlers -> Nat]
  /\ cancelled \in [Handlers -> BOOLEAN]
  /\ status \in [Handlers -> Statuses]
  /\ locks \in [Ids -> {"absent", "unlocked", "locked"}]
  /\ registry \in Handlers \cup {None}
  /\ \A h \in Handlers : registry = h <=> pc[h] \in {"lookup", "unlock"}

(* What the mutexes are for: with bracketed workloads no two requests are
   in a critical section of the same id, however their lookups, failures,
   cancellations and restarts interleave.                                  *)
MutualExclusion ==
  \A id \in Ids, h1, h2 \in Handlers :
    Holds(h1, id) /\ Holds(h2, id) => h1 = h2

(* With bracketed workloads no request makes the runtime end the process
   with "unlock of unlocked mutex".                                        *)
NoFatalUnlock ==
  \A h \in Handlers, id \in Ids :
    (pc[h] = "unlock" /\ workload[h][next[h]] = Unlock(id)) =>
      locks[id] = "locked"

(* Requests that all limit their leak leave at most one allocation more than
   the most generous limit, however many of them leak, with whatever limits
   and sizes.                                                              *)
LeakBounded ==
  (\A a \in Allocations : a.limit > 0) =>
    leaked = 0 \/ \E a \in Allocations : leaked <= a.limit + a.size

(* It may leave its workload before the end of it. *)
Failing(h) == pc[h] = "call" \/ \E action \in Panicking : At(h, action)

(* A lock is orphaned only by a request that fails inside its critical
   section, in a call or at an action that panics, never by one that
   completes, however late: after its client gave up too.                  *)
OrphanedByFailure ==
  [][\A id \in Orphaned' \ Orphaned :
       \E h \in Handlers : Failing(h) /\ pc'[h] = "idle" /\ Holds(h, id)]_vars

(* An orphaned lock is out of reach of every other request: only the end of
   the process frees it.                                                   *)
OrphanedUntilRestart == [][up' => Orphaned \subseteq Orphaned']_vars

(* Every request leaves the server, cancelled or not, although lock.Lock()
   ignores the context, unless it gets stuck for good itself: behind an
   orphaned lock, or among handlers that lock in opposite orders and wait
   for each other.  What is stuck stops nobody else, not even on its way
   through GLOBAL_MUTEX.  Needs workloads without the calls that only an
   answer ends (ElasticInsert, MongodbQuery), and scripts that call nobody. *)
RequestsEnd ==
  \A h \in Handlers : []<>(pc[h] = "idle") \/ <>[]Stuck(h)
=============================================================================
