------------------------- MODULE LoadedServerProofs -------------------------
(***************************************************************************)
(* Proofs about a phase against a server, for every phase, every server    *)
(* and every workload: who works for whom, and that the report matches     *)
(* what the server did.  What PhaseRunProofs and WorkloadServerProofs      *)
(* show of either side alone is used here for the two together.            *)
(***************************************************************************)
EXTENDS LoadedServer, SumTheorems

CP == INSTANCE PhaseRunProofs WITH pc <- step, Word <- 256
SP == INSTANCE WorkloadServerProofs WITH
        Background <- {}, Scripts <- {}, Allocations <- {},
        Workloads <- Loads \cup {Setup, Teardown}

-----------------------------------------------------------------------------
(* The components' assumptions *)

LEMMA PhaseAssumed == CP!PhaseAssumption
<1>1. Codes \subseteq 200..599 /\ Codes # {}
  BY DEF Codes
<1>2. Phases \subseteq CP!PhaseType /\ MaxRequests \in Nat
  BY LoadedAssumption DEF C!PhaseType, CP!PhaseType
<1>3. 256 \in Nat \ {0}
  OBVIOUS
<1>4. QED
  BY <1>1, <1>2, <1>3 DEF CP!PhaseAssumption

(* The operators of both instances of a component are the same. *)
LEMMA SamePhaseNext == C!Next <=> CP!Next
BY DEF C!Zero, CP!Zero, C!control, CP!control, C!workers, CP!workers,
       C!counters, CP!counters, C!vars, CP!vars, C!Groups, CP!Groups,
       C!Workers, CP!Workers, C!NoReport, CP!NoReport, C!PhaseDone,
       CP!PhaseDone, C!GroupDone, CP!GroupDone, C!Tick, CP!Tick,
       C!ContextError, CP!ContextError, C!Return, CP!Return, C!SendSetup,
       CP!SendSetup, C!SkipSetup, CP!SkipSetup, C!SetupAnswered,
       CP!SetupAnswered, C!SetupFails, CP!SetupFails, C!MarshalFails,
       CP!MarshalFails, C!StartGroup, CP!StartGroup, C!WorkersFinished,
       CP!WorkersFinished, C!GroupEnds, CP!GroupEnds, C!LastGroupEnded,
       CP!LastGroupEnded, C!Report, CP!Report, C!TeardownEnds, CP!TeardownEnds,
       C!ReporterEnds, CP!ReporterEnds, C!Goto, CP!Goto, C!StopLoop,
       CP!StopLoop, C!Send, CP!Send, C!RequestInvalid, CP!RequestInvalid,
       C!RequestFails, CP!RequestFails, C!Respond, CP!Respond, C!LoseBody,
       CP!LoseBody, C!AddError, CP!AddError, C!AddRequest, CP!AddRequest,
       C!Merge, CP!Merge, C!Drive, CP!Drive, C!ServerDecides, CP!ServerDecides,
       C!WorkerStep, CP!WorkerStep, C!Returned, CP!Returned, C!Next, CP!Next,
       C!Min, CP!Min

LEMMA SamePhaseInit == (C!Init <=> CP!Init) /\ C!vars = CP!vars /\ C!Workers = CP!Workers
BY DEF C!Init, CP!Init, C!vars, CP!vars, C!Groups, CP!Groups, C!Workers,
       CP!Workers, C!Zero, CP!Zero, C!NoReport, CP!NoReport

LEMMA SameActions == S!Actions = SP!Actions
BY DEF S!Lock, SP!Lock, S!Unlock, SP!Unlock, S!Respond, SP!Respond, S!Allocate,
       SP!Allocate, S!Work, SP!Work, S!Panic, SP!Panic, S!Unknown, SP!Unknown,
       S!Call, SP!Call, S!HTTPRequest, SP!HTTPRequest, S!HTTPGetRequest,
       SP!HTTPGetRequest, S!RedisCommand, SP!RedisCommand, S!PostgresqlQuery,
       SP!PostgresqlQuery, S!MysqlQuery, SP!MysqlQuery, S!SnowflakeQuery,
       SP!SnowflakeQuery, S!MongodbQuery, SP!MongodbQuery, S!ElasticQuery,
       SP!ElasticQuery, S!ElasticInsert, SP!ElasticInsert, S!CreateFile,
       SP!CreateFile, S!RandomIO, SP!RandomIO, S!KafkaProduce, SP!KafkaProduce,
       S!RabbitProduce, SP!RabbitProduce, S!MinioObject, SP!MinioObject,
       S!SqlQuery, SP!SqlQuery, S!RedisMethod, SP!RedisMethod, S!Calls,
       SP!Calls, S!Codes, SP!Codes, S!Invalid, SP!Invalid, S!HeaderCodes,
       SP!HeaderCodes, S!ScriptSteps, SP!ScriptSteps, S!Actions, SP!Actions

LEMMA ServerAssumed == SP!ServerAssumption
<1>1. Loads \cup {Setup, Teardown} \subseteq Seq(SP!Actions)
  BY LoadedAssumption, SameActions
<1>2. None \notin Handlers
  BY LoadedAssumption
<1>3. QED
  BY <1>1, <1>2 DEF SP!ServerAssumption

LEMMA SameServerNext == S!Next <=> SP!Next
BY DEF S!Lock, SP!Lock, S!Unlock, SP!Unlock, S!Respond, SP!Respond, S!Allocate,
       SP!Allocate, S!Work, SP!Work, S!Panic, SP!Panic, S!Unknown, SP!Unknown,
       S!Call, SP!Call, S!HTTPRequest, SP!HTTPRequest, S!HTTPGetRequest,
       SP!HTTPGetRequest, S!RedisCommand, SP!RedisCommand, S!PostgresqlQuery,
       SP!PostgresqlQuery, S!MysqlQuery, SP!MysqlQuery, S!SnowflakeQuery,
       SP!SnowflakeQuery, S!MongodbQuery, SP!MongodbQuery, S!ElasticQuery,
       SP!ElasticQuery, S!ElasticInsert, SP!ElasticInsert, S!CreateFile,
       SP!CreateFile, S!RandomIO, SP!RandomIO, S!KafkaProduce, SP!KafkaProduce,
       S!RabbitProduce, SP!RabbitProduce, S!MinioObject, SP!MinioObject,
       S!SqlQuery, SP!SqlQuery, S!RedisMethod, SP!RedisMethod, S!Calls,
       SP!Calls, S!Codes, SP!Codes, S!Invalid, SP!Invalid, S!HeaderCodes,
       SP!HeaderCodes, S!MakePanics, SP!MakePanics, S!ActionPanics,
       SP!ActionPanics, S!vars, SP!vars, S!request,
       SP!request, S!process, SP!process, S!Init, SP!Init, S!Verified,
       SP!Verified, S!Begin, SP!Begin, S!Receive, SP!Receive, S!TakeMessage,
       SP!TakeMessage, S!RejectRequest, SP!RejectRequest, S!Cancel, SP!Cancel,
       S!WriteHeader, SP!WriteHeader, S!At, SP!At, S!Proceed, SP!Proceed,
       S!Leave, SP!Leave, S!Complete, SP!Complete, S!DoWork, SP!DoWork,
       S!DoRespond, SP!DoRespond, S!DoPanic, SP!DoPanic, S!StartCall,
       SP!StartCall, S!MayEnd, SP!MayEnd, S!CallSucceeds, SP!CallSucceeds,
       S!CallFails, SP!CallFails, S!CallPanics, SP!CallPanics, S!Full, SP!Full,
       S!LeakedBy, SP!LeakedBy, S!DoAllocate, SP!DoAllocate, S!EnterRegistry,
       SP!EnterRegistry, S!Lookup, SP!Lookup, S!AcquireLock, SP!AcquireLock,
       S!ReleaseLock, SP!ReleaseLock, S!Die, SP!Die, S!FatalUnlock,
       SP!FatalUnlock, S!Crash, SP!Crash, S!ScriptPanics, SP!ScriptPanics,
       S!Signal, SP!Signal, S!Restart, SP!Restart, S!Compute, SP!Compute,
       S!EndCall, SP!EndCall, S!Handle, SP!Handle, S!Next, SP!Next

LEMMA SameServerInit == (S!Init <=> SP!Init) /\ S!vars = SP!vars
BY DEF S!Init, SP!Init, S!vars, SP!vars

LEMMA SameServerTypeOK == S!TypeOK <=> SP!TypeOK
BY DEF S!TypeOK, SP!TypeOK, S!Statuses, SP!Statuses, S!Codes, SP!Codes

-----------------------------------------------------------------------------
(* Every step is a step of the client, or of the server, or of both. *)

LEMMA StepOfServer ==
  ASSUME NEW h \in Handlers,
         \/ S!Compute(h) \/ S!EndCall(h) \/ S!Cancel(h)
         \/ \E id \in Ids : S!EnterRegistry(h, id) \/ S!AcquireLock(h, id)
  PROVE  S!Next
BY DEF S!Next, S!Handle

LEMMA EveryStep ==
  ASSUME load \in Loads, [Next]_vars
  PROVE  [C!Next]_(C!vars) /\ [S!Next]_(S!vars)
<1>1. UNCHANGED client => UNCHANGED C!vars
  BY DEF client, C!vars
<1>2. UNCHANGED server => UNCHANGED S!vars
  BY DEF server, S!vars
<1>3. CASE UNCHANGED vars
  BY <1>1, <1>2, <1>3 DEF vars
<1>4. CASE Tick \/ Drive \/ \E g \in C!Groups : ReporterEnds(g)
  BY <1>2, <1>4 DEF Tick, Drive, ReporterEnds, C!Next
<1>5. CASE SectionStep
  BY <1>2, <1>5 DEF SectionStep, SetupAnswered, SetupFails, TeardownEnds, Taken,
     C!Next, C!ServerDecides
<1>6. CASE \E w \in C!Workers : WorkerStep(w)
  BY <1>2, <1>6 DEF WorkerStep, WorkerMoves, RequestFails, Respond, Taken,
     C!Next, C!WorkerStep, LoseBody
<1>7. CASE \E x \in Requesters : Accept(x) \/ Reject(x)
  <2>1. PICK x \in Requesters : Accept(x) \/ Reject(x)
    BY <1>7
  <2> DEFINE h == CHOOSE g \in Idle : TRUE
  <2>2. h \in Handlers
    BY <2>1 DEF Accept, Reject, Idle
  <2>3. /\ S!Receive(h, WorkloadFor(x)) \/ S!RejectRequest(h, WorkloadFor(x))
        /\ UNCHANGED client
    BY <2>1 DEF Accept, Reject
  <2>4. WorkloadFor(x) \in Loads \cup {Setup, Teardown}
    BY DEF WorkloadFor
  <2>5. QED
    BY <1>1, <2>2, <2>3, <2>4 DEF S!Next, S!Handle
<1>8. CASE \E h \in Handlers : HandlerStep(h)
  BY <1>1, <1>8, StepOfServer DEF HandlerStep, Compute, EndCall, Cancel,
     EnterRegistry, AcquireLock, Answer
<1>9. CASE ServerEnds \/ Restart
  BY <1>1, <1>9 DEF ServerEnds, Restart, Answer, S!Next
<1>10. CASE Returned
  BY <1>3, <1>10 DEF Returned
<1>11. QED
  BY <1>3, <1>4, <1>5, <1>6, <1>7, <1>8, <1>9, <1>10 DEF Next

-----------------------------------------------------------------------------
(* What the components' invariants say of either side *)

(* The client: worker groups start in order, workers are active only while
   their group is waited for, and an inactive one has merged its statistics. *)
ClientFacts ==
  /\ C!TypeOK
  /\ \A w \in C!Workers : at[w] # "off" => w[1] <= group
  /\ step # "wait" => \A w \in C!Workers : at[w] \in {"off", "done"}
  /\ \A w \in C!Workers : at[w] \in {"off", "done"} => local[w] = C!Zero

(* The server: a handler begins with the first action of its workload. *)
ServerFacts ==
  /\ S!TypeOK
  /\ \A h \in Handlers : next[h] # 0 /\ (pc[h] = "idle" => next[h] = 1)

Sides == CP!CountInv /\ ServerFacts /\ load \in Loads

LEMMA SidesFacts == Sides => ClientFacts
<1> SUFFICES ASSUME Sides PROVE ClientFacts
  OBVIOUS
<1>1. C!TypeOK
  BY DEF Sides, CP!CountInv, CP!PhaseInv, CP!TypeOK, C!TypeOK, C!Groups, CP!Groups,
     C!Workers, CP!Workers
<1>2. \A w \in C!Workers : at[w] # "off" => w[1] <= group
  BY SamePhaseInit DEF Sides, CP!CountInv, CP!PhaseInv, CP!Started
<1>3. step # "wait" => \A w \in C!Workers : at[w] \in {"off", "done"}
  BY SamePhaseInit DEF Sides, CP!CountInv, CP!PhaseInv, CP!Quiet, CP!Active
<1>4. \A w \in C!Workers : at[w] \in {"off", "done"} => local[w] = C!Zero
  BY SamePhaseInit DEF Sides, CP!CountInv, CP!Accounts, CP!Active, C!Zero, CP!Zero
<1>5. QED
  BY <1>1, <1>2, <1>3, <1>4 DEF ClientFacts

LEMMA InitSides == Init => Sides
<1> SUFFICES ASSUME Init PROVE Sides
  OBVIOUS
<1>1. CP!Init
  BY SamePhaseInit DEF Init
<1>2. CP!CountInv
  BY <1>1, PhaseAssumed, CP!InitInv, CP!InitCounts DEF CP!CountInv
<1>3. SP!TypeOK
  BY ServerAssumed, SameServerInit, SP!InitTypeOK DEF Init
<1>4. QED
  BY <1>2, <1>3, SameServerTypeOK DEF Init, Sides, ServerFacts, S!Init

LEMMA NextStart ==
  ASSUME ServerFacts, [S!Next]_(S!vars), S!TypeOK'
  PROVE  \A h \in Handlers : next'[h] # 0 /\ (pc'[h] = "idle" => next'[h] = 1)
<1> USE DEF ServerFacts, S!TypeOK
<1>1. CASE UNCHANGED S!vars
  BY <1>1 DEF S!vars
<1>2. CASE S!Die \/ S!Restart
  BY <1>2 DEF S!Die, S!Restart
<1>3. CASE \E h \in Handlers : S!Handle(h)
  <2>1. PICK h \in Handlers : S!Handle(h)
    BY <1>3
  <2>2. CASE \/ \E w : S!Receive(h, w) \/ S!TakeMessage(h, w) \/ S!RejectRequest(h, w)
             \/ S!Cancel(h)
    BY <2>2 DEF S!Receive, S!TakeMessage, S!Begin, S!RejectRequest, S!Cancel, S!request
  <2>3. CASE S!Leave(h)
    BY <2>3 DEF S!Leave
  <2>4. CASE S!Proceed(h)
    BY <2>4 DEF S!Proceed
  <2>5. CASE S!StartCall(h) \/ \E id \in Ids : S!Lookup(h, id) \/ S!EnterRegistry(h, id)
    BY <2>5 DEF S!StartCall, S!Lookup, S!EnterRegistry
  <2>6. QED
    BY <1>2, <2>1, <2>2, <2>3, <2>4, <2>5 DEF S!Handle, S!Compute, S!EndCall,
       S!Complete, S!DoWork, S!DoPanic, S!DoRespond, S!DoAllocate, S!ReleaseLock,
       S!FatalUnlock, S!CallSucceeds, S!CallFails, S!CallPanics, S!ActionPanics,
       S!ScriptPanics, S!AcquireLock
<1>4. QED
  BY <1>1, <1>2, <1>3 DEF S!Next, S!Crash, S!Signal

LEMMA NextSides == Sides /\ [Next]_vars => Sides'
<1> SUFFICES ASSUME Sides, [Next]_vars PROVE Sides'
  OBVIOUS
<1>1. [C!Next]_(C!vars) /\ [S!Next]_(S!vars)
  BY EveryStep DEF Sides
<1>2. [CP!Next]_(CP!vars) /\ [SP!Next]_(SP!vars)
  BY <1>1, SamePhaseNext, SameServerNext DEF C!vars, CP!vars, S!vars, SP!vars
<1>3. CP!CountInv'
  BY <1>2, PhaseAssumed, CP!NextInv, CP!NextCounts, CP!NextReportIsLast
     DEF Sides, CP!CountInv
<1>4. SP!TypeOK'
  BY <1>2, ServerAssumed, SameServerTypeOK, SP!NextTypeOK DEF Sides, ServerFacts
<1>5. S!TypeOK'
  BY <1>4 DEF S!TypeOK, SP!TypeOK, S!Statuses, SP!Statuses, S!Codes, SP!Codes
<1>6. ServerFacts'
  BY <1>1, <1>5, NextStart DEF Sides, ServerFacts
<1>7. load' = load
  BY DEF Next, vars, between, Tick, Drive, Returned, ReporterEnds, SectionStep,
     SetupAnswered, SetupFails, TeardownEnds, Taken, WorkerStep, WorkerMoves,
     RequestFails, LoseBody, Respond, Accept, Reject, HandlerStep, Compute, EndCall, EnterRegistry,
     AcquireLock, Cancel, Answer, ServerEnds, Restart
<1>8. QED
  BY <1>3, <1>6, <1>7 DEF Sides

LEMMA SidesFactsNext == (Sides => ClientFacts)'
BY SidesFacts, PTL

-----------------------------------------------------------------------------
(* Requesters and their handlers *)

(* One handler at most works for a requester that has not given up, and none
   once the answer is there; the teardown request is given up by nobody. *)
Linked ==
  /\ TypeOK
  /\ \A g, h \in Handlers \ abandoned :
       (serves[g] # None /\ serves[g] = serves[h]) => g = h
  /\ \A x \in Requesters : answer[x] # "none" => Waits(x) /\ ~Accepted(x)
  /\ \A h \in Handlers :
       serves[h] = TeardownSection => step = "teardown" /\ h \notin abandoned

LEMMA RequesterFacts ==
  ASSUME phase \in Phases
  PROVE  /\ \A w \in C!Workers : w \in Nat \X Nat /\ w[1] # 0
         /\ \A w \in C!Workers : w # SetupSection /\ w # TeardownSection
         /\ SetupSection # TeardownSection /\ None \notin Requesters
         /\ SetupSection[1] = 0 /\ TeardownSection[1] = 0
<1>1. phase \in C!PhaseType
  BY LoadedAssumption
<1>2. phase.workers \in Seq([instances : Nat, duration : Nat])
  BY <1>1 DEF C!PhaseType
<1>3. Len(phase.workers) \in Nat
        /\ \A g \in 1..Len(phase.workers) : phase.workers[g].instances \in Nat
  <2>1. Len(phase.workers) \in Nat
        /\ \A g \in 1..Len(phase.workers) :
             phase.workers[g] \in [instances : Nat, duration : Nat]
    <3> DEFINE groups == phase.workers
               record == [instances : Nat, duration : Nat]
    <3>1. groups \in Seq(record)
      BY <1>2
    <3> HIDE DEF groups, record
    <3>2. Len(groups) \in Nat
      BY <3>1
    <3>3. \A g \in 1..Len(groups) : groups[g] \in record
      BY <3>1, CP!ElementOfSeq, PhaseAssumed
    <3>4. QED
      BY <3>2, <3>3 DEF groups, record
  <2>2. QED
    BY <2>1
<1>4. ASSUME NEW w \in C!Workers PROVE w \in Nat \X Nat /\ w[1] # 0
  <2>1. PICK g \in C!Groups : \E j \in 1..phase.workers[g].instances : w = <<g, j>>
    BY DEF C!Workers
  <2>2. g \in Nat \ {0} /\ phase.workers[g].instances \in Nat
    BY <1>3 DEF C!Groups
  <2>3. QED
    BY <2>1, <2>2
<1>5. SetupSection \in Nat \X Nat /\ TeardownSection \in Nat \X Nat
      /\ SetupSection[1] = 0 /\ TeardownSection[1] = 0 /\ SetupSection # TeardownSection
  BY DEF SetupSection, TeardownSection
<1>6. None \notin Requesters
  BY <1>4, <1>5, LoadedAssumption DEF Requesters
<1>7. QED
  BY <1>4, <1>5, <1>6

LEMMA WaitsOf ==
  /\ Waits(SetupSection) <=> step = "setup"
  /\ Waits(TeardownSection) <=> step = "teardown"
  /\ \A x : (x # SetupSection /\ x # TeardownSection) => (Waits(x) <=> at[x] = "inflight")
<1>1. SetupSection # TeardownSection
  BY DEF SetupSection, TeardownSection
<1>2. QED
  BY <1>1 DEF Waits

LEMMA SamePhaseSame ==
  ASSUME phase' = phase
  PROVE  C!Workers' = C!Workers /\ Requesters' = Requesters
BY DEF C!Workers, C!Groups, Requesters, SetupSection, TeardownSection

(* A step of the client that ends nobody's waiting *)
Calm ==
  /\ phase' = phase
  /\ \A x \in Requesters : Waits(x) => Waits(x)'

LEMMA ClientAloneIsCalm ==
  ASSUME ClientFacts,
         \/ Tick \/ Drive \/ Returned \/ UNCHANGED vars
         \/ \E g \in C!Groups : ReporterEnds(g)
         \/ \E w \in C!Workers : WorkerMoves(w)
  PROVE  Calm /\ UNCHANGED <<server, between>>
<1>1. phase' = phase /\ UNCHANGED <<server, between>>
  BY DEF Tick, Drive, Returned, vars, ReporterEnds, WorkerMoves, C!Tick, C!Drive,
     C!SendSetup, C!SkipSetup, C!MarshalFails, C!StartGroup, C!GroupEnds, C!LastGroupEnded,
     C!Report, C!ReporterEnds, C!StopLoop, C!Send, C!AddError, C!AddRequest, C!Merge,
     C!control, client
<1>2. step \in {"setup", "teardown"} => step' = step
  BY DEF Tick, Drive, Returned, vars, ReporterEnds, WorkerMoves, C!Tick, C!Drive,
     C!SendSetup, C!SkipSetup, C!MarshalFails, C!StartGroup, C!GroupEnds, C!LastGroupEnded,
     C!Report, C!ReporterEnds, C!StopLoop, C!Send, C!AddError, C!AddRequest, C!Merge,
     C!control, client
<1>3. ASSUME NEW w \in C!Workers, at[w] = "inflight" PROVE at'[w] = "inflight"
  <2> USE <1>3 DEF ClientFacts, C!TypeOK
  <2>1. CASE C!StartGroup
    BY <2>1, RequesterFacts DEF C!StartGroup
  <2>2. CASE \E v \in C!Workers : WorkerMoves(v)
    <3>1. PICK v \in C!Workers : WorkerMoves(v)
      BY <2>2
    <3>2. at[v] # "inflight"
      BY <3>1 DEF WorkerMoves, C!StopLoop, C!Send, C!AddError, C!AddRequest, C!Merge
    <3>3. \A u \in C!Workers \ {v} : at'[u] = at[u]
      <4>1. at = [u \in C!Workers |-> at[u]]
        OBVIOUS
      <4>2. \E q : at' = [at EXCEPT ![v] = q]
        BY <3>1 DEF WorkerMoves, C!StopLoop, C!Send, C!AddError, C!AddRequest, C!Merge, C!Goto
      <4>3. QED
        BY <4>1, <4>2
    <3>4. QED
      BY <3>2, <3>3
  <2>3. CASE UNCHANGED at
    BY <2>3
  <2>4. QED
    BY <2>1, <2>2, <2>3 DEF Tick, Drive, Returned, vars, ReporterEnds, C!Tick, C!Drive,
       C!SendSetup, C!SkipSetup, C!MarshalFails, C!GroupEnds, C!LastGroupEnded,
       C!Report, C!ReporterEnds, C!workers, client
<1>4. ASSUME NEW x \in Requesters, Waits(x) PROVE Waits(x)'
  <2>1. SetupSection # TeardownSection
    BY DEF SetupSection, TeardownSection
  <2>2. CASE x = SetupSection
    BY <1>2, <1>4, <2>1, <2>2 DEF Waits
  <2>3. CASE x = TeardownSection
    BY <1>2, <1>4, <2>1, <2>3 DEF Waits
  <2>4. CASE x # SetupSection /\ x # TeardownSection
    BY <1>3, <1>4, <2>4 DEF Waits, Requesters
  <2>5. QED
    BY <2>2, <2>3, <2>4
<1>5. QED
  BY <1>1, <1>4 DEF Calm

LEMMA CalmLinked ==
  ASSUME Linked, phase \in Phases, Calm, UNCHANGED <<pc, between>>
  PROVE  Linked'
<1>1. Requesters' = Requesters
  BY SamePhaseSame DEF Calm
<1>2. UNCHANGED <<pc, load, serves, abandoned, answer, ended, lost>>
  BY DEF between
<1>3. \A h \in Handlers : serves[h] # None => serves[h] \in Requesters
  BY DEF Linked, TypeOK
<1>4. \A x \in Requesters : Accepted(x)' <=> Accepted(x)
  BY <1>2 DEF Accepted
<1>5. TypeOK'
  BY <1>1, <1>2, <1>3, <1>4 DEF Linked, TypeOK, Calm
<1>6. ASSUME NEW h \in Handlers, serves[h] = TeardownSection PROVE step' = "teardown"
  <2>1. TeardownSection \in Requesters /\ step = "teardown"
    BY <1>6 DEF Linked, Requesters
  <2>2. Waits(TeardownSection) /\ TeardownSection # SetupSection
    BY <2>1, WaitsOf DEF SetupSection, TeardownSection
  <2>3. Waits(TeardownSection)'
    BY <2>1, <2>2 DEF Calm
  <2>4. QED
    BY <2>2, <2>3 DEF Waits
<1>7. QED
  BY <1>1, <1>2, <1>4, <1>5, <1>6 DEF Linked, Calm, TeardownSection

(* Whoever has taken its answer, or given up, leaves its handler behind. *)
LEMMA TakenLinked ==
  ASSUME Linked, phase \in Phases, NEW x \in Requesters, Taken(x),
         phase' = phase, lost' \in Nat,
         \A y \in Requesters \ {x} : Waits(y) => Waits(y)',
         \A h \in Handlers :
           serves[h] = TeardownSection => x # TeardownSection /\ step' = "teardown"
  PROVE  Linked'
<1>1. Requesters' = Requesters /\ None \notin Requesters
  BY SamePhaseSame, RequesterFacts
<1>2. /\ UNCHANGED <<pc, load, serves, ended>>
      /\ answer' = [answer EXCEPT ![x] = "none"]
      /\ abandoned' = abandoned \cup {h \in Handlers : serves[h] = x}
  BY DEF Taken, server
<1>3. \A h \in Handlers \ abandoned' : h \notin abandoned /\ serves[h] # x
  BY <1>2
<1>4. answer' \in [Requesters -> S!Statuses]
  BY <1>2 DEF Linked, TypeOK, S!Statuses
<1>5. ASSUME NEW y \in Requesters, Accepted(y)' PROVE Waits(y)'
  <2>1. y # x /\ Accepted(y)
    BY <1>2, <1>3, <1>5 DEF Accepted
  <2>2. Waits(y)
    BY <2>1 DEF Linked, TypeOK
  <2>3. QED
    BY <2>1, <2>2
<1>6. TypeOK'
  BY <1>1, <1>2, <1>4, <1>5 DEF Linked, TypeOK
<1>7. \A g, h \in Handlers \ abandoned' :
        (serves'[g] # None /\ serves'[g] = serves'[h]) => g = h
  BY <1>2, <1>3 DEF Linked
<1>8. ASSUME NEW y \in Requesters, answer'[y] # "none" PROVE Waits(y)' /\ ~Accepted(y)'
  <2>1. y # x /\ answer[y] # "none"
    BY <1>2, <1>8 DEF Linked, TypeOK
  <2>2. Waits(y) /\ ~Accepted(y)
    BY <2>1 DEF Linked
  <2>3. ~Accepted(y)'
    BY <1>2, <1>3, <2>2 DEF Accepted
  <2>4. QED
    BY <2>1, <2>2, <2>3
<1>9. ASSUME NEW h \in Handlers, serves'[h] = TeardownSection
      PROVE  step' = "teardown" /\ h \notin abandoned'
  BY <1>2, <1>9 DEF Linked
<1>10. QED
  BY <1>1, <1>6, <1>7, <1>8, <1>9 DEF Linked, TeardownSection

(* A new handler for a requester that waits and has none *)
LEMMA AcceptLinked ==
  ASSUME Linked, ServerFacts, ServerFacts', phase \in Phases, NEW x \in Requesters, Accept(x)
  PROVE  Linked'
<1> DEFINE h == CHOOSE g \in Idle : TRUE
<1>1. h \in Handlers /\ pc[h] = "idle"
  BY DEF Accept, Idle
<1>2. /\ UNCHANGED <<client, load, abandoned, answer, ended, lost>>
      /\ serves' = [serves EXCEPT ![h] = x] /\ S!Receive(h, WorkloadFor(x))
      /\ Waits(x) /\ ~Accepted(x) /\ answer[x] = "none"
  BY DEF Accept
<1>3. pc' = [pc EXCEPT ![h] = "next"]
  BY <1>2 DEF S!Receive, S!Begin
<1>4. UNCHANGED <<phase, step, at>> /\ phase' = phase
  BY <1>2 DEF client
<1>5. Requesters' = Requesters /\ None \notin Requesters
  BY <1>4, SamePhaseSame, RequesterFacts
<1>6. \A y : Waits(y)' <=> Waits(y)
  BY <1>4 DEF Waits, SetupSection, TeardownSection
<1>7. serves[h] = None /\ h \notin abandoned
  BY <1>1 DEF Linked, TypeOK
<1>8. \A g \in Handlers : serves'[g] = IF g = h THEN x ELSE serves[g]
  BY <1>2 DEF Linked, TypeOK
<1>9. \A g \in Handlers : pc'[g] = IF g = h THEN "next" ELSE pc[g]
  BY <1>3 DEF ServerFacts, S!TypeOK
<1> HIDE DEF h
<1>10. serves' \in [Handlers -> Requesters \cup {None}]
  BY <1>1, <1>2 DEF Linked, TypeOK
<1>11. \A g \in Handlers : serves'[g] = None <=> pc'[g] = "idle"
  BY <1>5, <1>8, <1>9 DEF Linked, TypeOK
<1>12. abandoned \subseteq {g \in Handlers : serves'[g] # None}
  BY <1>7, <1>8 DEF Linked, TypeOK
<1>13. ASSUME NEW y \in Requesters, Accepted(y)' PROVE Waits(y)'
  <2>1. y = x \/ Accepted(y)
    BY <1>2, <1>8, <1>13 DEF Accepted
  <2>2. Waits(y)
    BY <1>2, <2>1 DEF Linked, TypeOK
  <2>3. QED
    BY <1>6, <2>2
<1>14. TypeOK'
  BY <1>2, <1>5, <1>10, <1>11, <1>12, <1>13 DEF Linked, TypeOK
<1>15. \A g \in Handlers \ abandoned : g # h => serves[g] # x
  BY <1>2 DEF Accepted
<1>16. \A f, g \in Handlers \ abandoned :
         (serves'[f] # None /\ serves'[f] = serves'[g]) => f = g
  BY <1>8, <1>15 DEF Linked
<1>17. ASSUME NEW y \in Requesters, answer[y] # "none" PROVE Waits(y)' /\ ~Accepted(y)'
  <2>1. y # x /\ Waits(y) /\ ~Accepted(y)
    BY <1>2, <1>17 DEF Linked
  <2>2. QED
    BY <1>2, <1>6, <1>8, <2>1 DEF Accepted
<1>18. ASSUME NEW g \in Handlers, serves'[g] = TeardownSection
       PROVE  step = "teardown" /\ g \notin abandoned
  <2>1. CASE g = h
    BY <1>2, <1>7, <1>8, <1>18, <2>1, WaitsOf
  <2>2. CASE g # h
    BY <1>8, <1>18, <2>2 DEF Linked
  <2>3. QED
    BY <2>1, <2>2
<1>19. QED
  BY <1>2, <1>4, <1>5, <1>14, <1>16, <1>17, <1>18 DEF Linked, TeardownSection

(* A request that is turned down is answered at once. *)
LEMMA RejectLinked ==
  ASSUME Linked, phase \in Phases, NEW x \in Requesters, Reject(x)
  PROVE  Linked'
<1>1. /\ UNCHANGED <<client, load, serves, abandoned, lost>>
      /\ answer' = [answer EXCEPT ![x] = "400"]
      /\ Waits(x) /\ ~Accepted(x)
      /\ ended' = IF x \in C!Workers THEN [ended EXCEPT ![400] = @ + 1] ELSE ended
  BY DEF Reject
<1>2. pc' = pc
  BY DEF Reject, S!RejectRequest
<1>3. UNCHANGED <<phase, step, at>> /\ phase' = phase
  BY <1>1 DEF client
<1>4. Requesters' = Requesters
  BY <1>3, SamePhaseSame
<1>5. \A y : Waits(y)' <=> Waits(y)
  BY <1>3 DEF Waits, SetupSection, TeardownSection
<1>6. \A y : Accepted(y)' <=> Accepted(y)
  BY <1>1 DEF Accepted
<1>7. answer' \in [Requesters -> S!Statuses]
  BY <1>1 DEF Linked, TypeOK, S!Statuses, S!Codes
<1>8. ended' \in [Codes -> Nat]
  BY <1>1 DEF Linked, TypeOK, Codes
<1>9. TypeOK'
  BY <1>1, <1>2, <1>4, <1>5, <1>6, <1>7, <1>8 DEF Linked, TypeOK
<1>10. ASSUME NEW y \in Requesters, answer'[y] # "none" PROVE Waits(y) /\ ~Accepted(y)
  BY <1>1, <1>10 DEF Linked, TypeOK
<1>11. QED
  BY <1>1, <1>3, <1>4, <1>5, <1>6, <1>9, <1>10 DEF Linked, TeardownSection

-----------------------------------------------------------------------------
(* Steps of the server *)

Serves(h) ==
  \/ S!Compute(h) \/ S!EndCall(h) \/ S!Cancel(h)
  \/ \E id \in Ids : S!EnterRegistry(h, id) \/ S!AcquireLock(h, id)

Undisturbed(g) ==
  pc'[g] = pc[g] /\ status'[g] = status[g] /\ next'[g] = next[g]
  /\ workload'[g] = workload[g]

OneMoves(h) == pc[h] # "idle" /\ \A g \in Handlers \ {h} : Undisturbed(g)

LEMMA OneOrAll ==
  ASSUME ServerFacts, NEW h \in Handlers, Serves(h)
  PROVE  OneMoves(h) \/ S!Die
<1> USE DEF ServerFacts, S!TypeOK, OneMoves, Undisturbed
<1>1. CASE S!Cancel(h)
  BY <1>1 DEF S!Cancel
<1>2. CASE \E id \in Ids : S!EnterRegistry(h, id) \/ S!AcquireLock(h, id)
  BY <1>2 DEF S!EnterRegistry, S!AcquireLock, S!At, S!Proceed, S!request
<1>3. CASE S!Complete(h) \/ S!CallFails(h) \/ S!CallPanics(h) \/ S!ActionPanics(h)
  BY <1>3 DEF S!Complete, S!CallFails, S!CallPanics, S!ActionPanics, S!At, S!Leave,
     S!MayEnd, S!WriteHeader
<1>4. CASE S!DoWork(h) \/ S!DoPanic(h) \/ S!StartCall(h) \/ S!CallSucceeds(h)
           \/ \E code_1 \in S!HeaderCodes : S!DoRespond(h, code_1)
  BY <1>4 DEF S!DoWork, S!DoPanic, S!StartCall, S!CallSucceeds, S!DoRespond, S!At,
     S!MayEnd, S!Proceed, S!WriteHeader, S!request
<1>5. CASE \E id \in Ids : S!Lookup(h, id) \/ S!ReleaseLock(h, id)
  BY <1>5 DEF S!Lookup, S!ReleaseLock, S!Proceed, S!request
<1>6. CASE S!ScriptPanics(h) \/ \E id \in Ids : S!FatalUnlock(h, id)
  BY <1>6 DEF S!ScriptPanics, S!FatalUnlock
<1>7. QED
  BY <1>1, <1>2, <1>3, <1>4, <1>5, <1>6 DEF Serves, S!Compute, S!EndCall

LEMMA ServerKeepsIdle ==
  ASSUME ServerFacts, (\E h \in Handlers : Serves(h)) \/ S!Crash \/ S!Signal
  PROVE  /\ \A g \in Handlers : pc[g] = "idle" => pc'[g] = "idle"
         /\ \/ \E h \in Handlers : OneMoves(h)
            \/ \A g \in Handlers : pc'[g] = "idle" /\ (pc[g] # "idle" => status'[g] = "aborted")
<1>1. CASE S!Die
  BY <1>1 DEF S!Die
<1>2. CASE \E h \in Handlers : OneMoves(h)
  BY <1>2 DEF OneMoves, Undisturbed
<1>3. QED
  BY <1>1, <1>2, OneOrAll DEF S!Crash, S!Signal

(* The response of a handler that returns reaches a requester that still
   waits, which then has no handler any more. *)
LEMMA AnswerLinked ==
  ASSUME Linked, ServerFacts, ServerFacts', phase \in Phases, Answer,
         \A g \in Handlers : pc[g] = "idle" => pc'[g] = "idle"
  PROVE  Linked'
<1> DEFINE Over(x) == \E h \in Ending \ abandoned : serves[h] = x
<1>1. /\ UNCHANGED <<client, load, lost>>
      /\ abandoned' = abandoned \ Ending
      /\ \A h \in Handlers : serves'[h] = IF h \in Ending THEN None ELSE serves[h]
      /\ serves' \in [Handlers -> Requesters \cup {None}]
      /\ \A x \in Requesters : ~Over(x) => answer'[x] = answer[x]
  BY DEF Answer, Linked, TypeOK
<1>2. phase' = phase /\ step' = step /\ at' = at
  BY <1>1 DEF client
<1>3. Requesters' = Requesters /\ None \notin Requesters
  BY <1>2, SamePhaseSame, RequesterFacts
<1>4. \A y : Waits(y)' <=> Waits(y)
  BY <1>2 DEF Waits, SetupSection, TeardownSection
<1>5. \A y \in Requesters : Accepted(y)' <=> (Accepted(y) /\ ~Over(y))
  <2> SUFFICES ASSUME NEW y \in Requesters
               PROVE  Accepted(y)' <=> (Accepted(y) /\ ~Over(y))
    OBVIOUS
  <2>1. ASSUME Accepted(y)' PROVE Accepted(y) /\ ~Over(y)
    <3>1. PICK h \in Handlers : serves'[h] = y /\ h \notin abandoned'
      BY <2>1 DEF Accepted
    <3>2. h \notin Ending /\ serves[h] = y /\ h \notin abandoned
      BY <1>1, <1>3, <3>1
    <3>3. ASSUME NEW g \in Ending \ abandoned, serves[g] = y PROVE FALSE
      BY <1>3, <3>2, <3>3 DEF Linked, Ending
    <3>4. QED
      BY <3>2, <3>3 DEF Accepted
  <2>2. ASSUME Accepted(y), ~Over(y) PROVE Accepted(y)'
    BY <1>1, <2>2 DEF Accepted
  <2>3. QED
    BY <2>1, <2>2
<1>6. answer' \in [Requesters -> S!Statuses]
  <2>1. \A h \in Handlers : status'[h] \in S!Statuses
    BY DEF ServerFacts, S!TypeOK
  <2>2. \A x \in Requesters : Over(x) =>
           (CHOOSE h \in Ending \ abandoned : serves[h] = x) \in Handlers
    BY DEF Ending
  <2>3. \A x \in Requesters : answer[x] \in S!Statuses
    BY DEF Linked, TypeOK
  <2>4. QED
    BY <2>1, <2>2, <2>3 DEF Answer
<1>7. ended' \in [Codes -> Nat]
  <2>1. ASSUME NEW c \in Codes
        PROVE  Cardinality({h \in Ending : serves[h][1] # 0 /\ status'[h] = StatusOf(c)}) \in Nat
    <3>1. IsFiniteSet(Handlers)
      BY LoadedAssumption
    <3>2. {h \in Ending : serves[h][1] # 0 /\ status'[h] = StatusOf(c)} \in SUBSET Handlers
      BY DEF Ending
    <3>3. QED
      BY <3>1, <3>2, FS_Subset, FS_CardinalityType
  <2>2. \A c \in Codes : ended[c] \in Nat
    BY DEF Linked, TypeOK
  <2>3. QED
    BY <2>1, <2>2 DEF Answer
<1>8. \A h \in Handlers : serves'[h] = None <=> pc'[h] = "idle"
  BY <1>1, <1>3 DEF Linked, TypeOK, Ending
<1>9. abandoned' \subseteq {h \in Handlers : serves'[h] # None}
  BY <1>1 DEF Linked, TypeOK
<1>10. TypeOK'
  BY <1>1, <1>3, <1>4, <1>5, <1>6, <1>7, <1>8, <1>9 DEF Linked, TypeOK
<1>11. \A g, h \in Handlers \ abandoned' :
         (serves'[g] # None /\ serves'[g] = serves'[h]) => g = h
  BY <1>1 DEF Linked
<1>12. ASSUME NEW y \in Requesters, answer'[y] # "none" PROVE Waits(y)' /\ ~Accepted(y)'
  <2>1. CASE Over(y)
    <3>1. Accepted(y)
      BY <2>1 DEF Accepted, Ending
    <3>2. QED
      BY <1>4, <1>5, <2>1, <3>1 DEF Linked, TypeOK
  <2>2. CASE ~Over(y)
    BY <1>1, <1>4, <1>5, <1>12, <2>2 DEF Linked
  <2>3. QED
    BY <2>1, <2>2
<1>13. ASSUME NEW h \in Handlers, serves'[h] = TeardownSection
       PROVE  step = "teardown" /\ h \notin abandoned'
  <2>1. TeardownSection # None
    BY <1>3 DEF Requesters
  <2>2. QED
    BY <1>1, <1>13, <2>1 DEF Linked
<1>14. QED
  BY <1>2, <1>3, <1>10, <1>11, <1>12, <1>13 DEF Linked, TeardownSection

-----------------------------------------------------------------------------
(* Types, and whom the teardown meets *)

LEMMA SectionLinked ==
  ASSUME Linked, phase \in Phases, SectionStep
  PROVE  Linked'
<1>1. phase' = phase /\ at' = at /\ step' \notin {"setup", "teardown"}
      /\ step \in {"setup", "teardown"}
  BY DEF SectionStep, SetupAnswered, SetupFails, TeardownEnds, C!SetupAnswered,
     C!SetupFails, C!TeardownEnds, C!Return, C!workers
<1>2. PICK x \in {SetupSection, TeardownSection} :
        /\ Taken(x) /\ Waits(x) /\ lost' = lost
        /\ answer[x] # "none" \/ ~Accepted(x)
  <2>1. "none" \notin DOMAIN Number
    BY DEF Number
  <2>2. SetupAnswered \/ SetupFails => step = "setup"
    BY DEF SetupAnswered, SetupFails, C!SetupAnswered, C!SetupFails
  <2>3. TeardownEnds => step = "teardown"
    BY DEF TeardownEnds, C!TeardownEnds
  <2>4. QED
    BY <2>1, <2>2, <2>3, WaitsOf DEF SectionStep, SetupAnswered, SetupFails, TeardownEnds, Refused
<1>3. x \in Requesters /\ SetupSection # TeardownSection
  BY DEF Requesters, SetupSection, TeardownSection
<1>4. \A y \in Requesters \ {x} : Waits(y) => Waits(y)'
  <2>1. SetupSection' = SetupSection /\ TeardownSection' = TeardownSection
    BY DEF SetupSection, TeardownSection
  <2>2. \A y : (y # SetupSection /\ y # TeardownSection) => (Waits(y)' <=> at[y] = "inflight")
    BY <1>1, <2>1 DEF Waits
  <2>3. QED
    BY <1>2, <1>3, <2>2, WaitsOf
<1>5. \A h \in Handlers : serves[h] # TeardownSection
  <2> SUFFICES ASSUME NEW h \in Handlers, serves[h] = TeardownSection PROVE FALSE
    OBVIOUS
  <2>1. step = "teardown" /\ h \notin abandoned
    BY DEF Linked
  <2>2. x = TeardownSection
    BY <1>2, <2>1, WaitsOf
  <2>3. QED
    BY <1>2, <1>3, <2>1, <2>2 DEF Linked, Accepted
<1>6. lost' \in Nat
  BY <1>2 DEF Linked, TypeOK
<1>7. QED
  BY <1>1, <1>2, <1>3, <1>4, <1>5, <1>6, TakenLinked

LEMMA WorkerEndsLinked ==
  ASSUME Linked, ClientFacts, NEW w \in C!Workers,
         RequestFails(w) \/ LoseBody(w) \/ \E c \in Codes : Respond(w, c)
  PROVE  Linked'
<1>1. /\ phase' = phase /\ step' = step /\ Taken(w) /\ lost' \in Nat
      /\ \A v \in C!Workers \ {w} : at'[v] = at[v]
  <2>1. lost \in Nat /\ at = [v \in C!Workers |-> at[v]]
    BY DEF Linked, TypeOK, ClientFacts, C!TypeOK
  <2>2. CASE RequestFails(w)
    BY <2>1, <2>2 DEF RequestFails, C!RequestFails, C!Goto, C!control
  <2>3. CASE \E c \in Codes : Respond(w, c)
    BY <2>1, <2>3 DEF Respond, C!Respond, C!Goto, C!control
  <2>4. CASE LoseBody(w)
    BY <2>1, <2>4 DEF LoseBody, C!LoseBody, C!Goto, C!control
  <2>5. QED
    BY <2>2, <2>3, <2>4
<1>2. phase \in Phases
  BY DEF ClientFacts, C!TypeOK
<1>3. w \in Requesters /\ w # TeardownSection
  BY <1>2, RequesterFacts DEF Requesters
<1>4. ASSUME NEW y \in Requesters \ {w}, Waits(y) PROVE Waits(y)'
  BY <1>1, <1>4 DEF Waits, Requesters, SetupSection, TeardownSection
<1>5. \A h \in Handlers : serves[h] = TeardownSection => step' = "teardown"
  BY <1>1 DEF Linked
<1>6. QED
  BY <1>1, <1>2, <1>3, <1>4, <1>5, TakenLinked

LEMMA NextLinked == Sides /\ Linked /\ [Next]_vars => Linked'
<1> SUFFICES ASSUME Sides, Linked, [Next]_vars PROVE Linked'
  OBVIOUS
<1>1. ClientFacts /\ ServerFacts /\ ServerFacts'
  BY SidesFacts, NextSides DEF Sides
<1>2. phase \in Phases
  BY <1>1 DEF ClientFacts, C!TypeOK
<1>3. CASE \/ Tick \/ Drive \/ Returned \/ UNCHANGED vars
           \/ \E g \in C!Groups : ReporterEnds(g)
           \/ \E w \in C!Workers : WorkerMoves(w)
  <2>1. Calm /\ UNCHANGED <<server, between>>
    BY <1>1, <1>3, ClientAloneIsCalm
  <2>2. UNCHANGED <<pc, between>>
    BY <2>1 DEF server
  <2>3. QED
    BY <1>2, <2>1, <2>2, CalmLinked
<1>4. CASE SectionStep
  BY <1>2, <1>4, SectionLinked
<1>5. CASE \E w \in C!Workers :
             RequestFails(w) \/ LoseBody(w) \/ \E c \in Codes : Respond(w, c)
  BY <1>1, <1>5, WorkerEndsLinked
<1>6. CASE \E x \in Requesters : Accept(x) \/ Reject(x)
  BY <1>1, <1>2, <1>6, AcceptLinked, RejectLinked
<1>7. CASE (\E h \in Handlers : HandlerStep(h)) \/ ServerEnds
  <2>1. Answer /\ ((\E h \in Handlers : Serves(h)) \/ S!Crash \/ S!Signal)
    BY <1>7 DEF HandlerStep, Serves, Compute, EndCall, Cancel, EnterRegistry, AcquireLock,
       ServerEnds
  <2>2. QED
    BY <1>1, <1>2, <2>1, ServerKeepsIdle, AnswerLinked
<1>8. CASE Restart
  <2>1. Calm /\ UNCHANGED <<pc, between>>
    BY <1>8 DEF Restart, S!Restart, client, Calm, Waits, SetupSection, TeardownSection
  <2>2. QED
    BY <1>2, <2>1, CalmLinked
<1>9. QED
  BY <1>3, <1>4, <1>5, <1>6, <1>7, <1>8 DEF Next, WorkerStep

LEMMA InitLinked == Init => Linked
<1> SUFFICES ASSUME Init PROVE Linked
  OBVIOUS
<1>1. phase \in Phases
  BY DEF Init, C!Init
<1>2. None \notin Requesters
  BY <1>1, RequesterFacts
<1>3. \A h \in Handlers : serves[h] = None /\ pc[h] = "idle"
  BY DEF Init, S!Init
<1>4. \A x \in Requesters : ~Accepted(x) /\ answer[x] = "none"
  BY <1>2, <1>3 DEF Init, Accepted
<1>5. TypeOK
  BY <1>3, <1>4 DEF Init, TypeOK, S!Statuses
<1>6. QED
  BY <1>2, <1>3, <1>4, <1>5 DEF Linked, Requesters

LEMMA LinkHolds == Spec => [](Sides /\ Linked)
BY InitSides, InitLinked, NextSides, NextLinked, PTL DEF Spec

(* The two together do nothing that either component could not do alone, with
   an environment that answers, fails or sends as it likes: what is proved of
   executePhase and of handleRequests holds of them here. *)
THEOREM ComponentsKeepTheirSpecs == Spec => C!Spec /\ S!Spec
<1>1. Init => C!Init /\ S!Init
  BY DEF Init
<1>2. Sides /\ [Next]_vars => [C!Next]_(C!vars) /\ [S!Next]_(S!vars)
  BY EveryStep DEF Sides
<1>3. QED
  BY <1>1, <1>2, LinkHolds, PTL DEF Spec, C!Spec, S!Spec

(* Between client and server everything has its type: a handler works for a
   requester exactly while it works, and one that has not been given up works
   for a requester that waits, however responses, timeouts, cancellations and
   restarts interleave. *)
THEOREM TypeCorrect == Spec => []TypeOK
<1>1. Linked => TypeOK
  BY DEF Linked
<1>2. QED
  BY <1>1, LinkHolds, PTL

(* Whoever else is in the server during the teardown has been given up by its
   worker: the phase leaves no request behind that it still waits for. *)
THEOREM TeardownMeetsNobodyElse == Spec => []TeardownMeetsTheAbandoned
<1>1. Sides /\ Linked => TeardownMeetsTheAbandoned
  <2> SUFFICES ASSUME Sides, Linked, NEW t \in Handlers, NEW h \in Handlers,
                      serves[t] = TeardownSection, pc[h] # "idle", h # t,
                      h \notin abandoned
               PROVE  FALSE
    BY DEF TeardownMeetsTheAbandoned
  <2>1. step = "teardown" /\ t \notin abandoned
    BY DEF Linked
  <2>2. serves[h] \in Requesters
    BY DEF Linked, TypeOK
  <2>3. Waits(serves[h])
    BY <2>2 DEF Linked, TypeOK, Accepted
  <2>4. ClientFacts /\ phase \in Phases
    BY SidesFacts DEF ClientFacts, C!TypeOK
  <2>5. serves[h] # TeardownSection
    BY <2>1, <2>2, <2>4, RequesterFacts DEF Linked
  <2>6. serves[h] # SetupSection
    BY <2>1, <2>3, WaitsOf
  <2>7. serves[h] \in C!Workers /\ at[serves[h]] = "inflight"
    BY <2>2, <2>3, <2>5, <2>6, WaitsOf DEF Requesters
  <2>8. QED
    BY <2>1, <2>4, <2>7 DEF ClientFacts
<1>2. QED
  BY <1>1, LinkHolds, PTL
-----------------------------------------------------------------------------
(* The first answer counts *)

LEMMA StatusOfIs ==
  /\ StatusOf(200) = "200" /\ StatusOf(400) = "400"
  /\ StatusOf(500) = "500" /\ StatusOf(503) = "503"
  /\ \A c \in Codes : StatusOf(c) \in {"200", "400", "500", "503"}
  /\ \A c, d \in Codes : StatusOf(c) = StatusOf(d) => c = d
<1>1. /\ DOMAIN Number = {"200", "400", "500", "503"}
      /\ Number["200"] = 200 /\ Number["400"] = 400 /\ Number["500"] = 500
      /\ Number["503"] = 503
  BY DEF Number
<1>2. /\ StatusOf(200) = "200" /\ StatusOf(400) = "400"
      /\ StatusOf(500) = "500" /\ StatusOf(503) = "503"
  BY <1>1 DEF StatusOf
<1>3. QED
  BY <1>2 DEF Codes

LEMMA RespondIsNothingElse ==
  ASSUME NEW s
  PROVE  /\ S!Respond(s) \notin {S!Work, S!Panic} \cup S!Calls
         /\ \A i : S!Respond(s) # S!Lock(i) /\ S!Respond(s) # S!Unlock(i)
         /\ \A r : S!Respond(r) = S!Respond(s) => r = s
<1>1. \A call \in S!Calls : call[1] = "Call"
  BY DEF S!Calls, S!Call, S!HTTPRequest, S!HTTPGetRequest, S!RedisCommand,
         S!PostgresqlQuery, S!MysqlQuery, S!SnowflakeQuery, S!MongodbQuery,
         S!ElasticQuery, S!ElasticInsert, S!CreateFile, S!RandomIO, S!KafkaProduce,
         S!RabbitProduce, S!MinioObject, S!SqlQuery, S!RedisMethod
<1>2. S!Respond(s)[1] = "Respond"
  BY DEF S!Respond
<1>3. S!Respond(s) \notin S!Calls
  BY <1>1, <1>2
<1>4. QED
  BY <1>3 DEF S!Respond, S!Work, S!Panic, S!Lock, S!Unlock

(* The workload begins with the answer s, or is answered s instead. *)
Begins(s) ==
  IF S!Verified(load) THEN load # <<>> /\ load[1] = S!Respond(s) ELSE s = "400"

(* What that makes of a handler that works for a worker, of the response it
   gives, and of what the worker counts *)
HandlerAnswers(h, s) ==
  /\ S!Verified(load) /\ workload[h] = load
  /\ next[h] = 1 => pc[h] = "next" /\ status[h] = "none"
  /\ next[h] # 1 => status[h] = s

WorkersCount(s) ==
  /\ \A w \in C!Workers : at[w] \in {"refused", "counting"} => StatusOf(code[w]) = s
  /\ \A w \in C!Workers, c \in Codes : local[w][c] > 0 => StatusOf(c) = s
  /\ \A c \in Codes : merged[c] > 0 => StatusOf(c) = s

AnswersWith(s) ==
  /\ \A h \in Handlers : serves[h] \in C!Workers => HandlerAnswers(h, s)
  /\ \A w \in C!Workers : answer[w] \in {"none", "aborted", s}
  /\ WorkersCount(s)

FirstInv == \A s \in S!Codes : Begins(s) => AnswersWith(s)

LEMMA HandlerGoesOn ==
  ASSUME ServerFacts, NEW h \in Handlers, NEW s \in S!Codes, Begins(s), load \in Loads,
         load' = load, HandlerAnswers(h, s), Serves(h)
  PROVE  /\ pc'[h] # "idle" => HandlerAnswers(h, s)'
         /\ pc'[h] = "idle" => status'[h] \in {s, "aborted"}
<1> USE DEF ServerFacts, S!TypeOK, HandlerAnswers
<1>1. s # "none" /\ next[h] \in Nat \ {0}
  BY DEF S!Codes
<1>2. CASE S!Die
  BY <1>2 DEF S!Die
<1>3. CASE S!Cancel(h)
  BY <1>3 DEF S!Cancel
<1>4. CASE next[h] = 1 /\ ~S!Cancel(h) /\ ~S!Die
  <2>1. pc[h] = "next" /\ workload[h] = load /\ status[h] = "none"
    BY <1>4
  <2>2. 1 <= Len(load) /\ workload[h][next[h]] = S!Respond(s)
    <3>1. load \in Seq(S!Actions)
      BY LoadedAssumption
    <3>2. QED
      BY <1>4, <2>1, <3>1 DEF Begins
  <2>3. \A action : S!At(h, action) => action = S!Respond(s)
    BY <2>2 DEF S!At
  <2>4. S!DoRespond(h, s)
    <3>1. \A action \in {S!Work, S!Panic} \cup S!Calls : ~S!At(h, action)
      BY <2>3, RespondIsNothingElse
    <3>2. \A i : ~S!At(h, S!Lock(i)) /\ ~S!At(h, S!Unlock(i))
      BY <2>3, RespondIsNothingElse
    <3>3. \A r : S!At(h, S!Respond(r)) => r = s
      BY <2>3, RespondIsNothingElse
    <3>4. ~S!Complete(h)
      BY <1>4, <2>1, <2>2 DEF S!Complete
    <3>5. ~S!EndCall(h) /\ \A id \in Ids : ~S!AcquireLock(h, id)
      BY <2>1 DEF S!EndCall, S!MayEnd, S!CallSucceeds, S!CallFails, S!CallPanics,
         S!ScriptPanics, S!AcquireLock
    <3>6. \A id \in Ids : ~S!EnterRegistry(h, id)
      BY <3>2 DEF S!EnterRegistry
    <3>7. ~S!DoWork(h) /\ ~S!DoPanic(h) /\ ~S!StartCall(h)
      BY <3>1 DEF S!DoWork, S!DoPanic, S!StartCall
    <3>8. \A id \in Ids : ~S!Lookup(h, id) /\ ~S!ReleaseLock(h, id) /\ ~S!FatalUnlock(h, id)
      BY <2>1 DEF S!Lookup, S!ReleaseLock, S!FatalUnlock
    <3>9. \A r \in S!HeaderCodes : S!DoRespond(h, r) => r = s
      BY <3>3 DEF S!DoRespond
    <3>10. ~S!ActionPanics(h)
      BY <3>3 DEF S!ActionPanics, S!Invalid, S!Codes
    <3>11. QED
      BY <1>4, <3>4, <3>5, <3>6, <3>7, <3>8, <3>9, <3>10 DEF Serves, S!Compute
  <2>5. next'[h] = 2 /\ status'[h] = s /\ workload' = workload /\ pc'[h] = "next"
    BY <1>4, <2>1, <2>4 DEF S!DoRespond, S!Proceed, S!WriteHeader, S!request
  <2>6. QED
    BY <2>1, <2>5
<1>5. CASE next[h] # 1 /\ ~S!Cancel(h) /\ ~S!Die
  <2>1. status[h] = s /\ workload[h] = load
    BY <1>5
  <2>2. CASE S!Complete(h) \/ S!CallFails(h) \/ S!CallPanics(h) \/ S!ActionPanics(h)
    BY <1>1, <2>1, <2>2 DEF S!Complete, S!CallFails, S!CallPanics, S!ActionPanics,
       S!Leave, S!WriteHeader
  <2>3. CASE S!DoWork(h) \/ S!DoPanic(h) \/ S!CallSucceeds(h)
             \/ \E r \in S!HeaderCodes : S!DoRespond(h, r)
    <3>1. pc'[h] = "next" /\ next'[h] = next[h] + 1 /\ workload' = workload
      BY <2>3 DEF S!DoWork, S!DoPanic, S!CallSucceeds, S!DoRespond, S!Proceed, S!request
    <3>2. status'[h] = s
      BY <1>1, <2>1, <2>3 DEF S!DoWork, S!DoPanic, S!CallSucceeds, S!DoRespond, S!WriteHeader
    <3>3. QED
      BY <1>1, <2>1, <3>1, <3>2
  <2>4. CASE \E id \in Ids : S!ReleaseLock(h, id) \/ S!AcquireLock(h, id)
    BY <1>1, <2>1, <2>4 DEF S!ReleaseLock, S!AcquireLock, S!Proceed, S!request
  <2>5. CASE S!StartCall(h) \/ \E id \in Ids : S!Lookup(h, id) \/ S!EnterRegistry(h, id)
    BY <1>5, <2>1, <2>5 DEF S!StartCall, S!Lookup, S!EnterRegistry, S!request
  <2>6. QED
    BY <1>5, <2>2, <2>3, <2>4, <2>5 DEF Serves, S!Compute, S!EndCall, S!FatalUnlock,
       S!ScriptPanics
<1>6. QED
  BY <1>2, <1>3, <1>4, <1>5

(* A step of the client alone *)
LEMMA ClientAloneCountsFirst ==
  ASSUME ClientFacts, NEW s, WorkersCount(s), phase' = phase,
         \/ Tick \/ Drive \/ Returned \/ UNCHANGED vars
         \/ \E g \in C!Groups : ReporterEnds(g)
         \/ \E w \in C!Workers : WorkerMoves(w)
  PROVE  WorkersCount(s)'
<1>1. C!Workers' = C!Workers
  BY SamePhaseSame
<1> USE <1>1 DEF WorkersCount, ClientFacts, C!TypeOK
<1>2. CASE UNCHANGED <<at, code, local, merged>>
  BY <1>2
<1>3. CASE C!StartGroup
  <2>1. UNCHANGED <<code, local, merged>>
    BY <1>3 DEF C!StartGroup, C!counters
  <2>2. ASSUME NEW w \in C!Workers, at'[w] = "counting" PROVE at[w] = "counting"
    BY <1>3, <2>2 DEF C!StartGroup
  <2>3. ASSUME NEW w \in C!Workers, at'[w] = "refused" PROVE at[w] = "refused"
    BY <1>3, <2>3 DEF C!StartGroup
  <2>4. QED
    BY <2>1, <2>2, <2>3
<1>4. CASE \E w \in C!Workers : C!StopLoop(w) \/ C!Send(w) \/ C!AddError(w)
  <2>1. PICK w \in C!Workers : C!StopLoop(w) \/ C!Send(w) \/ C!AddError(w)
    BY <1>4
  <2>2. UNCHANGED <<code, local, merged>>
    BY <2>1 DEF C!StopLoop, C!Send, C!AddError, C!counters
  <2>3. \A v \in C!Workers : at'[v] \in {"refused", "counting"} => at[v] \in {"refused", "counting"}
    <3>1. CASE C!StopLoop(w) \/ C!Send(w)
      BY <3>1 DEF C!StopLoop, C!Send, C!Goto
    <3>2. CASE C!AddError(w)
      BY <3>2 DEF C!AddError, C!Goto
    <3>3. QED
      BY <2>1, <3>1, <3>2
  <2>4. QED
    BY <2>2, <2>3
<1>5. CASE \E w \in C!Workers : C!AddRequest(w)
  <2>1. PICK w \in C!Workers : C!AddRequest(w)
    BY <1>5
  <2>2. /\ at[w] = "counting" /\ StatusOf(code[w]) = s /\ UNCHANGED <<code, merged>>
        /\ at' = [at EXCEPT ![w] = "loop"]
        /\ local' = [local EXCEPT ![w][code[w]] = @ + 1]
    BY <2>1 DEF C!AddRequest, C!Goto
  <2>3. \A v \in C!Workers, c \in Codes :
          local'[v][c] = local[v][c] \/ (v = w /\ c = code[w])
    BY <2>2
  <2>4. \A v \in C!Workers, c \in Codes : local'[v][c] > 0 => StatusOf(c) = s
    BY <2>2, <2>3
  <2>5. QED
    BY <2>2, <2>4
<1>6. CASE \E w \in C!Workers : C!Merge(w)
  <2>1. PICK w \in C!Workers : C!Merge(w)
    BY <1>6
  <2>2. /\ UNCHANGED code /\ at' = [at EXCEPT ![w] = "done"]
        /\ merged' = [c \in Codes |-> merged[c] + local[w][c]]
        /\ local' = [local EXCEPT ![w] = C!Zero]
    BY <2>1 DEF C!Merge, C!Goto
  <2>3. \A v \in C!Workers, c \in Codes : local'[v][c] = local[v][c] \/ local'[v][c] = 0
    BY <2>2 DEF C!Zero
  <2>4. \A c \in Codes : local[w][c] \in Nat /\ merged[c] \in Nat
    OBVIOUS
  <2>5. \A c \in Codes : merged'[c] > 0 => merged[c] > 0 \/ local[w][c] > 0
    BY <2>2, <2>4
  <2>6. \A c \in Codes : merged'[c] > 0 => StatusOf(c) = s
    BY <2>5
  <2>7. ASSUME NEW v \in C!Workers, NEW c \in Codes, local'[v][c] > 0 PROVE StatusOf(c) = s
    <3>1. CASE local'[v][c] = local[v][c]
      <4>1. local[v][c] > 0
        BY <2>7, <3>1
      <4>2. QED
        BY <4>1
    <3>2. CASE local'[v][c] = 0
      <4>1. 0 > 0
        BY <2>7, <3>2, Zenon
      <4>2. QED
        BY <4>1
    <3>3. QED
      BY <2>3, <3>1, <3>2
  <2>8. \A v \in C!Workers : at'[v] \in {"refused", "counting"} => StatusOf(code'[v]) = s
    BY <2>2
  <2>9. QED
    BY <2>6, <2>7, <2>8
<1>7. QED
  BY <1>2, <1>3, <1>4, <1>5, <1>6 DEF Tick, Drive, Returned, vars, client, ReporterEnds,
     WorkerMoves, C!Tick, C!Drive, C!SendSetup, C!SkipSetup, C!MarshalFails, C!GroupEnds,
     C!LastGroupEnded, C!Report, C!ReporterEnds, C!workers, C!counters

LEMMA TakenFirst ==
  ASSUME NEW s, AnswersWith(s), Linked, NEW x, Taken(x), phase' = phase, load' = load,
         phase \in Phases, WorkersCount(s)'
  PROVE  AnswersWith(s)'
<1>1. C!Workers' = C!Workers
  BY SamePhaseSame
<1>2. UNCHANGED <<workload, next, pc, status, serves>> /\ answer' = [answer EXCEPT ![x] = "none"]
  BY DEF Taken, server
<1>3. \A w \in C!Workers : answer'[w] \in {answer[w], "none"}
  BY <1>2 DEF Linked, TypeOK, Requesters
<1>4. QED
  BY <1>1, <1>2, <1>3 DEF AnswersWith, HandlerAnswers

LEMMA AcceptFirst ==
  ASSUME NEW s, AnswersWith(s), Linked, ServerFacts, phase \in Phases,
         NEW x \in Requesters, Accept(x)
  PROVE  AnswersWith(s)'
<1> DEFINE h == CHOOSE g \in Idle : TRUE
<1>1. h \in Handlers /\ pc[h] = "idle" /\ next[h] = 1
  BY DEF Accept, Idle, ServerFacts
<1>2. /\ UNCHANGED <<client, load, answer>>
      /\ serves' = [serves EXCEPT ![h] = x] /\ S!Receive(h, WorkloadFor(x))
  BY DEF Accept
<1>3. /\ pc' = [pc EXCEPT ![h] = "next"] /\ next' = next
      /\ workload' = [workload EXCEPT ![h] = WorkloadFor(x)]
      /\ status' = [status EXCEPT ![h] = "none"]
  BY <1>2 DEF S!Receive, S!Begin
<1>4. UNCHANGED <<phase, at, code, local, merged>> /\ phase' = phase
  BY <1>2 DEF client
<1>5. C!Workers' = C!Workers
  BY <1>4, SamePhaseSame
<1> HIDE DEF h
<1>6. ASSUME NEW g \in Handlers, serves'[g] \in C!Workers PROVE HandlerAnswers(g, s)'
  <2>1. CASE g = h
    <3>1. x \in C!Workers
      BY <1>2, <1>6, <2>1 DEF Linked, TypeOK
    <3>2. WorkloadFor(x) = load /\ S!Verified(load)
      BY <1>2, <3>1, RequesterFacts DEF WorkloadFor, S!Receive
    <3>3. workload'[h] = load /\ next'[h] = 1 /\ pc'[h] = "next" /\ status'[h] = "none"
      BY <1>1, <1>3, <3>2 DEF ServerFacts, S!TypeOK
    <3>4. QED
      BY <1>2, <2>1, <3>2, <3>3 DEF HandlerAnswers
  <2>2. CASE g # h
    <3>1. serves[g] \in C!Workers
      BY <1>2, <1>6, <2>2 DEF Linked, TypeOK
    <3>2. Undisturbed(g)
      BY <1>3, <2>2 DEF ServerFacts, S!TypeOK, Undisturbed
    <3>3. QED
      BY <1>2, <3>1, <3>2 DEF AnswersWith, HandlerAnswers, Undisturbed
  <2>3. QED
    BY <2>1, <2>2
<1>7. QED
  BY <1>2, <1>4, <1>5, <1>6 DEF AnswersWith, WorkersCount

LEMMA RejectFirst ==
  ASSUME NEW s, Begins(s), AnswersWith(s), Linked, ServerFacts, phase \in Phases,
         NEW x \in Requesters, Reject(x)
  PROVE  AnswersWith(s)'
<1> DEFINE h == CHOOSE g \in Idle : TRUE
<1>1. h \in Handlers /\ pc[h] = "idle"
  BY DEF Reject, Idle
<1>2. /\ UNCHANGED <<client, load, serves>>
      /\ answer' = [answer EXCEPT ![x] = "400"] /\ S!RejectRequest(h, WorkloadFor(x))
  BY DEF Reject
<1>3. /\ UNCHANGED <<pc, workload, next>> /\ status' = [status EXCEPT ![h] = "400"]
      /\ ~S!Verified(WorkloadFor(x))
  BY <1>2 DEF S!RejectRequest, S!request
<1>4. UNCHANGED <<phase, at, code, local, merged>> /\ phase' = phase
  BY <1>2 DEF client
<1>5. C!Workers' = C!Workers /\ None \notin C!Workers
  BY <1>4, SamePhaseSame, RequesterFacts DEF Requesters
<1> HIDE DEF h
<1>6. \A g \in Handlers : serves[g] \in C!Workers => HandlerAnswers(g, s)'
  <2> SUFFICES ASSUME NEW g \in Handlers, serves[g] \in C!Workers
               PROVE  HandlerAnswers(g, s)'
    OBVIOUS
  <2>1. g # h
    BY <1>1, <1>5 DEF Linked, TypeOK
  <2>2. Undisturbed(g)
    BY <1>3, <2>1 DEF ServerFacts, S!TypeOK, Undisturbed
  <2>3. QED
    BY <1>2, <2>2 DEF AnswersWith, HandlerAnswers, Undisturbed
<1>7. ASSUME NEW w \in C!Workers PROVE answer'[w] \in {"none", "aborted", s}
  <2>1. CASE w = x
    <3>1. ~S!Verified(load)
      BY <1>3, <2>1, RequesterFacts DEF WorkloadFor
    <3>2. s = "400" /\ answer'[w] = "400"
      BY <1>2, <2>1, <3>1 DEF Begins, Linked, TypeOK
    <3>3. QED
      BY <3>2
  <2>2. CASE w # x
    BY <1>2, <2>2 DEF AnswersWith, Linked, TypeOK, Requesters
  <2>3. QED
    BY <2>1, <2>2
<1>8. QED
  BY <1>2, <1>4, <1>5, <1>6, <1>7 DEF AnswersWith, WorkersCount

LEMMA AnswerFirst ==
  ASSUME NEW s \in S!Codes, Begins(s), AnswersWith(s), Linked, ServerFacts, load \in Loads,
         phase \in Phases, Answer,
         (\E h \in Handlers : Serves(h)) \/ S!Crash \/ S!Signal
  PROVE  AnswersWith(s)'
<1>1. /\ UNCHANGED <<client, load>>
      /\ \A h \in Handlers : serves'[h] = IF h \in Ending THEN None ELSE serves[h]
  BY DEF Answer
<1>2. UNCHANGED <<phase, at, code, local, merged>> /\ phase' = phase /\ load' = load
  BY <1>1 DEF client
<1>3. C!Workers' = C!Workers /\ None \notin C!Workers
  BY <1>2, SamePhaseSame, RequesterFacts DEF Requesters
<1>4. ASSUME NEW g \in Handlers, serves[g] \in C!Workers
      PROVE  /\ pc'[g] # "idle" => HandlerAnswers(g, s)'
             /\ pc'[g] = "idle" => status'[g] \in {s, "aborted"}
  <2>1. HandlerAnswers(g, s) /\ pc[g] # "idle"
    BY <1>3, <1>4 DEF AnswersWith, Linked, TypeOK
  <2>2. CASE S!Die
    BY <2>1, <2>2 DEF S!Die
  <2>3. CASE Undisturbed(g)
    BY <1>2, <2>1, <2>3 DEF Undisturbed, HandlerAnswers
  <2>4. CASE Serves(g)
    BY <1>2, <2>1, <2>4, HandlerGoesOn
  <2>5. CASE \E h \in Handlers : Serves(h) /\ OneMoves(h)
    BY <2>3, <2>4, <2>5 DEF OneMoves
  <2>6. QED
    BY <2>2, <2>5, OneOrAll DEF S!Crash, S!Signal
<1>5. ASSUME NEW g \in Handlers, serves'[g] \in C!Workers PROVE HandlerAnswers(g, s)'
  <2>1. g \notin Ending /\ serves[g] \in C!Workers
    BY <1>1, <1>3, <1>5
  <2>2. pc'[g] # "idle"
    BY <1>3, <2>1 DEF Ending, Linked, TypeOK
  <2>3. QED
    BY <1>4, <2>1, <2>2
<1>6. ASSUME NEW w \in C!Workers PROVE answer'[w] \in {"none", "aborted", s}
  <2> DEFINE Over == {h \in Ending \ abandoned : serves[h] = w}
             g == CHOOSE h \in Ending \ abandoned : serves[h] = w
  <2>1. w \in Requesters
    BY DEF Requesters
  <2>2. answer'[w] = IF Over # {} THEN status'[g] ELSE answer[w]
    BY <2>1 DEF Answer
  <2>3. Over # {} => g \in Ending /\ serves[g] = w
    OBVIOUS
  <2>4. Over # {} => status'[g] \in {s, "aborted"}
    BY <1>4, <2>3 DEF Ending
  <2>5. QED
    BY <2>2, <2>4 DEF AnswersWith
<1>7. QED
  BY <1>2, <1>3, <1>5, <1>6 DEF AnswersWith, WorkersCount

LEMMA NextFirst == Sides /\ Linked /\ FirstInv /\ [Next]_vars => FirstInv'
<1> SUFFICES ASSUME Sides, Linked, FirstInv, [Next]_vars,
                    NEW s \in S!Codes, Begins(s)'
             PROVE  AnswersWith(s)'
  BY DEF FirstInv
<1>1. ClientFacts /\ ServerFacts /\ phase \in Phases /\ load \in Loads
  BY SidesFacts DEF Sides, ClientFacts, C!TypeOK
<1>2. load' = load
  BY DEF Next, vars, between, Tick, Drive, Returned, ReporterEnds, SectionStep,
     SetupAnswered, SetupFails, TeardownEnds, Taken, WorkerStep, WorkerMoves,
     RequestFails, LoseBody, Respond, Accept, Reject, HandlerStep, Compute, EndCall, EnterRegistry,
     AcquireLock, Cancel, Answer, ServerEnds, Restart
<1>3. Begins(s) /\ AnswersWith(s) /\ WorkersCount(s)
  BY <1>2 DEF FirstInv, Begins, AnswersWith
<1>4. CASE \/ Tick \/ Drive \/ Returned \/ UNCHANGED vars
           \/ \E g \in C!Groups : ReporterEnds(g)
           \/ \E w \in C!Workers : WorkerMoves(w)
  <2>1. phase' = phase /\ UNCHANGED <<server, between>>
    BY <1>1, <1>4, ClientAloneIsCalm DEF Calm
  <2>2. WorkersCount(s)'
    BY <1>1, <1>3, <1>4, <2>1, ClientAloneCountsFirst
  <2>3. C!Workers' = C!Workers
    BY <2>1, SamePhaseSame
  <2>4. QED
    BY <1>3, <2>1, <2>2, <2>3 DEF AnswersWith, HandlerAnswers, server, between
<1>5. CASE SectionStep
  <2>1. PICK x : Taken(x)
    BY <1>5 DEF SectionStep, SetupAnswered, SetupFails, TeardownEnds
  <2>2. UNCHANGED <<phase, at, code, local, merged>> /\ phase' = phase
    BY <1>5 DEF SectionStep, SetupAnswered, SetupFails, TeardownEnds, C!SetupAnswered,
       C!SetupFails, C!TeardownEnds, C!workers, C!counters
  <2>3. WorkersCount(s)'
    BY <1>3, <2>2, SamePhaseSame DEF WorkersCount
  <2>4. QED
    BY <1>1, <1>2, <1>3, <2>1, <2>2, <2>3, TakenFirst
<1>6. CASE \E w \in C!Workers : RequestFails(w) \/ LoseBody(w)
  <2>1. PICK w \in C!Workers : RequestFails(w) \/ LoseBody(w)
    BY <1>6
  <2>2. (C!RequestFails(w) \/ C!LoseBody(w)) /\ Taken(w)
    BY <2>1 DEF RequestFails, LoseBody
  <2>3. UNCHANGED <<phase, code, local, merged>> /\ phase' = phase
        /\ at' = [at EXCEPT ![w] = at'[w]] /\ at'[w] \in {"merge", "failed", "loop"}
    BY <1>1, <2>2 DEF C!RequestFails, C!LoseBody, C!Goto, C!control, C!counters,
       ClientFacts, C!TypeOK
  <2>4. WorkersCount(s)'
    BY <1>1, <1>3, <2>3, SamePhaseSame DEF WorkersCount, ClientFacts, C!TypeOK
  <2>5. QED
    BY <1>1, <1>2, <1>3, <2>2, <2>3, <2>4, TakenFirst
<1>7. CASE \E w \in C!Workers, c \in Codes : Respond(w, c)
  <2>1. PICK w \in C!Workers, c \in Codes : Respond(w, c)
    BY <1>7
  <2>2. C!Respond(w, c) /\ Taken(w) /\ answer[w] = StatusOf(c)
    BY <2>1 DEF Respond
  <2>3. StatusOf(c) = s
    BY <1>3, <2>2, StatusOfIs DEF AnswersWith
  <2>4. /\ UNCHANGED <<phase, local, merged>> /\ phase' = phase
        /\ \A v \in C!Workers \ {w} : at'[v] = at[v] /\ code'[v] = code[v]
        /\ code'[w] = c
    BY <1>1, <2>2 DEF C!Respond, C!Goto, C!control, C!counters, ClientFacts, C!TypeOK
  <2>5. WorkersCount(s)'
    <3>1. ASSUME NEW v \in C!Workers, at'[v] \in {"refused", "counting"}
          PROVE  StatusOf(code'[v]) = s
      <4>1. CASE v = w
        <5>1. code'[v] = c
          BY <2>4, <4>1
        <5>2. QED
          BY <2>3, <5>1
      <4>2. CASE v # w
        <5>1. code'[v] = code[v] /\ at[v] \in {"refused", "counting"}
          BY <2>4, <3>1, <4>2
        <5>2. StatusOf(code[v]) = s
          BY <1>3, <5>1 DEF WorkersCount
        <5>3. QED
          BY <5>1, <5>2
      <4>3. QED
        BY <4>1, <4>2
    <3>2. C!Workers' = C!Workers
      BY <2>4, SamePhaseSame
    <3>3. QED
      BY <1>3, <2>4, <3>1, <3>2 DEF WorkersCount
  <2>6. QED
    BY <1>1, <1>2, <1>3, <2>2, <2>4, <2>5, TakenFirst
<1>8. CASE \E x \in Requesters : Accept(x) \/ Reject(x)
  BY <1>1, <1>3, <1>8, AcceptFirst, RejectFirst
<1>9. CASE (\E h \in Handlers : HandlerStep(h)) \/ ServerEnds
  <2>1. Answer /\ ((\E h \in Handlers : Serves(h)) \/ S!Crash \/ S!Signal)
    BY <1>9 DEF HandlerStep, Serves, Compute, EndCall, Cancel, EnterRegistry, AcquireLock,
       ServerEnds
  <2>2. QED
    BY <1>1, <1>3, <2>1, AnswerFirst
<1>10. CASE Restart
  <2>1. UNCHANGED <<client, pc, workload, next, status, between>> /\ phase' = phase
    BY <1>10 DEF Restart, S!Restart, client
  <2>2. C!Workers' = C!Workers
    BY <2>1, SamePhaseSame
  <2>3. QED
    BY <1>3, <2>1, <2>2 DEF AnswersWith, HandlerAnswers, WorkersCount, client, between
<1>11. QED
  BY <1>4, <1>5, <1>6, <1>7, <1>8, <1>9, <1>10 DEF Next, WorkerStep

LEMMA InitFirst == Init => FirstInv
<1> SUFFICES ASSUME Init, NEW s \in S!Codes PROVE AnswersWith(s)
  BY DEF FirstInv
<1>1. phase \in Phases
  BY DEF Init, C!Init
<1>2. None \notin C!Workers
  BY <1>1, RequesterFacts DEF Requesters
<1>3. \A h \in Handlers : serves[h] \notin C!Workers
  BY <1>2 DEF Init
<1>4. \A w \in C!Workers : answer[w] = "none"
  BY DEF Init, Requesters
<1>5. \A w \in C!Workers : at[w] = "off" /\ local[w] = C!Zero
  BY DEF Init, C!Init
<1>6. merged = C!Zero /\ \A c \in Codes : C!Zero[c] = 0
  BY DEF Init, C!Init, C!Zero
<1>7. QED
  BY <1>3, <1>4, <1>5, <1>6 DEF AnswersWith, WorkersCount

(* The first WriteHeader of a workload decides what its clients count, and the
   400 that turns it down if it has no other: no other status reaches the
   statistics, however the rest of the workload ends
   and whichever handlers are given up or lost with the process. *)
THEOREM FirstAnswerIsCounted == Spec => []FirstAnswerCounts
<1>1. FirstInv => FirstAnswerCounts
  BY DEF FirstInv, Begins, AnswersWith, WorkersCount, FirstAnswerCounts
<1>2. Spec => [](Sides /\ Linked /\ FirstInv)
  BY InitSides, InitLinked, InitFirst, NextSides, NextLinked, NextFirst, PTL DEF Spec
<1>3. QED
  BY <1>1, <1>2, PTL
-----------------------------------------------------------------------------
(* What the server ended and what the client counts *)

(* The responses of status c that a worker holds: counted and not merged yet,
   taken and not counted yet, or on their way *)
Held(w, c) ==
  local[w][c]
    + (IF at[w] \in {"refused", "counting"} /\ code[w] = c THEN 1 ELSE 0)
    + (IF answer[w] = StatusOf(c) THEN 1 ELSE 0)

HeldBy(c) == [w \in C!Workers |-> Held(w, c)]

(* The requests that ended with status c and that no worker counts or will *)
Gap(c) == ended[c] - merged[c] - SumFunctionOnSet(HeldBy(c), C!Workers)

(* The handlers that work for a worker in vain *)
InVain == {h \in abandoned : serves[h] \in C!Workers}

(* Nothing is counted that the server did not end, and whatever nobody counts,
   or will when it has ended, is a request that its worker gave up. *)
Balanced ==
  /\ \A c \in Codes : Gap(c) >= 0
  /\ Gap(200) + Gap(400) + Gap(500) + Gap(503) + Cardinality(InVain) <= lost

GapsTyped ==
  /\ IsFiniteSet(C!Workers)
  /\ \A c \in Codes, w \in C!Workers : Held(w, c) \in Nat /\ HeldBy(c)[w] = Held(w, c)
  /\ \A c \in Codes : /\ SumFunctionOnSet(HeldBy(c), C!Workers) \in Nat
                       /\ ended[c] \in Nat /\ merged[c] \in Nat /\ Gap(c) \in Int
  /\ IsFiniteSet(InVain) /\ Cardinality(InVain) \in Nat /\ lost \in Nat

LEMMA GapsAreTyped == ClientFacts /\ Linked => GapsTyped
<1> SUFFICES ASSUME ClientFacts, Linked PROVE GapsTyped
  OBVIOUS
<1>1. IsFiniteSet(C!Workers)
  <2>1. CP!IsFiniteSet(CP!Workers)
    BY PhaseAssumed, CP!FiniteWorkers DEF ClientFacts, C!TypeOK
  <2>2. QED
    BY <2>1, SamePhaseInit DEF CP!IsFiniteSet, IsFiniteSet
<1>2. ASSUME NEW c \in Codes, NEW w \in C!Workers PROVE Held(w, c) \in Nat
  <2>1. local[w][c] \in Nat
    BY DEF ClientFacts, C!TypeOK
  <2>2. QED
    BY <2>1 DEF Held
<1>3. \A c \in Codes, w \in C!Workers : HeldBy(c)[w] = Held(w, c)
  BY DEF HeldBy
<1>4. \A c \in Codes : SumFunctionOnSet(HeldBy(c), C!Workers) \in Nat
  BY <1>1, <1>2, <1>3, SumInNat
<1>5. \A c \in Codes : ended[c] \in Nat /\ merged[c] \in Nat
  BY DEF ClientFacts, C!TypeOK, Linked, TypeOK
<1>6. \A c \in Codes : Gap(c) \in Int
  BY <1>4, <1>5 DEF Gap
<1>7. InVain \in SUBSET Handlers
  BY DEF InVain, Linked, TypeOK
<1>8. IsFiniteSet(InVain) /\ Cardinality(InVain) \in Nat
  BY <1>7, LoadedAssumption, FS_Subset, FS_CardinalityType
<1>9. lost \in Nat
  BY DEF Linked, TypeOK
<1>10. QED
  BY <1>1, <1>2, <1>3, <1>4, <1>5, <1>6, <1>8, <1>9 DEF GapsTyped

LEMMA GapsAreTypedNext == (ClientFacts /\ Linked => GapsTyped)'
BY GapsAreTyped, PTL

(* A step in which one worker comes to hold d responses of status c more *)
LEMMA OneHoldsMore ==
  ASSUME GapsTyped, GapsTyped', phase' = phase, NEW c \in Codes, NEW w, NEW d \in Int,
         \A v \in C!Workers : Held(v, c)' = IF v = w THEN Held(v, c) + d ELSE Held(v, c)
  PROVE  Gap(c)' = Gap(c) + (ended'[c] - ended[c]) - (merged'[c] - merged[c])
                     - (IF w \in C!Workers THEN d ELSE 0)
<1>1. C!Workers' = C!Workers
  BY SamePhaseSame
<1> DEFINE f == HeldBy(c)
           g == HeldBy(c)'
           W == C!Workers
<1>2. \A v \in W : f[v] \in Int /\ g[v] = IF v = w THEN f[v] + d ELSE f[v]
  BY <1>1 DEF GapsTyped
<1>3. IsFiniteSet(W) /\ SumFunctionOnSet(f, W) \in Int
  BY DEF GapsTyped
<1>4. Gap(c) = ended[c] - merged[c] - SumFunctionOnSet(f, W)
      /\ Gap(c)' = ended'[c] - merged'[c] - SumFunctionOnSet(g, W)
  BY <1>1 DEF Gap
<1>5. ended[c] \in Int /\ merged[c] \in Int /\ ended'[c] \in Int /\ merged'[c] \in Int
  BY DEF GapsTyped
<1> HIDE DEF f, g, W
<1>6. SumFunctionOnSet(g, W) = SumFunctionOnSet(f, W) + (IF w \in W THEN d ELSE 0)
  <2>1. CASE w \in W
    <3>1. f[w] \in Int /\ g[w] = f[w] + d
      BY <1>2, <2>1
    <3>2. \A v \in W : f[v] \in Int /\ g[v] \in Int
      BY <1>2
    <3>3. \A v \in W \ {w} : g[v] = f[v]
      BY <1>2
    <3>4. SumFunctionOnSet(g, W) = SumFunctionOnSet(f, W) + g[w] - f[w]
      BY ONLY <1>3, <2>1, <3>2, <3>3, SumUpdate
    <3>5. QED
      BY <1>3, <2>1, <3>1, <3>4
  <2>2. CASE w \notin W
    <3>1. \A v \in W : f[v] \in Int /\ g[v] = f[v]
      BY <1>2, <2>2
    <3>2. SumFunctionOnSet(g, W) = SumFunctionOnSet(f, W)
      BY ONLY <1>3, <3>1, SumSame
    <3>3. QED
      BY <1>3, <2>2, <3>2
  <2>3. QED
    BY <2>1, <2>2
<1>7. QED
  BY <1>3, <1>4, <1>5, <1>6 DEF W

LEMMA AllHoldTheSame ==
  ASSUME GapsTyped, GapsTyped', phase' = phase, NEW c \in Codes,
         \A v \in C!Workers : Held(v, c)' = Held(v, c),
         ended'[c] = ended[c], merged'[c] = merged[c]
  PROVE  Gap(c)' = Gap(c)
<1>1. \A v \in C!Workers : Held(v, c)' = IF v = 0 THEN Held(v, c) + 0 ELSE Held(v, c)
  BY DEF GapsTyped
<1>2. 0 \in Int
  OBVIOUS
<1>3. Gap(c)' = Gap(c) + (ended'[c] - ended[c]) - (merged'[c] - merged[c])
                  - (IF 0 \in C!Workers THEN 0 ELSE 0)
  BY <1>1, <1>2, OneHoldsMore
<1>4. Gap(c) \in Int /\ ended[c] \in Int /\ merged[c] \in Int
  BY DEF GapsTyped
<1>5. QED
  BY <1>3, <1>4

LEMMA BalanceKept ==
  ASSUME GapsTyped, GapsTyped', Balanced, \A c \in Codes : Gap(c)' = Gap(c),
         Cardinality(InVain') + lost <= Cardinality(InVain) + lost'
  PROVE  Balanced'
<1>1. {200, 400, 500, 503} = Codes
  BY DEF Codes
<1>2. Gap(200) \in Int /\ Gap(400) \in Int /\ Gap(500) \in Int /\ Gap(503) \in Int
      /\ Gap(200)' = Gap(200) /\ Gap(400)' = Gap(400) /\ Gap(500)' = Gap(500) /\ Gap(503)' = Gap(503)
  BY <1>1 DEF GapsTyped
<1>3. Cardinality(InVain) \in Nat /\ Cardinality(InVain') \in Nat
      /\ lost \in Nat /\ lost' \in Nat
  BY DEF GapsTyped
<1>4. Gap(200)' + Gap(400)' + Gap(500)' + Gap(503)' + Cardinality(InVain') <= lost'
  BY <1>2, <1>3 DEF Balanced
<1>5. \A c \in Codes : Gap(c)' >= 0
  BY DEF Balanced
<1>6. QED
  BY <1>4, <1>5 DEF Balanced

LEMMA BalanceStays ==
  ASSUME GapsTyped, GapsTyped', Balanced, \A c \in Codes : Gap(c)' = Gap(c),
         Cardinality(InVain') <= Cardinality(InVain), lost' = lost
  PROVE  Balanced'
<1>1. Cardinality(InVain) \in Nat /\ Cardinality(InVain') \in Nat /\ lost \in Nat
  BY DEF GapsTyped
<1>2. Cardinality(InVain') + lost <= Cardinality(InVain) + lost'
  BY <1>1
<1>3. QED
  BY <1>2, BalanceKept

(* One request more is missing, and with it one handler works in vain less,
   or one request more is lost. *)
LEMMA OneMissing ==
  ASSUME GapsTyped, GapsTyped', Balanced, NEW d \in Codes,
         \A c \in Codes : Gap(c)' = IF c = d THEN Gap(c) + 1 ELSE Gap(c),
         Cardinality(InVain') + 1 + lost <= Cardinality(InVain) + lost'
  PROVE  Balanced'
<1>1. {200, 400, 500, 503} = Codes
  BY DEF Codes
<1>2. Gap(200) \in Int /\ Gap(400) \in Int /\ Gap(500) \in Int /\ Gap(503) \in Int
  BY <1>1 DEF GapsTyped
<1>3. Gap(200)' = (IF 200 = d THEN Gap(200) + 1 ELSE Gap(200))
      /\ Gap(400)' = (IF 400 = d THEN Gap(400) + 1 ELSE Gap(400))
      /\ Gap(500)' = (IF 500 = d THEN Gap(500) + 1 ELSE Gap(500))
      /\ Gap(503)' = (IF 503 = d THEN Gap(503) + 1 ELSE Gap(503))
  BY <1>1
<1>4. Gap(200)' + Gap(400)' + Gap(500)' + Gap(503)'
        = Gap(200) + Gap(400) + Gap(500) + Gap(503) + 1
  BY <1>1, <1>2, <1>3
<1>5. Cardinality(InVain) \in Nat /\ Cardinality(InVain') \in Nat
      /\ lost \in Nat /\ lost' \in Nat
  BY DEF GapsTyped
<1>6. Gap(200)' + Gap(400)' + Gap(500)' + Gap(503)' + Cardinality(InVain') <= lost'
  BY <1>2, <1>4, <1>5 DEF Balanced
<1>7. \A c \in Codes : Gap(c)' >= 0
  BY DEF Balanced, GapsTyped
<1>8. QED
  BY <1>6, <1>7 DEF Balanced

LEMMA ClientAloneBalanced ==
  ASSUME ClientFacts, GapsTyped, GapsTyped', Balanced, phase' = phase, UNCHANGED between,
         \/ Tick \/ Drive \/ Returned \/ UNCHANGED vars
         \/ \E g \in C!Groups : ReporterEnds(g)
         \/ \E w \in C!Workers : WorkerMoves(w)
  PROVE  Balanced'
<1>1. C!Workers' = C!Workers
  BY SamePhaseSame
<1>2. UNCHANGED <<serves, abandoned, answer, ended, lost>>
  BY DEF between
<1>3. InVain' = InVain /\ Cardinality(InVain') <= Cardinality(InVain)
  BY <1>1, <1>2 DEF InVain, GapsTyped
<1>4. SUFFICES ASSUME NEW c \in Codes PROVE Gap(c)' = Gap(c)
  BY <1>2, <1>3, BalanceStays
<1>5. ended'[c] = ended[c]
  BY <1>2
<1>6. ASSUME \A v \in C!Workers : Held(v, c)' = Held(v, c), merged'[c] = merged[c]
      PROVE  Gap(c)' = Gap(c)
  BY <1>5, <1>6, AllHoldTheSame
<1>7. \A v \in C!Workers : at[v] \in {"off", "loop", "inflight", "failed", "refused",
                                      "counting", "merge", "done"}
  BY DEF ClientFacts, C!TypeOK
<1>8. CASE UNCHANGED <<code, local, merged>>
           /\ \A v \in C!Workers : at[v] \in {"refused", "counting"}
                                    <=> at'[v] \in {"refused", "counting"}
  BY <1>2, <1>6, <1>8 DEF Held
<1>9. CASE UNCHANGED <<at, code, local, merged>>
  BY <1>8, <1>9
<1>10. CASE C!StartGroup
  <2>1. UNCHANGED <<code, local, merged>>
    BY <1>10 DEF C!StartGroup, C!counters
  <2>2. ASSUME NEW v \in C!Workers
        PROVE  at[v] \in {"refused", "counting"} <=> at'[v] \in {"refused", "counting"}
    BY <1>10 DEF C!StartGroup, ClientFacts
  <2>3. QED
    BY <1>8, <2>1, <2>2
<1>11. CASE \E w \in C!Workers : C!StopLoop(w) \/ C!Send(w) \/ C!AddError(w)
  <2>1. PICK w \in C!Workers : C!StopLoop(w) \/ C!Send(w) \/ C!AddError(w)
    BY <1>11
  <2>2. UNCHANGED <<code, local, merged>>
    BY <2>1 DEF C!StopLoop, C!Send, C!AddError, C!counters
  <2>3. /\ \A v \in C!Workers \ {w} : at'[v] = at[v]
        /\ at[w] \in {"refused", "counting"} <=> at'[w] \in {"refused", "counting"}
    <3>1. at = [v \in C!Workers |-> at[v]]
      BY DEF ClientFacts, C!TypeOK
    <3>2. CASE C!StopLoop(w)
      <4>1. at[w] = "loop" /\ at' = [at EXCEPT ![w] = "merge"]
        BY <3>2 DEF C!StopLoop, C!Goto
      <4>2. QED
        BY <3>1, <4>1
    <3>3. CASE C!Send(w)
      <4>1. at[w] = "loop" /\ at' = [at EXCEPT ![w] = "inflight"]
        BY <3>3 DEF C!Send, C!Goto
      <4>2. QED
        BY <3>1, <4>1
    <3>4. CASE C!AddError(w)
      <4>1. /\ at[w] \in {"failed", "refused"}
            /\ at' = [at EXCEPT ![w] = IF at[w] = "failed" THEN "loop" ELSE "counting"]
        BY <3>4 DEF C!AddError, C!Goto
      <4>2. QED
        BY <3>1, <4>1
    <3>5. QED
      BY <2>1, <3>2, <3>3, <3>4
  <2>4. \A v \in C!Workers : at[v] \in {"refused", "counting"}
                               <=> at'[v] \in {"refused", "counting"}
    BY <2>3
  <2>5. QED
    BY <1>8, <2>2, <2>4
<1>12. CASE \E w \in C!Workers : C!AddRequest(w)
  <2>1. PICK w \in C!Workers : C!AddRequest(w)
    BY <1>12
  <2>2. /\ at[w] = "counting" /\ at'[w] = "loop" /\ UNCHANGED <<code, merged>>
        /\ \A v \in C!Workers \ {w} : at'[v] = at[v] /\ local'[v] = local[v]
        /\ local'[w] = [local[w] EXCEPT ![code[w]] = @ + 1]
    BY <2>1 DEF C!AddRequest, C!Goto, ClientFacts, C!TypeOK
  <2>3. local[w] \in [Codes -> Nat] /\ code[w] \in Codes
    BY DEF ClientFacts, C!TypeOK
  <2>4. local'[w][c] = local[w][c] + (IF code[w] = c THEN 1 ELSE 0) /\ local[w][c] \in Nat
    BY <2>2, <2>3
  <2>5. Held(w, c)' = Held(w, c)
    BY <1>2, <2>2, <2>4 DEF Held
  <2>6. \A v \in C!Workers \ {w} : Held(v, c)' = Held(v, c)
    BY <1>2, <2>2 DEF Held
  <2>7. QED
    BY <1>6, <2>2, <2>5, <2>6
<1>13. CASE \E w \in C!Workers : C!Merge(w)
  <2>1. PICK w \in C!Workers : C!Merge(w)
    BY <1>13
  <2>2. /\ at[w] = "merge" /\ at'[w] = "done" /\ UNCHANGED code
        /\ \A v \in C!Workers \ {w} : at'[v] = at[v] /\ local'[v] = local[v]
        /\ local'[w] = C!Zero /\ merged'[c] = merged[c] + local[w][c]
    BY <2>1 DEF C!Merge, C!Goto, ClientFacts, C!TypeOK
  <2>3. local'[w][c] = 0 /\ local[w][c] \in Nat /\ merged[c] \in Nat /\ -local[w][c] \in Int
    BY <2>2 DEF C!Zero, ClientFacts, C!TypeOK
  <2>4. Held(w, c)' = Held(w, c) + (-local[w][c])
    BY <1>2, <2>2, <2>3 DEF Held
  <2>5. \A v \in C!Workers \ {w} : Held(v, c)' = Held(v, c)
    BY <1>2, <2>2 DEF Held
  <2>6. \A v \in C!Workers :
          Held(v, c)' = IF v = w THEN Held(v, c) + (-local[w][c]) ELSE Held(v, c)
    BY <2>4, <2>5
  <2>7. Gap(c)' = Gap(c) + (ended'[c] - ended[c]) - (merged'[c] - merged[c])
                    - (IF w \in C!Workers THEN -local[w][c] ELSE 0)
    BY <2>3, <2>6, OneHoldsMore
  <2>8. Gap(c) \in Int /\ ended[c] \in Int
    BY DEF GapsTyped
  <2>9. QED
    BY <1>5, <2>2, <2>3, <2>7, <2>8
<1>14. QED
  BY <1>9, <1>10, <1>11, <1>12, <1>13 DEF Tick, Drive, Returned, vars, client, ReporterEnds,
     WorkerMoves, C!Tick, C!Drive, C!SendSetup, C!SkipSetup, C!MarshalFails, C!GroupEnds,
     C!LastGroupEnded, C!Report, C!ReporterEnds, C!workers, C!counters

(* A response taken is counted, and a request given up is missing or still
   at work. *)
LEMMA SectionBalanced ==
  ASSUME ClientFacts, Linked, GapsTyped, GapsTyped', Balanced, SectionStep
  PROVE  Balanced'
<1>1. PICK x \in {SetupSection, TeardownSection} : Taken(x)
  BY DEF SectionStep, SetupAnswered, SetupFails, TeardownEnds
<1>2. UNCHANGED <<phase, at, code, local, merged, lost>> /\ phase' = phase
  BY DEF SectionStep, SetupAnswered, SetupFails, TeardownEnds, C!SetupAnswered,
     C!SetupFails, C!TeardownEnds, C!workers, C!counters
<1>3. x \notin C!Workers
  BY RequesterFacts DEF ClientFacts, C!TypeOK
<1>4. C!Workers' = C!Workers
  BY <1>2, SamePhaseSame
<1>5. /\ UNCHANGED <<serves, ended>> /\ answer' = [answer EXCEPT ![x] = "none"]
      /\ abandoned' = abandoned \cup {h \in Handlers : serves[h] = x}
  BY <1>1 DEF Taken
<1>6. InVain' = InVain /\ Cardinality(InVain') <= Cardinality(InVain)
  <2>1. InVain' = InVain
    BY <1>3, <1>4, <1>5 DEF InVain
  <2>2. QED
    BY <2>1 DEF GapsTyped
<1>7. \A v \in C!Workers : answer'[v] = answer[v]
  BY <1>3, <1>5 DEF Linked, TypeOK, Requesters
<1>8. \A c \in Codes, v \in C!Workers : Held(v, c)' = Held(v, c)
  BY <1>2, <1>7 DEF Held
<1>9. \A c \in Codes : Gap(c)' = Gap(c)
  BY <1>2, <1>5, <1>8, AllHoldTheSame
<1>10. QED
  BY <1>2, <1>6, <1>9, BalanceStays

LEMMA RespondBalanced ==
  ASSUME ClientFacts, Linked, GapsTyped, GapsTyped', Balanced,
         NEW w \in C!Workers, NEW d \in Codes, Respond(w, d)
  PROVE  Balanced'
<1>1. /\ answer[w] = StatusOf(d) /\ C!Respond(w, d) /\ Taken(w) /\ lost' = lost
  BY DEF Respond
<1>2. /\ UNCHANGED <<phase, local, merged>> /\ phase' = phase
      /\ at[w] = "inflight" /\ at'[w] \in {"refused", "counting"} /\ code'[w] = d
      /\ \A v \in C!Workers \ {w} : at'[v] = at[v] /\ code'[v] = code[v]
  BY <1>1 DEF C!Respond, C!Goto, C!control, C!counters, ClientFacts, C!TypeOK
<1>3. C!Workers' = C!Workers /\ w \in Requesters
  BY <1>2, SamePhaseSame DEF Requesters
<1>4. /\ UNCHANGED <<serves, ended>>
      /\ answer'[w] = "none" /\ \A v \in C!Workers \ {w} : answer'[v] = answer[v]
      /\ abandoned' = abandoned \cup {h \in Handlers : serves[h] = w}
  BY <1>1, <1>3 DEF Taken, Linked, TypeOK, Requesters
<1>5. abandoned' = abandoned
  BY <1>1, <1>3, <1>4, StatusOfIs DEF Linked, Accepted
<1>6. InVain' = InVain /\ Cardinality(InVain') <= Cardinality(InVain)
  <2>1. InVain' = InVain
    BY <1>3, <1>4, <1>5 DEF InVain
  <2>2. QED
    BY <2>1 DEF GapsTyped
<1>7. ASSUME NEW c \in Codes PROVE Gap(c)' = Gap(c)
  <2>1. answer[w] = StatusOf(c) <=> c = d
    BY <1>1, StatusOfIs
  <2>2. answer'[w] # StatusOf(c)
    BY <1>4, StatusOfIs
  <2>3. local[w][c] \in Nat /\ local'[w][c] = local[w][c]
    BY <1>2 DEF ClientFacts, C!TypeOK
  <2>4. Held(w, c)' = Held(w, c)
    BY <1>2, <2>1, <2>2, <2>3 DEF Held
  <2>5. \A v \in C!Workers \ {w} : Held(v, c)' = Held(v, c)
    BY <1>2, <1>4 DEF Held
  <2>6. QED
    BY <1>2, <1>4, <2>4, <2>5, AllHoldTheSame
<1>8. QED
  BY <1>1, <1>6, <1>7, BalanceStays

LEMMA RequestFailsBalanced ==
  ASSUME ClientFacts, Linked, GapsTyped, GapsTyped', Balanced,
         NEW w \in C!Workers, RequestFails(w) \/ LoseBody(w)
  PROVE  Balanced'
<1>1. /\ C!RequestFails(w) \/ C!LoseBody(w)
      /\ Taken(w) /\ lost' = lost + 1 /\ lost \in Nat
  BY DEF RequestFails, LoseBody, GapsTyped
<1>2. /\ UNCHANGED <<phase, code, local, merged>> /\ phase' = phase
      /\ at[w] = "inflight" /\ at'[w] \in {"merge", "failed", "loop"}
      /\ \A v \in C!Workers \ {w} : at'[v] = at[v]
  BY <1>1 DEF C!RequestFails, C!LoseBody, C!Goto, C!control, C!counters, ClientFacts, C!TypeOK
<1>3. C!Workers' = C!Workers /\ w \in Requesters
  BY <1>2, SamePhaseSame DEF Requesters
<1>4. /\ UNCHANGED <<serves, ended>>
      /\ answer'[w] = "none" /\ \A v \in C!Workers \ {w} : answer'[v] = answer[v]
      /\ abandoned' = abandoned \cup {h \in Handlers : serves[h] = w}
  BY <1>1, <1>3 DEF Taken, Linked, TypeOK, Requesters
<1>5. Cardinality(InVain) \in Nat /\ IsFiniteSet(InVain)
  BY DEF GapsTyped
<1>6. ASSUME NEW c \in Codes, NEW v \in C!Workers \ {w} PROVE Held(v, c)' = Held(v, c)
  BY <1>2, <1>4 DEF Held
<1>7. ASSUME NEW c \in Codes
      PROVE  /\ local[w][c] \in Nat
             /\ Held(w, c) = local[w][c] + (IF answer[w] = StatusOf(c) THEN 1 ELSE 0)
             /\ Held(w, c)' = local[w][c]
  <2>1. local[w][c] \in Nat
    BY DEF ClientFacts, C!TypeOK
  <2>2. answer'[w] # StatusOf(c)
    BY <1>4, StatusOfIs
  <2>3. QED
    BY <1>2, <2>1, <2>2 DEF Held
<1>8. CASE \E d \in Codes : answer[w] = StatusOf(d)
  <2>1. PICK d \in Codes : answer[w] = StatusOf(d)
    BY <1>8
  <2>2. abandoned' = abandoned
    BY <1>3, <1>4, <2>1, StatusOfIs DEF Linked, Accepted
  <2>3. InVain' = InVain
    BY <1>3, <1>4, <2>2 DEF InVain
  <2>4. ASSUME NEW c \in Codes PROVE Gap(c)' = IF c = d THEN Gap(c) + 1 ELSE Gap(c)
    <3>1. CASE c = d
      <4>1. Held(w, c)' = Held(w, c) + (-1)
        BY <1>7, <2>1, <3>1
      <4>2. \A v \in C!Workers :
              Held(v, c)' = IF v = w THEN Held(v, c) + (-1) ELSE Held(v, c)
        BY <1>6, <4>1
      <4>3. -1 \in Int
        OBVIOUS
      <4>4. Gap(c)' = Gap(c) + (ended'[c] - ended[c]) - (merged'[c] - merged[c])
                        - (IF w \in C!Workers THEN -1 ELSE 0)
        BY <1>2, <4>2, <4>3, OneHoldsMore
      <4>5. Gap(c) \in Int /\ ended[c] \in Int /\ merged[c] \in Int
        BY DEF GapsTyped
      <4>6. QED
        BY <1>2, <1>4, <3>1, <4>4, <4>5
    <3>2. CASE c # d
      <4>1. answer[w] # StatusOf(c)
        BY <2>1, <3>2, StatusOfIs
      <4>2. \A v \in C!Workers : Held(v, c)' = Held(v, c)
        BY <1>6, <1>7, <4>1
      <4>3. QED
        BY <1>2, <1>4, <3>2, <4>2, AllHoldTheSame
    <3>3. QED
      BY <3>1, <3>2
  <2>5. Cardinality(InVain') + 1 + lost <= Cardinality(InVain) + lost'
    BY <1>1, <1>5, <2>3
  <2>6. QED
    BY <2>4, <2>5, OneMissing
<1>9. CASE \A d \in Codes : answer[w] # StatusOf(d)
  <2>1. \A c \in Codes, v \in C!Workers : Held(v, c)' = Held(v, c)
    BY <1>6, <1>7, <1>9
  <2>2. \A c \in Codes : Gap(c)' = Gap(c)
    BY <1>2, <1>4, <2>1, AllHoldTheSame
  <2>3. \E g : InVain' \subseteq InVain \cup {g}
    <3> DEFINE g == CHOOSE h \in Handlers \ abandoned : serves[h] = w
    <3>1. \A h \in Handlers \ abandoned : serves[h] = w => h = g
      <4>1. w # None
        BY <1>3, RequesterFacts DEF ClientFacts, C!TypeOK
      <4>2. QED
        BY <4>1 DEF Linked
    <3> HIDE DEF g
    <3>2. InVain' \subseteq InVain \cup {g}
      BY <1>3, <1>4, <3>1 DEF InVain
    <3>3. QED
      BY <3>2
  <2>4. Cardinality(InVain') <= Cardinality(InVain) + 1
    <3>1. PICK g : InVain' \subseteq InVain \cup {g}
      BY <2>3
    <3>2. IsFiniteSet(InVain \cup {g}) /\ Cardinality(InVain \cup {g}) <= Cardinality(InVain) + 1
      <4>1. IsFiniteSet(InVain \cup {g})
            /\ Cardinality(InVain \cup {g}) =
                 IF g \in InVain THEN Cardinality(InVain) ELSE Cardinality(InVain) + 1
        BY <1>5, FS_AddElement
      <4>2. QED
        BY <1>5, <4>1
    <3>3. Cardinality(InVain') <= Cardinality(InVain \cup {g})
      BY <3>1, <3>2, FS_Subset
    <3>4. Cardinality(InVain') \in Nat /\ Cardinality(InVain \cup {g}) \in Nat
      BY <3>2, FS_CardinalityType DEF GapsTyped
    <3>5. QED
      BY <1>5, <3>2, <3>3, <3>4
  <2>5. Cardinality(InVain') \in Nat
    BY DEF GapsTyped
  <2>6. Cardinality(InVain') + lost <= Cardinality(InVain) + lost'
    BY <1>1, <1>5, <2>4, <2>5
  <2>7. QED
    BY <2>2, <2>6, BalanceKept
<1>10. QED
  BY <1>8, <1>9

LEMMA AcceptBalanced ==
  ASSUME Linked, GapsTyped, GapsTyped', Balanced, NEW x \in Requesters, Accept(x)
  PROVE  Balanced'
<1> DEFINE h == CHOOSE g \in Idle : TRUE
<1>1. h \in Handlers /\ h \notin abandoned
  BY DEF Accept, Idle, Linked, TypeOK
<1>2. /\ UNCHANGED <<client, abandoned, answer, ended, lost>>
      /\ serves' = [serves EXCEPT ![h] = x]
  BY DEF Accept
<1>3. UNCHANGED <<phase, at, code, local, merged>> /\ phase' = phase
  BY <1>2 DEF client
<1> HIDE DEF h
<1>4. \A g \in abandoned : serves'[g] = serves[g]
  BY <1>1, <1>2 DEF Linked, TypeOK
<1>5. C!Workers' = C!Workers
  BY <1>3, SamePhaseSame
<1>6. InVain' = InVain /\ Cardinality(InVain') <= Cardinality(InVain)
  <2>1. abandoned' = abandoned
    BY <1>2
  <2>2. InVain' = InVain
    BY <1>4, <1>5, <2>1 DEF InVain
  <2>3. QED
    BY <2>2 DEF GapsTyped
<1>7. \A c \in Codes, v \in C!Workers : Held(v, c)' = Held(v, c)
  BY <1>2, <1>3 DEF Held
<1>8. \A c \in Codes : Gap(c)' = Gap(c)
  BY <1>2, <1>3, <1>7, AllHoldTheSame
<1>9. QED
  BY <1>2, <1>6, <1>8, BalanceStays

LEMMA RejectBalanced ==
  ASSUME ClientFacts, Linked, GapsTyped, GapsTyped', Balanced,
         NEW x \in Requesters, Reject(x)
  PROVE  Balanced'
<1>1. /\ UNCHANGED <<client, serves, abandoned, lost>> /\ answer[x] = "none"
      /\ answer' = [answer EXCEPT ![x] = "400"]
      /\ ended' = IF x \in C!Workers THEN [ended EXCEPT ![400] = @ + 1] ELSE ended
  BY DEF Reject
<1>2. UNCHANGED <<phase, at, code, local, merged>> /\ phase' = phase
  BY <1>1 DEF client
<1>3. C!Workers' = C!Workers
  BY <1>2, SamePhaseSame
<1>4. InVain' = InVain /\ Cardinality(InVain') <= Cardinality(InVain)
  <2>1. InVain' = InVain
    BY <1>1, <1>3 DEF InVain
  <2>2. QED
    BY <2>1 DEF GapsTyped
<1>5. \A v \in C!Workers : answer'[v] = IF v = x THEN "400" ELSE answer[v]
  BY <1>1 DEF Linked, TypeOK, Requesters
<1>6. ASSUME NEW c \in Codes PROVE Gap(c)' = Gap(c)
  <2>1. /\ StatusOf(c) # "none"
        /\ StatusOf(c) = "400" <=> c = 400
        /\ ended'[c] = IF c = 400 /\ x \in C!Workers THEN ended[c] + 1 ELSE ended[c]
    BY <1>1, StatusOfIs DEF Linked, TypeOK, Codes
  <2>2. \A v \in C!Workers : local[v][c] \in Nat
    BY DEF ClientFacts, C!TypeOK
  <2>3. Gap(c) \in Int /\ ended[c] \in Int /\ merged[c] \in Int
        /\ \A v \in C!Workers : Held(v, c) \in Int
    BY DEF GapsTyped
  <2>4. CASE c = 400 /\ x \in C!Workers
    <3>1. \A v \in C!Workers : Held(v, c)' = IF v = x THEN Held(v, c) + 1 ELSE Held(v, c)
      BY <1>1, <1>2, <1>5, <2>1, <2>2, <2>4 DEF Held
    <3>2. 1 \in Int
      OBVIOUS
    <3>3. Gap(c)' = Gap(c) + (ended'[c] - ended[c]) - (merged'[c] - merged[c])
                      - (IF x \in C!Workers THEN 1 ELSE 0)
      BY <1>2, <3>1, <3>2, OneHoldsMore
    <3>4. QED
      BY <1>2, <2>1, <2>3, <2>4, <3>3
  <2>5. CASE ~(c = 400 /\ x \in C!Workers)
    <3>1. \A v \in C!Workers : Held(v, c)' = Held(v, c)
      BY <1>1, <1>2, <1>5, <2>1, <2>5 DEF Held
    <3>2. QED
      BY <1>2, <2>1, <2>5, <3>1, AllHoldTheSame
  <2>6. QED
    BY <2>4, <2>5
<1>7. QED
  BY <1>1, <1>4, <1>6, BalanceStays

(* The workers' requests that end in this step with status c *)
EndingWith(c) == {h \in Ending : serves[h][1] # 0 /\ status'[h] = StatusOf(c)}

LEMMA AnswerFacts ==
  ASSUME ClientFacts, Linked, Answer
  PROVE  /\ UNCHANGED <<phase, at, code, local, merged, lost>> /\ phase' = phase
         /\ \A c \in Codes : ended'[c] = ended[c] + Cardinality(EndingWith(c))
         /\ \A h \in Ending : serves[h] \in C!Workers <=> serves[h][1] # 0
         /\ \A w \in C!Workers :
              (\A h \in Ending \ abandoned : serves[h] # w) => answer'[w] = answer[w]
         /\ \A h \in Ending \ abandoned :
              serves[h] \in C!Workers => answer[serves[h]] = "none"
                                         /\ answer'[serves[h]] = status'[h]
         /\ InVain' = InVain \ Ending
<1>1. UNCHANGED <<phase, at, code, local, merged, lost>> /\ phase' = phase
  BY DEF Answer, client
<1>2. \A c \in Codes : ended'[c] = ended[c] + Cardinality(EndingWith(c))
  BY DEF Answer, EndingWith
<1>3. /\ \A w \in C!Workers : w[1] # 0
      /\ SetupSection[1] = 0 /\ TeardownSection[1] = 0
      /\ None \notin C!Workers
  BY RequesterFacts DEF ClientFacts, C!TypeOK, Requesters
<1>4. \A h \in Ending : serves[h] \in C!Workers <=> serves[h][1] # 0
  <2> SUFFICES ASSUME NEW h \in Ending
               PROVE  serves[h] \in C!Workers <=> serves[h][1] # 0
    OBVIOUS
  <2>1. serves[h] \in C!Workers \cup {SetupSection, TeardownSection}
    BY DEF Ending, Linked, TypeOK, Requesters
  <2>2. QED
    BY <1>3, <2>1
<1>5. \A w \in C!Workers : w \in Requesters
  BY DEF Requesters
<1>6. ASSUME NEW w \in C!Workers, \A h \in Ending \ abandoned : serves[h] # w
      PROVE  answer'[w] = answer[w]
  BY <1>5, <1>6 DEF Answer
<1>7. ASSUME NEW h \in Ending \ abandoned, serves[h] \in C!Workers
      PROVE  answer[serves[h]] = "none" /\ answer'[serves[h]] = status'[h]
  <2> DEFINE g == CHOOSE f \in Ending \ abandoned : serves[f] = serves[h]
  <2>1. g \in Ending \ abandoned /\ serves[g] = serves[h]
    OBVIOUS
  <2>2. g = h
    BY <1>3, <1>7, <2>1 DEF Linked, Ending
  <2>3. answer'[serves[h]] = status'[g]
    BY <1>5, <1>7 DEF Answer
  <2>4. Accepted(serves[h])
    BY DEF Accepted, Ending
  <2>5. QED
    BY <1>5, <1>7, <2>2, <2>3, <2>4 DEF Linked
<1>8. InVain' = InVain \ Ending
  <2>1. C!Workers' = C!Workers
    BY <1>1, SamePhaseSame
  <2>2. abandoned' = abandoned \ Ending
        /\ \A h \in Handlers : h \notin Ending => serves'[h] = serves[h]
    BY DEF Answer
  <2>3. abandoned \subseteq Handlers
    BY DEF Linked, TypeOK
  <2>4. QED
    BY <2>1, <2>2, <2>3 DEF InVain
<1>9. QED
  BY <1>1, <1>2, <1>4, <1>6, <1>7, <1>8

(* Nobody ends with a status that is counted. *)
LEMMA NobodyEndsBalanced ==
  ASSUME ClientFacts, Linked, GapsTyped, GapsTyped', Balanced, Answer,
         \A c \in Codes, h \in Ending :
           serves[h] \in C!Workers => status'[h] # StatusOf(c)
  PROVE  Balanced'
<1> USE AnswerFacts
<1>1. ASSUME NEW c \in Codes PROVE Gap(c)' = Gap(c)
  <2>1. EndingWith(c) = {}
    BY DEF EndingWith
  <2>2. ended[c] \in Nat
    BY DEF GapsTyped
  <2>3. ended'[c] = ended[c] + 0
    BY <2>1, FS_EmptySet
  <2>4. ASSUME NEW v \in C!Workers
        PROVE  answer'[v] = StatusOf(c) <=> answer[v] = StatusOf(c)
    <3>1. CASE \A h \in Ending \ abandoned : serves[h] # v
      BY <3>1
    <3>2. CASE \E h \in Ending \ abandoned : serves[h] = v
      <4>1. answer[v] = "none" /\ answer'[v] # StatusOf(c)
        BY <3>2
      <4>2. StatusOf(c) # "none"
        BY StatusOfIs
      <4>3. QED
        BY <4>1, <4>2
    <3>3. QED
      BY <3>1, <3>2
  <2>5. \A v \in C!Workers : Held(v, c)' = Held(v, c)
    BY <2>4 DEF Held
  <2>6. ended'[c] = ended[c] /\ merged'[c] = merged[c]
    BY <2>2, <2>3
  <2>7. QED
    BY <2>5, <2>6, AllHoldTheSame
<1>2. Cardinality(InVain') <= Cardinality(InVain)
  BY FS_Subset DEF GapsTyped
<1>3. QED
  BY <1>1, <1>2, BalanceStays

LEMMA OneEndsBalanced ==
  ASSUME ClientFacts, Linked, GapsTyped, GapsTyped', Balanced, Answer,
         NEW h \in Ending, Ending \subseteq {h}, serves[h] \in C!Workers,
         NEW d \in Codes, status'[h] = StatusOf(d)
  PROVE  Balanced'
<1> USE AnswerFacts
<1>0. PICK w \in C!Workers : w = serves[h]
  OBVIOUS
<1>1. \A c \in Codes : /\ c = d => EndingWith(c) = {h}
                       /\ c # d => EndingWith(c) = {}
  <2>1. \A c \in Codes : status'[h] = StatusOf(c) <=> c = d
    BY StatusOfIs
  <2>2. QED
    BY <2>1 DEF EndingWith
<1>2. ASSUME NEW c \in Codes
      PROVE  ended'[c] = (IF c = d THEN ended[c] + 1 ELSE ended[c]) /\ merged'[c] = merged[c]
  <2>1. ended[c] \in Nat
    BY DEF GapsTyped
  <2>2. merged'[c] = merged[c] /\ ended'[c] = ended[c] + Cardinality(EndingWith(c))
    OBVIOUS
  <2>3. CASE c = d
    <3>1. EndingWith(c) = {h}
      BY <1>1, <2>3
    <3>2. Cardinality({h}) = 1
      BY FS_Singleton
    <3>3. QED
      BY <2>2, <2>3, <3>1, <3>2
  <2>4. CASE c # d
    <3>1. EndingWith(c) = {}
      BY <1>1, <2>4
    <3>2. Cardinality(EndingWith(c)) = 0
      BY <3>1, FS_EmptySet
    <3>3. QED
      BY <2>1, <2>2, <2>4, <3>2
  <2>5. QED
    BY <2>3, <2>4
<1>3. \A c \in Codes : Gap(c) \in Int /\ ended[c] \in Int /\ merged[c] \in Int
  BY DEF GapsTyped
<1>4. \A c \in Codes, v \in C!Workers \ {w} : Held(v, c)' = Held(v, c)
  BY <1>0 DEF Held
<1>5. CASE h \notin abandoned
  <2>1. answer[w] = "none" /\ answer'[w] = StatusOf(d)
    BY <1>0, <1>5
  <2>2. ASSUME NEW c \in Codes PROVE Gap(c)' = Gap(c)
    <3>1. answer[w] # StatusOf(c) /\ (answer'[w] = StatusOf(c) <=> c = d)
      BY <2>1, StatusOfIs
    <3>2. local[w][c] \in Nat
      BY DEF ClientFacts, C!TypeOK
    <3>3. Held(w, c)' = Held(w, c) + (IF c = d THEN 1 ELSE 0)
      BY <3>1, <3>2 DEF Held
    <3>4. CASE c = d
      <4>1. \A v \in C!Workers : Held(v, c)' = IF v = w THEN Held(v, c) + 1 ELSE Held(v, c)
        BY <1>4, <3>3, <3>4
      <4>2. 1 \in Int
        OBVIOUS
      <4>3. Gap(c)' = Gap(c) + (ended'[c] - ended[c]) - (merged'[c] - merged[c])
                        - (IF w \in C!Workers THEN 1 ELSE 0)
        BY <4>1, <4>2, OneHoldsMore
      <4>4. QED
        BY <1>2, <1>3, <3>4, <4>3
    <3>5. CASE c # d
      <4>1. Held(w, c)' = Held(w, c)
        BY <3>3, <3>5 DEF GapsTyped
      <4>2. QED
        BY <1>2, <1>4, <3>5, <4>1, AllHoldTheSame
    <3>6. QED
      BY <3>4, <3>5
  <2>3. Cardinality(InVain') <= Cardinality(InVain)
    BY FS_Subset DEF GapsTyped
  <2>4. QED
    BY <2>2, <2>3, BalanceStays
<1>6. CASE h \in abandoned
  <2>1. \A v \in C!Workers : answer'[v] = answer[v]
    BY <1>6
  <2>2. \A c \in Codes, v \in C!Workers : Held(v, c)' = Held(v, c)
    BY <2>1 DEF Held
  <2>3. ASSUME NEW c \in Codes PROVE Gap(c)' = IF c = d THEN Gap(c) + 1 ELSE Gap(c)
    <3>1. \A v \in C!Workers : Held(v, c)' = IF v = w THEN Held(v, c) + 0 ELSE Held(v, c)
      <4>1. \A v \in C!Workers : Held(v, c) \in Int
        BY DEF GapsTyped
      <4>2. QED
        BY <2>2, <4>1
    <3>2. 0 \in Int
      OBVIOUS
    <3>3. Gap(c)' = Gap(c) + (ended'[c] - ended[c]) - (merged'[c] - merged[c])
                      - (IF w \in C!Workers THEN 0 ELSE 0)
      BY <3>1, <3>2, OneHoldsMore
    <3>4. /\ Gap(c) \in Int /\ ended[c] \in Int /\ merged[c] \in Int
          /\ ended'[c] = (IF c = d THEN ended[c] + 1 ELSE ended[c]) /\ merged'[c] = merged[c]
      BY <1>2, <1>3
    <3>5. QED
      BY <3>3, <3>4
  <2>4. h \in InVain /\ InVain' = InVain \ {h}
    BY <1>6 DEF InVain
  <2>5. Cardinality(InVain) \in Nat /\ IsFiniteSet(InVain) /\ lost \in Nat
    BY DEF GapsTyped
  <2>6. Cardinality(InVain') = Cardinality(InVain) - 1
    BY <2>4, <2>5, FS_RemoveElement
  <2>7. Cardinality(InVain') + 1 + lost <= Cardinality(InVain) + lost'
    BY <2>5, <2>6
  <2>8. QED
    BY <2>3, <2>7, OneMissing
<1>7. QED
  BY <1>5, <1>6

LEMMA AnswerBalanced ==
  ASSUME ClientFacts, Linked, ServerFacts, GapsTyped, GapsTyped', Balanced, Answer,
         (\E h \in Handlers : Serves(h)) \/ S!Crash \/ S!Signal
  PROVE  Balanced'
<1>1. CASE \A h \in Ending : status'[h] = "aborted"
  <2>1. \A c \in Codes : StatusOf(c) # "aborted"
    BY StatusOfIs
  <2>2. QED
    BY <1>1, <2>1, NobodyEndsBalanced
<1>2. CASE \E h \in Handlers : OneMoves(h)
  <2>1. PICK h \in Handlers : OneMoves(h)
    BY <1>2
  <2>2. Ending \subseteq {h}
    BY <2>1 DEF OneMoves, Undisturbed, Ending
  <2>3. CASE h \in Ending /\ serves[h] \in C!Workers /\ \E d \in Codes : status'[h] = StatusOf(d)
    BY <2>2, <2>3, OneEndsBalanced
  <2>4. CASE ~(h \in Ending /\ serves[h] \in C!Workers
                /\ \E d \in Codes : status'[h] = StatusOf(d))
    BY <2>2, <2>4, NobodyEndsBalanced
  <2>5. QED
    BY <2>3, <2>4
<1>3. QED
  BY <1>1, <1>2, ServerKeepsIdle DEF Ending

LEMMA NextBalanced == Sides /\ Linked /\ Balanced /\ [Next]_vars => Balanced'
<1> SUFFICES ASSUME Sides, Linked, Balanced, [Next]_vars PROVE Balanced'
  OBVIOUS
<1>1. ClientFacts /\ ServerFacts
  BY SidesFacts DEF Sides
<1>2. GapsTyped /\ GapsTyped'
  BY <1>1, NextSides, SidesFactsNext, NextLinked, GapsAreTyped, GapsAreTypedNext
<1>3. CASE \/ Tick \/ Drive \/ Returned \/ UNCHANGED vars
           \/ \E g \in C!Groups : ReporterEnds(g)
           \/ \E w \in C!Workers : WorkerMoves(w)
  <2>1. phase' = phase /\ UNCHANGED between
    BY <1>1, <1>3, ClientAloneIsCalm DEF Calm
  <2>2. QED
    BY <1>1, <1>2, <1>3, <2>1, ClientAloneBalanced
<1>4. CASE SectionStep
  BY <1>1, <1>2, <1>4, SectionBalanced
<1>5. CASE \E w \in C!Workers : RequestFails(w) \/ LoseBody(w)
  BY <1>1, <1>2, <1>5, RequestFailsBalanced
<1>6. CASE \E w \in C!Workers, c \in Codes : Respond(w, c)
  BY <1>1, <1>2, <1>6, RespondBalanced
<1>7. CASE \E x \in Requesters : Accept(x) \/ Reject(x)
  BY <1>1, <1>2, <1>7, AcceptBalanced, RejectBalanced
<1>8. CASE (\E h \in Handlers : HandlerStep(h)) \/ ServerEnds
  <2>1. Answer /\ ((\E h \in Handlers : Serves(h)) \/ S!Crash \/ S!Signal)
    BY <1>8 DEF HandlerStep, Serves, Compute, EndCall, Cancel, EnterRegistry, AcquireLock,
       ServerEnds
  <2>2. QED
    BY <1>1, <1>2, <2>1, AnswerBalanced
<1>9. CASE Restart
  <2>1. UNCHANGED <<phase, at, code, local, merged, serves, abandoned, answer, ended, lost>>
        /\ phase' = phase
    BY <1>9 DEF Restart, client, between
  <2>2. C!Workers' = C!Workers
    BY <2>1, SamePhaseSame
  <2>3. InVain' = InVain
    BY <2>1, <2>2 DEF InVain
  <2>4. Cardinality(InVain') <= Cardinality(InVain)
    BY <1>2, <2>3 DEF GapsTyped
  <2>5. \A c \in Codes, v \in C!Workers : Held(v, c)' = Held(v, c)
    BY <2>1 DEF Held
  <2>6. \A c \in Codes : Gap(c)' = Gap(c)
    BY <1>2, <2>1, <2>5, AllHoldTheSame
  <2>7. QED
    BY <1>2, <2>1, <2>4, <2>6, BalanceStays
<1>10. QED
  BY <1>3, <1>4, <1>5, <1>6, <1>7, <1>8, <1>9 DEF Next, WorkerStep

LEMMA InitBalanced == Init => Balanced
<1> SUFFICES ASSUME Init PROVE Balanced
  OBVIOUS
<1>1. GapsTyped
  BY InitSides, InitLinked, SidesFacts, GapsAreTyped
<1>2. \A w \in C!Workers : at[w] = "off" /\ local[w] = C!Zero /\ answer[w] = "none"
  BY DEF Init, C!Init, Requesters
<1>3. ASSUME NEW c \in Codes PROVE Gap(c) = 0
  <2>1. C!Zero[c] = 0 /\ merged[c] = 0 /\ ended[c] = 0
    BY DEF Init, C!Init, C!Zero
  <2>2. \A w \in C!Workers : HeldBy(c)[w] = 0
    BY <1>2, <2>1, StatusOfIs DEF HeldBy, Held
  <2>3. SumFunctionOnSet(HeldBy(c), C!Workers) = 0
    BY <1>1, <2>2, SumOfZeros DEF GapsTyped
  <2>4. QED
    BY <2>1, <2>3 DEF Gap
<1>4. Cardinality(InVain) = 0
  <2>1. InVain = {}
    BY DEF Init, InVain
  <2>2. QED
    BY <2>1, FS_EmptySet
<1>5. Gap(200) = 0 /\ Gap(400) = 0 /\ Gap(500) = 0 /\ Gap(503) = 0
  BY <1>3 DEF Codes
<1>6. lost = 0
  BY DEF Init
<1>7. QED
  BY <1>3, <1>4, <1>5, <1>6 DEF Balanced

LEMMA SumOfCodes ==
  ASSUME NEW f, \A c \in Codes : f[c] \in Int
  PROVE  SumFunctionOnSet(f, Codes) = f[200] + f[400] + f[500] + f[503]
<1>1. /\ Codes = {200, 400, 500, 503} /\ Codes \ {200} = {400, 500, 503}
      /\ {400, 500, 503} \ {400} = {500, 503}
      /\ {500, 503} \ {500} = {503} /\ {503} \ {503} = {}
  BY DEF Codes
<1>2. /\ IsFiniteSet({503}) /\ IsFiniteSet({500, 503})
      /\ IsFiniteSet({400, 500, 503}) /\ IsFiniteSet(Codes)
  <2>1. IsFiniteSet({503})
    BY FS_Singleton
  <2>2. IsFiniteSet({503} \cup {500})
    BY <2>1, FS_AddElement
  <2>3. IsFiniteSet({503} \cup {500} \cup {400})
    BY <2>2, FS_AddElement
  <2>4. IsFiniteSet({503} \cup {500} \cup {400} \cup {200})
    BY <2>3, FS_AddElement
  <2>5. /\ {503} \cup {500} = {500, 503} /\ {503} \cup {500} \cup {400} = {400, 500, 503}
        /\ {503} \cup {500} \cup {400} \cup {200} = Codes
    BY DEF Codes
  <2>6. QED
    BY <2>1, <2>2, <2>3, <2>4, <2>5
<1>3. f[200] \in Int /\ f[400] \in Int /\ f[500] \in Int /\ f[503] \in Int
  BY DEF Codes
<1>4. SumFunctionOnSet(f, {503}) = f[503]
  <2>1. SumFunctionOnSet(f, {503}) = f[503] + SumFunctionOnSet(f, {503} \ {503})
    BY <1>2, <1>3, SumRemove
  <2>2. SumFunctionOnSet(f, {}) = 0
    BY SumEmpty
  <2>3. QED
    BY <1>1, <1>3, <2>1, <2>2
<1>5. SumFunctionOnSet(f, {500, 503}) = f[500] + f[503]
  <2> DEFINE both == {500, 503}
  <2>1. IsFiniteSet(both) /\ 500 \in both /\ \A c \in both : f[c] \in Int
    BY <1>2, <1>3
  <2>2. both \ {500} = {503}
    BY <1>1
  <2> HIDE DEF both
  <2>3. SumFunctionOnSet(f, both) = f[500] + SumFunctionOnSet(f, both \ {500})
    BY <2>1, SumRemove
  <2>4. SumFunctionOnSet(f, both) = f[500] + f[503]
    BY <1>4, <2>2, <2>3
  <2>5. QED
    BY <2>4 DEF both
<1>6. SumFunctionOnSet(f, {400, 500, 503}) = f[400] + f[500] + f[503]
  <2> DEFINE three == {400, 500, 503}
  <2>1. IsFiniteSet(three) /\ 400 \in three /\ \A c \in three : f[c] \in Int
    BY <1>2, <1>3
  <2>2. three \ {400} = {500, 503}
    BY <1>1
  <2> HIDE DEF three
  <2>3. SumFunctionOnSet(f, three) = f[400] + SumFunctionOnSet(f, three \ {400})
    BY <2>1, SumRemove
  <2>4. SumFunctionOnSet(f, three \ {400}) = f[500] + f[503]
    BY <1>5, <2>2
  <2>5. SumFunctionOnSet(f, three) = f[400] + (f[500] + f[503])
    BY <2>3, <2>4
  <2>6. f[400] + (f[500] + f[503]) = f[400] + f[500] + f[503]
    BY <1>3
  <2>7. QED
    BY <2>5, <2>6 DEF three
<1>7. SumFunctionOnSet(f, Codes) = f[200] + SumFunctionOnSet(f, Codes \ {200})
  BY <1>1, <1>2, SumRemove
<1>8. SumFunctionOnSet(f, Codes \ {200}) = f[400] + f[500] + f[503]
  <2>1. Codes \ {200} = {400, 500, 503}
    BY <1>1
  <2> DEFINE rest == Codes \ {200}
          three == {400, 500, 503}
  <2>2. rest = three
    BY <2>1
  <2>3. SumFunctionOnSet(f, three) = f[400] + f[500] + f[503]
    BY <1>6
  <2> HIDE DEF rest, three
  <2>4. SumFunctionOnSet(f, rest) = f[400] + f[500] + f[503]
    BY <2>2, <2>3
  <2>5. QED
    BY <2>4 DEF rest
<1>9. f[200] + (f[400] + f[500] + f[503]) = f[200] + f[400] + f[500] + f[503]
  BY <1>3
<1>10. QED
  <2>1. SumFunctionOnSet(f, Codes) = f[200] + (f[400] + f[500] + f[503])
    BY <1>7, <1>8
  <2>2. QED
    BY <1>9, <2>1

(* The report says what the server did: when it is given, no status is counted
   more often than the server ended a request with it, and no more requests
   are missing than workers gave up, however their timeouts cross the server's
   answers, and whatever is lost with the process. *)
THEOREM ReportTellsTheServer == Spec => []ReportMatchesServer
<1>1. Sides /\ Linked /\ Balanced => ReportMatchesServer
  <2> SUFFICES ASSUME Sides, Linked, Balanced, step \in {"teardown", "done"}
               PROVE  /\ \A c \in Codes : merged[c] <= ended[c]
                      /\ SumFunctionOnSet([c \in Codes |-> ended[c] - merged[c]], Codes) <= lost
    BY DEF ReportMatchesServer
  <2>1. ClientFacts /\ GapsTyped
    BY SidesFacts, GapsAreTyped
  <2>2. \A w \in C!Workers : at[w] \in {"off", "done"} /\ local[w] = C!Zero
    BY <2>1 DEF ClientFacts
  <2>3. \A w \in C!Workers : answer[w] = "none"
    <3>1. \A w \in C!Workers : w \in Requesters /\ w # SetupSection /\ w # TeardownSection
      BY <2>1, RequesterFacts DEF Requesters, ClientFacts, C!TypeOK
    <3>2. \A w \in C!Workers : ~Waits(w)
      BY <2>2, <3>1, WaitsOf
    <3>3. QED
      BY <3>1, <3>2 DEF Linked
  <2>4. ASSUME NEW c \in Codes PROVE Gap(c) = ended[c] - merged[c]
    <3>1. \A w \in C!Workers : HeldBy(c)[w] = 0
      BY <2>2, <2>3, StatusOfIs DEF HeldBy, Held, C!Zero
    <3>2. SumFunctionOnSet(HeldBy(c), C!Workers) = 0
      BY <2>1, <3>1, SumOfZeros DEF GapsTyped
    <3>3. ended[c] \in Nat /\ merged[c] \in Nat
      BY <2>1 DEF GapsTyped
    <3>4. QED
      BY <3>2, <3>3 DEF Gap
  <2>5. ASSUME NEW c \in Codes PROVE merged[c] <= ended[c]
    <3>1. Gap(c) >= 0
      BY DEF Balanced
    <3>2. ended[c] \in Nat /\ merged[c] \in Nat
      BY <2>1 DEF GapsTyped
    <3>3. QED
      BY <2>4, <3>1, <3>2
  <2> DEFINE f == [c \in Codes |-> ended[c] - merged[c]]
  <2>6. \A c \in Codes : f[c] = Gap(c) /\ f[c] \in Int
    BY <2>1, <2>4 DEF GapsTyped
  <2>7. /\ f[200] = Gap(200) /\ f[400] = Gap(400)
        /\ f[500] = Gap(500) /\ f[503] = Gap(503)
        /\ Gap(200) \in Int /\ Gap(400) \in Int /\ Gap(500) \in Int /\ Gap(503) \in Int
    BY <2>6 DEF Codes
  <2> HIDE DEF f
  <2>8. SumFunctionOnSet(f, Codes) = Gap(200) + Gap(400) + Gap(500) + Gap(503)
    BY <2>6, <2>7, SumOfCodes
  <2>9. Cardinality(InVain) \in Nat /\ lost \in Nat
    BY <2>1 DEF GapsTyped
  <2>10. SumFunctionOnSet(f, Codes) <= lost
    BY <2>7, <2>8, <2>9 DEF Balanced
  <2>11. QED
    BY <2>5, <2>10 DEF f
<1>2. Spec => [](Sides /\ Linked /\ Balanced)
  BY InitSides, InitLinked, InitBalanced, NextSides, NextLinked, NextBalanced, PTL DEF Spec
<1>3. QED
  BY <1>1, <1>2, PTL

-----------------------------------------------------------------------------
(* What is proved of either side alone, for the two together *)

LEMMA ClientSpec == Spec => CP!Spec
<1>1. Init => CP!Init
  BY SamePhaseInit DEF Init
<1>2. Sides /\ [Next]_vars => [CP!Next]_(CP!vars)
  BY EveryStep, SamePhaseNext DEF Sides, C!vars, CP!vars
<1>3. QED
  BY <1>1, <1>2, LinkHolds, PTL DEF Spec, CP!Spec

LEMMA ServerSpec == Spec => SP!Spec
<1>1. Init => SP!Init
  BY SameServerInit DEF Init
<1>2. Sides /\ [Next]_vars => [SP!Next]_(SP!vars)
  BY EveryStep, SameServerNext DEF Sides, S!vars, SP!vars
<1>3. QED
  BY <1>1, <1>2, LinkHolds, PTL DEF Spec, SP!Spec

LEMMA SamePhaseProperties ==
  /\ CP!GroupsInSequence => C!GroupsInSequence
  /\ CP!QuietAfterReport => C!QuietAfterReport
  /\ CP!ReportComplete => C!ReportComplete
  /\ CP!ResultTells => C!ResultTells
<1>1. C!Workers = CP!Workers /\ C!Groups = CP!Groups /\ C!NoReport = CP!NoReport
  BY SamePhaseInit DEF C!Groups, CP!Groups, C!NoReport, CP!NoReport
<1>2. /\ CP!GroupsInSequence => C!GroupsInSequence
      /\ CP!QuietAfterReport => C!QuietAfterReport
  BY <1>1 DEF C!GroupsInSequence, CP!GroupsInSequence, C!QuietAfterReport,
     CP!QuietAfterReport, C!Active, CP!Active
<1>3. CP!ReportComplete => C!ReportComplete
  BY DEF C!ReportComplete, CP!ReportComplete, C!SumFunctionOnSet,
     CP!SumFunctionOnSet, C!FoldFunctionOnSet, CP!FoldFunctionOnSet,
     C!MapThenFoldSet, CP!MapThenFoldSet
<1>4. CP!ResultTells => C!ResultTells
  BY <1>1 DEF C!ResultTells, CP!ResultTells, C!FailureLeavesNothing,
     CP!FailureLeavesNothing, C!NilMeansFullTime, CP!NilMeansFullTime,
     C!Works, CP!Works
<1>5. QED
  BY <1>2, <1>3, <1>4

(* Against a real server too the groups run one after another, the report is
   final and complete, and what executePhase returns is true: also when the
   server dies under the phase and requests are left behind in it. *)
THEOREM PhaseKeepsItsWord ==
  Spec => [](C!GroupsInSequence /\ C!QuietAfterReport /\ C!ReportComplete /\ C!ResultTells)
<1>1. CP!Spec => []CP!GroupsInSequence
  BY PhaseAssumed, CP!GroupsNeverOverlap
<1>2. CP!Spec => []CP!QuietAfterReport
  BY PhaseAssumed, CP!ReportIsFinal
<1>3. CP!Spec => []CP!ReportComplete
  BY PhaseAssumed, CP!ReportAddsUp
<1>4. CP!Spec => []CP!ResultTells
  BY PhaseAssumed, CP!ResultsTellTheTruth
<1>5. QED
  BY <1>1, <1>2, <1>3, <1>4, ClientSpec, SamePhaseProperties, PTL

LEMMA SameServerProperties ==
  /\ SP!MutualExclusion => S!MutualExclusion
  /\ SP!NoFatalUnlock => S!NoFatalUnlock
  /\ ~SP!Deadlocked => ~S!Deadlocked
  /\ SP!Orphaned = {} => S!Orphaned = {}
  /\ (\A h \in Handlers : ~SP!Stuck(h)) => \A h \in Handlers : ~S!Stuck(h)
<1>1. \A h, id : S!Holds(h, id) <=> SP!Holds(h, id)
  BY DEF S!Holds, SP!Holds, S!HeldAt, SP!HeldAt, S!Lock, SP!Lock, S!Unlock, SP!Unlock
<1>2. \A h, id : S!WaitsFor(h, id) <=> SP!WaitsFor(h, id)
  BY DEF S!WaitsFor, SP!WaitsFor, S!Lock, SP!Lock
<1>3. \A id : S!Unlock(id) = SP!Unlock(id)
  BY DEF S!Unlock, SP!Unlock
<1>4. SP!MutualExclusion => S!MutualExclusion
  BY <1>1 DEF S!MutualExclusion, SP!MutualExclusion
<1>5. SP!NoFatalUnlock => S!NoFatalUnlock
  BY <1>3 DEF S!NoFatalUnlock, SP!NoFatalUnlock
<1>6. ~SP!Deadlocked => ~S!Deadlocked
  BY <1>1, <1>2 DEF S!Deadlocked, SP!Deadlocked
<1>7. SP!Orphaned = {} => S!Orphaned = {}
  BY <1>1 DEF S!Orphaned, SP!Orphaned
<1>8. \A h : S!Stuck(h) <=> SP!Stuck(h)
  <2>1. S!Orphaned = SP!Orphaned
    BY <1>1 DEF S!Orphaned, SP!Orphaned
  <2>2. QED
    BY <1>1, <1>2, <2>1 DEF S!Stuck, SP!Stuck
<1>9. QED
  BY <1>4, <1>5, <1>6, <1>7, <1>8

(* The sections of a plan exclude each other, a worker's that was given up
   and the teardown that follows it included, and none ends the server. *)
THEOREM ServerKeepsItsWord ==
  SP!AllBracketed /\ Spec => [](S!MutualExclusion /\ S!NoFatalUnlock)
<1> SUFFICES ASSUME SP!AllBracketed
             PROVE  Spec => [](S!MutualExclusion /\ S!NoFatalUnlock)
  OBVIOUS
<1>1. SP!Spec => []SP!MutualExclusion
  BY ServerAssumed, SP!MutexExcludes
<1>2. SP!Spec => []SP!NoFatalUnlock
  BY ServerAssumed, SP!UnlockIsNeverFatal
<1>3. QED
  BY <1>1, <1>2, ServerSpec, SameServerProperties, PTL

(* With plans that lock in one order and neither call nor panic inside a
   section, the case in which PhaseEndsUnlessLockLost lets a phase hang in its
   setup or its teardown does not exist: no request that was given up takes a
   lock with it, none is ever stuck, and one of those there are can go on. *)
THEOREM NothingBlocksTheTeardown ==
  SP!AllBracketed /\ SP!LocksInOrder /\ SP!FailuresOutside /\ Spec =>
    [](S!Orphaned = {} /\ (\A h \in Handlers : ~S!Stuck(h)) /\ SP!SomebodyMoves)
<1> SUFFICES ASSUME SP!AllBracketed, SP!LocksInOrder, SP!FailuresOutside
             PROVE  Spec => [](S!Orphaned = {} /\ (\A h \in Handlers : ~S!Stuck(h))
                               /\ SP!SomebodyMoves)
  OBVIOUS
<1>1. SP!Spec => [](SP!Orphaned = {})
  BY ServerAssumed, SP!FailuresOutsideOrphanNothing
<1>2. SP!Spec => [](\A h \in Handlers : ~SP!Stuck(h))
  BY ServerAssumed, SP!OrderedRequestsNeverStick
<1>3. SP!Spec => []SP!SomebodyMoves
  BY ServerAssumed, SP!ServerNeverHalts
<1>4. QED
  BY <1>1, <1>2, <1>3, ServerSpec, SameServerProperties, PTL
=============================================================================
