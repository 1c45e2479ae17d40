--------------------------- MODULE DatabaseActions ---------------------------
(***************************************************************************)
(* The database actions that share state between the requests of a server: *)
(* MongodbQuery (pkg/actions/mongodb.go), one object that keeps the        *)
(* options and the client of whoever wrote them last in its fields, and    *)
(* PostgresqlQuery and MysqlQuery (pkg/actions/postgresql_action.go,       *)
(* mysql_action.go), which register a driver once per process.             *)
(*                                                                         *)
(* Requests are numbered in the order in which they reach their action; an *)
(* options object and a client have the number of the request that made    *)
(* them.  0 is nil.                                                        *)
(***************************************************************************)
EXTENDS Integers

CONSTANTS
  Handlers,     \* requests in progress together
  MaxRequests   \* bound on the requests considered

ASSUME ActionsAssumption == MaxRequests \in Nat

Numbers == 1..MaxRequests

VARIABLES
  clientOpts,   \* mongodb.clientOpts
  mongoClient,  \* mongodb.mongoClient
  madeWith,     \* the options each client was made with
  connected,    \* the clients that are not disconnected
  closedBy,     \* the request that disconnected each client
  once,         \* pgDbRegisterOnce
  driverName,   \* pgDriverName is set
  at,           \* where each handler is
  request,      \* the number of the request it serves
  db,           \* the client whose database it queries
  count,        \* how many requests have come
  met,          \* meetings: the requests each request was in progress with
  overtaken,    \* meetings: requests that stored their client and whose
                \* field another request wrote before they read it
  orphans,      \* meetings: requests whose query met a closed client
  told,         \* meetings: requests that got an error from openPostgres
  nilled        \* meetings: requests that got a nil database and no error

fields == <<clientOpts, mongoClient>>
clients == <<madeWith, connected, closedBy>>
driver == <<once, driverName>>
meetings == <<met, overtaken, orphans, told, nilled>>
databaseVars == <<clientOpts, mongoClient, madeWith, connected, closedBy, once,
                  driverName, at, request, db, count, met, overtaken, orphans,
                  told, nilled>>

DatabaseInit ==
  /\ clientOpts = 0 /\ mongoClient = 0
  /\ madeWith = [r \in Numbers |-> 0]
  /\ connected = {}
  /\ closedBy = [r \in Numbers |-> 0]
  /\ once = "new" /\ driverName = FALSE
  /\ at = [h \in Handlers |-> "idle"]
  /\ request = [h \in Handlers |-> 0]
  /\ db = [h \in Handlers |-> 0]
  /\ count = 0
  /\ met = [r \in Numbers |-> {}]
  /\ overtaken = {} /\ orphans = {} /\ told = {} /\ nilled = {}

InProgress == {request[h] : h \in {g \in Handlers : at[g] # "idle"}}

MoveTo(h, where) == at' = [at EXCEPT ![h] = where]

(* The workload of a request comes to one of the actions. *)
Execute(h, action) ==
  /\ at[h] = "idle"
  /\ count < MaxRequests
  /\ count' = count + 1
  /\ request' = [request EXCEPT ![h] = count']
  /\ met' = [r \in Numbers |-> IF r = count' THEN InProgress
                               ELSE IF r \in InProgress THEN met[r] \cup {count'}
                               ELSE met[r]]
  /\ MoveTo(h, action)
  /\ UNCHANGED <<fields, clients, driver, db, overtaken, orphans, told, nilled>>

(* It returns an error or nil, or panics, which net/http recovers. *)
ReturnFromAction(h) ==
  /\ MoveTo(h, "idle")
  /\ request' = [request EXCEPT ![h] = 0]
  /\ db' = [db EXCEPT ![h] = 0]
  /\ UNCHANGED count

Proceed(h, where) == MoveTo(h, where) /\ UNCHANGED <<request, count, meetings>>

-----------------------------------------------------------------------------
(* MongodbQuery *)

(* Faulty variant: the options are built for the first request only.       *)
BuildClientOptsOnce(h) ==
  /\ at[h] = "mongo"
  /\ clientOpts' = IF clientOpts = 0 THEN request[h] ELSE clientOpts
  /\ Proceed(h, "connect")
  /\ UNCHANGED <<mongoClient, clients, driver, db>>

(* mongodb.config is written as well, and read nowhere. *)
BuildClientOpts(h) ==
  /\ at[h] = "mongo"
  /\ clientOpts' = request[h]
  /\ Proceed(h, "connect")
  /\ UNCHANGED <<mongoClient, clients, driver, db>>

(* mongo.Connect reads the field: the options may be another request's. *)
Connect(h) ==
  /\ at[h] = "connect"
  /\ madeWith' = [madeWith EXCEPT ![request[h]] = clientOpts]
  /\ connected' = connected \cup {request[h]}
  /\ Proceed(h, "store")
  /\ UNCHANGED <<fields, closedBy, driver, db>>

ConnectFails(h) ==
  /\ at[h] = "connect"
  /\ ReturnFromAction(h)
  /\ UNCHANGED <<fields, clients, driver, meetings>>

(* Faulty variant: a client that is there already is used again.           *)
StoreClientOnce(h) ==
  /\ at[h] = "store"
  /\ mongoClient' = IF mongoClient = 0 THEN request[h] ELSE mongoClient
  /\ Proceed(h, "database")
  /\ UNCHANGED <<clientOpts, clients, driver, db>>

(* Whoever stored its client and has not read the field yet is overtaken. *)
StoreClient(h) ==
  /\ at[h] = "store"
  /\ mongoClient' = request[h]
  /\ overtaken' = overtaken \cup {request[g] : g \in {f \in Handlers : at[f] = "database"}}
  /\ MoveTo(h, "database")
  /\ UNCHANGED <<clientOpts, clients, driver, request, db, count, met, orphans, told, nilled>>

(* Database(dbname) of the client that is in the field by now *)
TakeDatabase(h) ==
  /\ at[h] = "database"
  /\ db' = [db EXCEPT ![h] = mongoClient]
  /\ Proceed(h, "query")
  /\ UNCHANGED <<fields, clients, driver>>

(* The queries run, or one fails and the rest is skipped: always if the
   client is closed. *)
RunCommand(h) ==
  /\ at[h] = "query"
  /\ MoveTo(h, "deferred")
  /\ orphans' = IF db[h] \in connected THEN orphans ELSE orphans \cup {request[h]}
  /\ UNCHANGED <<fields, clients, driver, request, db, count, met, overtaken, told, nilled>>

(* Faulty variant: the panic keeps Disconnect from running.                *)
SkipDisconnect(h) ==
  /\ at[h] = "deferred"
  /\ ReturnFromAction(h)
  /\ UNCHANGED <<fields, clients, driver, meetings>>

(* The deferred calls: cursor.Close on the cursor as it was when the call
   was deferred, nil, which panics; then Disconnect of the client of its
   database, whoever else is using it. *)
Disconnect(h) ==
  /\ at[h] = "deferred"
  /\ connected' = connected \ {db[h]}
  /\ closedBy' = [closedBy EXCEPT ![db[h]] = IF @ = 0 THEN request[h] ELSE @]
  /\ ReturnFromAction(h)
  /\ UNCHANGED <<fields, madeWith, driver, meetings>>

-----------------------------------------------------------------------------
(* openPostgres and openMysql *)

(* Faulty variant: a flag in the place of sync.Once, set before the driver
   is registered.                                                          *)
DoOnceFlag(h) ==
  /\ at[h] = "sql"
  /\ IF once = "new"
     THEN once' = "running" /\ Proceed(h, "register")
     ELSE UNCHANGED once /\ Proceed(h, "check")
  /\ UNCHANGED <<fields, clients, driverName, db>>

(* Once.Do: the first caller registers, the others wait until it is done. *)
DoOnce(h) ==
  /\ at[h] = "sql"
  /\ once # "running"
  /\ IF once = "new"
     THEN once' = "running" /\ Proceed(h, "register")
     ELSE UNCHANGED once /\ Proceed(h, "check")
  /\ UNCHANGED <<fields, clients, driverName, db>>

Register(h) ==
  /\ at[h] = "register"
  /\ once' = "done"
  /\ driverName' = TRUE
  /\ Proceed(h, "check")
  /\ UNCHANGED <<fields, clients, db>>

(* The error is this caller's local variable, and Do will not try again. *)
RegisterFails(h) ==
  /\ at[h] = "register"
  /\ once' = "done"
  /\ told' = told \cup {request[h]}
  /\ ReturnFromAction(h)
  /\ UNCHANGED <<fields, clients, driverName, met, overtaken, orphans, nilled>>

(* pgDriverName == "": a nil database with a nil error, whose first use
   panics *)
OpenNil(h) ==
  /\ at[h] = "check"
  /\ ~driverName
  /\ nilled' = nilled \cup {request[h]}
  /\ ReturnFromAction(h)
  /\ UNCHANGED <<fields, clients, driver, met, overtaken, orphans, told>>

(* A pool of its own, which db.Close ends; the queries run or fail. *)
Query(h) ==
  /\ at[h] = "check"
  /\ driverName
  /\ ReturnFromAction(h)
  /\ UNCHANGED <<fields, clients, driver, meetings>>

-----------------------------------------------------------------------------

Mongo(h) ==
  \/ BuildClientOpts(h) \/ Connect(h) \/ ConnectFails(h) \/ StoreClient(h)
  \/ TakeDatabase(h) \/ RunCommand(h) \/ Disconnect(h)

Sql(h) == DoOnce(h) \/ Register(h) \/ RegisterFails(h) \/ OpenNil(h) \/ Query(h)

AllServed ==
  /\ count = MaxRequests
  /\ \A h \in Handlers : at[h] = "idle"
  /\ UNCHANGED databaseVars

DatabaseNext ==
  \/ \E h \in Handlers :
       \/ \E action \in {"mongo", "sql"} : Execute(h, action)
       \/ Mongo(h) \/ Sql(h)
  \/ AllServed

DatabaseSpec == DatabaseInit /\ [][DatabaseNext]_databaseVars

-----------------------------------------------------------------------------

(* The types of the variables; a handler that queries MongoDB has a client. *)
DatabaseTypeOK ==
  /\ count \in 0..MaxRequests
  /\ clientOpts \in 0..count /\ mongoClient \in 0..count
  /\ madeWith \in [Numbers -> 0..count]
  /\ connected \subseteq 1..count
  /\ closedBy \in [Numbers -> 0..count]
  /\ once \in {"new", "running", "done"} /\ driverName \in BOOLEAN
  /\ at \in [Handlers -> {"idle", "mongo", "connect", "store", "database", "query",
                          "deferred", "sql", "register", "check"}]
  /\ request \in [Handlers -> 0..count]
  /\ \A h \in Handlers : at[h] = "idle" <=> request[h] = 0
  /\ db \in [Handlers -> 0..count]
  /\ \A h \in Handlers : /\ at[h] = "database" => mongoClient # 0
                         /\ at[h] \in {"query", "deferred"} => db[h] # 0
  /\ met \in [Numbers -> SUBSET (1..count)]
  /\ overtaken \subseteq 1..count /\ orphans \subseteq 1..count
  /\ told \subseteq 1..count /\ nilled \subseteq 1..count

(* Nothing in the fields outlives the requests that share them: a request
   queries its own client or that of a request it was in progress with, and
   every client is made with its own request's options or those of one that
   its request was in progress with.  Requests that follow each other never
   see each other's options or clients.                                    *)
FieldsAreFresh ==
  /\ \A h \in Handlers : db[h] # 0 => db[h] \in {request[h]} \cup met[request[h]]
  /\ \A c \in connected : madeWith[c] \in {c} \cup met[c]

(* A query that finds its client disconnected owes this to a request it was
   in progress with.                                                       *)
ClosedByCompany ==
  \A h \in Handlers :
    (at[h] = "deferred" /\ request[h] \in orphans) =>
      closedBy[db[h]] \in met[request[h]]

(* A client that is still connected when its request is gone was overtaken:
   another request stored its own between this one's StoreClient and its
   TakeDatabase.  Neither a failed query nor any other meeting of requests
   leaves a client behind.                                                 *)
LeaksNeedOvertaking ==
  \A c \in connected : c \notin InProgress => c \in overtaken

(* However first callers race, one request at most is told that the driver
   cannot be registered, and only after that do others get a nil database
   and no error.                                                           *)
NilAfterOneError ==
  /\ \A r, q \in told : r = q
  /\ nilled # {} => told # {}
=============================================================================
