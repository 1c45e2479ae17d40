# Verification of chaosmania

chaosmania puts services under load: a *client* reads a plan and sends
workloads over HTTP to *servers*, which execute them action by action. This
directory models the program in TLA+, checks the models with TLC on small
instances and proves some of the results with TLAPS for all of them. Paths
below are relative to the repository (`cmd/...`, `pkg/...`).

## The system

| Part | Source | State | Operations | Correct when |
|---|---|---|---|---|
| Client command | `cmd/chaosmania/client.go`, `command_client`, `loadPlan` | flags, plan, repeat table, current phase, executions | validate, settle repeats and pattern, skip / run / advance | every phase is executed exactly as often as asked, in the order of the pattern; the command ends |
| Phase patterns | `pkg/actions/pattern.go` | none but the number of phases | `NextPhase`, `IsComplete`, `ShouldAdvancePhase` | together with the loop: no phase skipped, none repeated once too often |
| Phase durations, reporter | `pkg/actions/durations.go`, `reporter.go` | runtime override, its adjusted value, cached durations | construct, duration of a phase, total | the parts add up to the announced whole; limits are kept |
| Phase execution | `client.go`, `executePhase`, `runWorker` | contexts, worker and statistics goroutines, counters | setup, start a group, send, count, merge, report, teardown | groups do not overlap; the report is final and complete; teardown follows; the phase ends |
| Workload server | `cmd/chaosmania/server.go` | requests in progress | receive, verify, execute, respond | every request ends |
| Workload interpreter | `pkg/actions/plan.go` | position in the workload | `Verify`, `Execute` | nothing runs unless all of it can; the first error ends it |
| Global mutexes | `pkg/actions/global_mutex_*_action.go` | table of named mutexes and the mutex that guards it | lock, unlock | critical sections exclude each other; locks are not lost |
| Panic, HTTP, sleep, burn, print, fibonacci, file actions | `pkg/actions/*_action.go` and others | none | execute | no harm to other requests but the one asked for |
| Memory action | `allocate_memory_action.go` | leaked memory, under a mutex | allocate | the leak stays near its limit |
| Script action | `script_action.go` | a JavaScript VM per execution | calls other actions and services | as the actions it calls; a panic in a consumer's script ends the process |
| Server process | `server.go`, `services.go`, `background_services.go` | registered services, running background services, webserver, signal | load, register, get, run, listen, stop | nothing is served with half a configuration; a signal ends it |
| Message consumers | `kafka_consumer_service.go`, `rabbitmq_consumer_service.go` | connection, session or channel, messages in hand | connect, take, handle, mark, reconnect | messages are handled as often as the acknowledgement promises; no failure stops consumption for good |
| RabbitMQ producer | `rabbitmq_producer_service.go` | connection and channel, without a lock | produce | produces do not disturb each other; it recovers from every failure |
| MinIO service | `minio_service.go` | the buckets it creates | construct, put, get | servers that start together do not keep each other from starting |
| Other services | `kafka_producer_service.go`, `redis_service.go`, `*sql_service.go` | pools | produce, query | a call ends |
| MongoDB action | `mongodb.go` | options and client, fields of one object for all requests | query | requests do not disturb each other |
| SQL actions | `postgresql_action.go`, `mysql_action.go` | a driver registered once | query | every caller is told when there is none |
| Telemetry, utilities, charts | `otlp.go`, `pkg/*.go`, `helm`, `scenarios` | - | - | - |

### How the parts interact

* The client calls the server with HTTP requests whose body is a workload; a
  worker's request has a timeout and the group's context, setup and teardown
  requests have neither.
* An HTTP action of one server calls another server in the same way, under
  the context of the request that it serves.
* Requests to one server share the action objects, the mutex table, the
  services and the process. net/http recovers a panic of a handler; a panic of
  any other goroutine ends the process and every request in it.
* Background services run in goroutines of the server process and execute
  scripts, hence actions, hence the same mutexes. The consumers of several
  servers share a Kafka consumer group or a RabbitMQ queue, and meet only there.
* Inside the client, `command_client`, the workers and one statistics
  goroutine per group share contexts, counters and two wait groups.

### What is hard

Deadlines of two nested contexts racing with responses, timeouts and merges
(`executePhase`); a lookup of a mutex that is separate from the wait for it;
failures inside critical sections, which skip the unlock; requests whose client
gave up but that still run; the end of the process at any moment; executors
that hand out complete phases and rely on the driver to skip them; integer
division and overflow in durations and counters; a rebalance, an eviction or a
crash between taking, handling, marking and committing a message; messages the
broker has forgotten when their consumer fails; a signal while the server is
still loading; fields that requests share without a lock (the RabbitMQ
producer, MongoDB); what is done once per process and failed (SQL drivers) or
once per deployment and raced (buckets); requests that go on in the server
after their workers have given up, while the client reports and tears down.
`PROJECT.json` lists every such hazard at its line with the properties that
cover it.

## The modules

| Module | Models | Extends / uses |
|---|---|---|
| `PhasePattern` | `pattern.go`: executors as operators that return the set of possible next phases | |
| `ClientDriver` | `command_client`: one action per branch of the loop | `PhasePattern`, `PhaseSchedule` |
| `PhaseSchedule` | abstract specification: what the client promises about the order and number of executions | |
| `Durations` | `durations.go` as operators, with the int64 wrap of the total | `PhasePattern` |
| `PlanTime` | the durations during a run of the client: construction, announcement, cache, time handed out | `ClientDriver`, `Durations` |
| `PhaseRun` | `executePhase` and `runWorker` with time, contexts and goroutines | |
| `WorkloadServer` | `handleRequests`, `Workload.Execute`, the mutex, memory, panic and response actions, calls, consumers' scripts, the process | |
| `LoadedServer` | composition: one phase of a client against one server | `PhaseRun`, `WorkloadServer` |
| `KafkaConsumer` | `kafka_consumer_service.go` in several servers, with the parts of sarama and of the broker that it relies on | `AtLeastOnce` |
| `AtLeastOnce` | abstract specification: what a consumer group promises | |
| `RabbitConsumer` | `rabbitmq_consumer_service.go` in several servers, with the amqp library and the broker | `AtMostOnce` |
| `AtMostOnce` | abstract specification: what automatic acknowledgement promises | |
| `RabbitProducer` | `rabbitmq_producer_service.go` of one server, with its connections | |
| `DatabaseActions` | `mongodb.go`, and the registration of the SQL drivers | |
| `ServerLifecycle` | `command_server`, both service managers, their constructors, the goroutines they start, the signal, the restart | |
| `MC*` | instances for TLC of the modules whose constants need definitions | |
| `ClientProofs` | proofs about `ClientDriver`, `PlanTime` | `PlanTime` |
| `PhaseRunProofs` | proofs about `PhaseRun` | `PhaseRun` |
| `WorkloadServerProofs` | proofs about `WorkloadServer` | `WorkloadServer` |
| `LoadedServerProofs` | proofs about `LoadedServer` | `LoadedServer`, `PhaseRunProofs`, `WorkloadServerProofs` |
| `KafkaConsumerProofs` | proofs about `KafkaConsumer` | `KafkaConsumer` |
| `SharedObjectsProofs` | proofs about the objects that requests share without a lock | `RabbitProducer`, `DatabaseActions` |
| `ServicesProofs` | proofs about loading services, and about one of them | `ServerLifecycle`, `RabbitConsumer` |
| `SumTheorems` | lemmas about sums over finite sets, for three of the above | |

Where a module is extended together with another one, its general definitions
carry a prefix (`TimedSpec`, `RabbitSpec`, `DatabaseSpec`); the place of a
consumer or a handler is `at` in the last two.

Definitions called *faulty variant* are the code with a plausible mistake in
it. No specification uses them; putting one in the place of the definition
after it makes the property violated that `PROJECT.json` names under `mutants`.

### ClientDriver and PhaseSchedule

`pc` follows `command_client`: `start` (flags and plan are validated),
`loop` (line 490), `phase` (inside `executePhase`), `advance` (line 526),
`done`. The result of `executePhase` is any of nil, `DeadlineExceeded` and an
error, as `PhaseRun` shows possible. Inputs a command can be given that make
it return an error or panic before the loop are covered by the `Defects`
constant and by plans without phases. `PhaseSchedule` knows nothing of the
loop nor of the repeat table: it states how many executions and which pattern
the flags and the plan ask for (a plan's repeat as nearly as the limits allow),
which phase is due under each pattern, that a completed
schedule has executed every phase as often as asked, and that nothing runs
after a failure. The refinement mapping turns `pc` and `outcome` into its
status (a panic is a rejection) and the repeat table into its `repeat`; the
plan and the flags are its own.

### Durations and PlanTime

Durations are counted in a time unit; `Int64` is 2^63 nanoseconds in that
unit. `PlanTime` is `ClientDriver` with the time: its steps are those of the
driver, `TimedStart` adds the construction of the durations and the
announcement, which fills the cache, `TimedStartPhase` adds up the time that the
context of an execution allows, and the others leave the time alone
(`Untimed`).

### PhaseRun

Time is `now`. A context is a deadline; that a goroutine notices that it has
passed is a separate step, so a worker can receive and count a response after
its group's context is done, as in the code. A `select` with both cases ready
takes either: `StopLoop` and `Send` are then both enabled. The additions to the
shared counters are atomic steps of their own (`AddError`, `AddRequest`), the
merge under `stats.mu` is one step. The order `wg.Wait`, context check,
`allWorkersWg.Wait`, report, teardown is that of the code.

The counters are natural numbers; the subtraction at line 342 is taken modulo
`Word`, as it is in uint64. The statistics goroutine only reads, so all that is
kept of it is how long it lives.

### WorkloadServer

A handler is one request, or the goroutine in which a consumer of a background
service runs its script for one message after another: `pc` and `next` are its
place in `Workload.Execute`. An action is abstracted to what other requests can
tell apart. Locks and unlocks, the status code, the panic and the leak are
actions of their own; `Work` touches nothing shared; everything that leaves the
process is a call, and one constant per action or service method says how it may
end (nil, an error, a panic) and what ends it at the latest (the request's
context, a limit of its own, or nothing but the other side's answer). A script
stands in its workload as the steps it performs. Two actions that `Verify`
accepts may panic in the handler's own goroutine without calling anybody
(`ActionPanics`): `HTTPResponse` with a code outside of 100 to 999, for which
`WriteHeader` panics unless a header was written before, and an allocation of a
negative size. They abort the request like a call that panics.

`Lock` is three steps, as in the code: take the table's mutex, look up (or
create) the named one and release the table, wait for it. `Unlock` holds the
table's mutex while it unlocks. `DoAllocate` is the leaking loop, which runs
under the action's mutex and compares the limit of its own request before each
addition. `Die` is the end of the process, by the panic of the Panic action's
goroutine, by a panic in a consumer's script, by the runtime on the unlock of
an unlocked mutex, or by a signal: everything is lost. Cancellation is possible
at any moment of a request and stops nothing by itself.

### LoadedServer

The variables of `PhaseRun` and `WorkloadServer` side by side, and what is
between them: whom each handler works for (`serves`), the response that is on
its way to each requester (`answer`), and which handlers work for a requester
that has given up (`abandoned`). Every step of a component is a step of the
composition, with the other component unchanged or told: a worker sends by
waiting and the server accepts (`Accept`), a handler that returns answers
(`Answer`), a worker counts the answer that came (`Respond`) or gives up
(`RequestFails`), after which its handler goes on and can be cancelled. The
server answers a request it cannot decode, or whose workload `Verify` turns down,
with a 400 (`Reject`); the client reads the body of a 400, which may be lost
(`LoseBody`), and so may that of the setup's answer (`SetupFails`).
`PhaseRun` by itself lets any response arrive at any time; here the server has
to have given it. The environment's choices that a component has and the other
one now makes (`C!Respond` with any code, `S!Receive` of any workload) are the
ones the composition restricts.

### KafkaConsumer and AtLeastOnce

One partition, whose messages are their offsets. `pc` is the place of a
service: `new` (before `NewConsumerGroup`), `loop` (the loop of `Run`), `claim`
(the select of `ConsumeClaim`), `handling` (inside the script), `release` (the
claim's handler has returned), `failed` and `stopped` (`Run` has returned).
`Start`, `Stop`, `Take`, `Handle` and `ReturnFromClaim` are the code's;
everything else is how sarama and the broker behave for the configuration the
code gives them (automatic commits, newest offset first), and marked external.
`Handle` stands for a script that ends with or without an error: the code logs
the error and marks the message either way. Whether the session's context is
done (`ended`) and whether the partition is still held (`owner`) are separate,
because a member learns of its eviction late; in between it handles and marks
messages that another member handles as well, and its commits are refused.

`AtLeastOnce` says that a message is given up only if it was handled, or missed
before the group had committed anything. The mapping takes the messages below
the committed offset as given up.

### RabbitConsumer and AtMostOnce

The consumer asks for automatic acknowledgement, so a delivery removes the
message from the queue and leaves it in the consumer's `buffer`, where a crash
or a closed channel loses it. `at` is `loop` (`Run` calling `run`), `consuming`
(the range over the deliveries) or `handling`. `Dial`, `Subscribe`, `Take`,
`Handle`, `HandleRefused` and `ReturnFromRun` are the code's. `HandleRefused` is
the branch of Datadog mode in which a message is acknowledged although the
broker has acknowledged it already, which makes the broker close the channel.
`ddHandleMessage` passes the service's context to `tracer.Inject` as the carrier
(`rabbitmq_consumer_service.go:134`); a context is none, so from the start of
the tracer on every message fails there, is lost without its script and closes
the channel, with nothing having failed outside. The tracer starts after the
background services (`server.go:226` and `236`), so a server in that mode
(`Datadog`) handles messages as any other until then (`StartTracer`, `tracing`).
Assumed is that the tracing itself is not switched off in the Datadog library,
whose idle tracer injects nothing and returns no error. Nothing else refuses a
message: the configuration that is converted to a map is two strings. Messages
that are given up in `AtMostOnce` are those that are no longer in the queue;
`received` is history, which messages a server was given.

### RabbitProducer

`getChannel` and `Close` read and write `producer.conn` and `producer.channel`
without a lock, so every read and every write is a step: `check` and `closed`
(the two halves of line 40), `forget` and `forgetChannel`, `fresh` (line 45),
`dial`, `channel`, `take`, then `declare` and `publish` of `Produce`, and
`close`, `closeConn`, `clear`, `clearChannel` of `Close`. A connection has one
channel, opened by the produce that dialled it. A nil pointer is a panic, which
ends a request but the process of a consumer. `Close` closes the connection and
leaves it in the field; the branch that clears the fields is reached only when
another produce has cleared `conn` meanwhile.
`failed`, `calm` and `disturbed` are history: how many produces failed, and how
many of the last ones failed alone and undisturbed.

### DatabaseActions

MongodbQuery is one object whose fields every request overwrites: the options
at `BuildClientOpts`, the client at `StoreClient`; `Connect` and `TakeDatabase`
read whatever is in them by then. Requests are numbered as they come, and what
they make has their number, so a property can say whose options and client a
request got; `met` records which requests were in progress together, and
`overtaken` the requests whose client was replaced in the field, by another
one's `StoreClient`, before their own `TakeDatabase`. The
deferred calls at the end of the action are in the order of the code, in which
`cursor.Close` panics on a cursor that was nil when it was deferred and
`Disconnect` runs after it. The SQL part is `sync.Once`: the first caller
registers, the others wait, and the error stays with the first.

### ServerLifecycle

`pc` follows `command_server`; `services` and `background` are the two
`LoadFromFile` calls, which look at one declaration per step. `Constructors`
says what the constructor of each type needs besides a configuration that
decodes: a server it dials (Kafka producer, MinIO), a driver (SQL), or nothing;
one that does not get it panics. The MinIO constructor looks for each bucket
and makes it if it is missing, two calls between which another server of the
deployment may make it (`OtherMakesBucket`); the second one panics, the process
ends and is started again (`Restart`). The webserver, each background service,
the goroutine that waits for the signal and the main goroutine interleave.

## The runs

| Run | Shows | Bounds | Result |
|---|---|---|---|
| `client_driver` | exact repeats, refinement of `PhaseSchedule`, each step nearer to the end, termination | 0 to 3 phases, repeats 0 to 4 with a maximum of 3, all patterns, flags inside and outside their range, every defect | holds |
| `plan_time` | budget, groups fit their phase | 0 to 3 phases of 0 to 2 groups, 1 to 3 repeats, phases of 1 to 7 units, so that nine executions exceed the maximum and some totals do not fit | holds |
| `phase_run` | groups in sequence, quiet and complete report, true result, teardown, termination | 7 phases with up to two groups and two workers, two requests per worker, deadlines up to 3, statuses 400 and 500, failures at every point | holds |
| `phase_run_average` | successful requests wrap | one worker, one failing request | violated |
| `workload_server` | exclusion, no fatal unlock, bounded leak, orphaned locks | 2 requests and a consumer at a time, 2 mutexes, workloads with locks nested and around calls, panics of all kinds, an unknown action, an invalid status code, three kinds of allocations, one of a negative size, any number of crashes and restarts | holds |
| `workload_server_live` | every request ends, unless it is stuck for good itself, behind an orphaned lock or in a circle | 2 requests at a time that lock in opposite orders, one of them with a call that may fail between, a consumer with a mutex of its own or an unlock without a lock, 3 mutexes | holds |
| `loaded_server` | whom a teardown meets, what a report counts, the first answer counts, the phase ends unless its setup or teardown is stuck | 2 workers with one request each, setup and teardown, workloads with a call in a section, an answer before a failure, an answer 400 and one that the server rejects, 3 handlers, 1 mutex, crashes and restarts | holds |
| `kafka_consumer` | at-least-once refinement, no repetition without failure, messages are handled | 2 servers, 2 messages, 2 crashes, shutdowns or evictions, 2 rebalances | holds |
| `rabbit_consumer` | at-most-once refinement, losses need failures or Datadog mode, order, the queue is consumed | 2 servers, one of them in Datadog mode, 3 messages, 3 failures | holds |
| `rabbit_producer` | panics and leaks need overlap, the price of a failure, recovery | 1 request and 1 consumer's script, 3 messages each, 1 failure outside | holds |
| `database_actions` | whose options and client a request uses, who closes and who leaks a client, who learns that the driver is missing | 3 requests at a time, 4 in all | holds |
| `server_lifecycle` | nothing runs partly loaded, lost races for buckets, a signal ends it | both files absent, broken or good; 5 service files and 3 background files with known, unknown and repeated entries; 0 to 2 names enabled; 2 buckets | holds |

The type invariants are not run, because they are proved: those of `PlanTime` (the
limits of a phase's duration) and of `LoadedServer` (who waits for whom) among
them.

Why the bounds are enough: three phases are the least for which the cycle
executor meets a complete phase before, between and after incomplete ones, and
a maximum of three repeats separates the values inside the range, at its ends
and beyond. Two groups show every overlap a pair can have, and the loop over
groups carries nothing but contexts and counters from one to the next. Two
requests per worker are enough for each kind of outcome to precede or follow
another; a worker that still has time sends at most `MaxRequests` and then
waits for its context. Two requests and a consumer at a server are a holder and
two waiters, so that a waiter can come between the lookup and the wait of
another, and one of the three can end the process by its panic. Where requests
have to end, two are a circle, or an orphan and its waiter, and the consumer is
the third that must get past them. In the
composition, three handlers are two requests that were given up and the
teardown that meets both. Two consumers are the one that loses a partition or a
message and the one that goes on with it; two Kafka messages are one that is
committed or marked and one in hand; a second failure hits the consumer that
took over from the first. Two produces that overlap reach every broken
combination of the two fields, a third one by each shows whether it heals. Three
MongoDB requests are one that is overtaken, one that overtakes and one that was
never met by the first; the fourth comes when the others are gone. Two
declarations per file suffice for a load that fails after it has registered
something. Where a safety property has a theorem, the proof covers any number
of requests, messages, failures and servers.

The violated property is a disagreement of the code with its own comment, quoted
under `findings` in `PROJECT.json`. What else the models had to take from the
code against a text, or show besides their properties:

* 5000 repeats, which `scenarios/chained-services/README.md:15` recommends, are
  500: `client.go:433` and the check in `command_client` keep the maximum.
* A runtime override is divided among all executions (`durations.go:67`), so it
  is the total, not a time that is "multiplied by repeats-per-phase"
  (`main.go:56`).
* A phase without a duration lasts as long as its longest group
  (`durations.go:76`) while its groups run one after another, so
  later groups are cut off, as those of `plans/increasing_load.yaml`.
* `ConsumeClaim` may take a message after its session has ended, where a comment
  says the loop "Should return when `session.Context()` is done"
  (`kafka_consumer_service.go:160`).
* A background service of type `kafka-producer`, which
  `docs/kafka-setup.md:34` offers, is refused.
* The announced total, an int64, wraps for eight phases of 28 days with 500
  repeats.
* `Plan.Verify` rejects a worker duration outside the limits with a message
  that says "this will be adjusted at runtime" (`pkg/actions/plan.go:64` and
  `68`), and `GlobalMutexUnlock` verifies a `workload` in its configuration that
  it never executes.
* A worker's timeout during a call inside a critical section orphans the lock,
  and a teardown that needs it waits for ever, since it has no timeout.
* In Datadog mode the RabbitMQ consumer loses every message once the tracer has
  started, and its channel with each (`rabbitmq_consumer_service.go:134`, see
  above). `LossNeedsFailure` excepts exactly these.
* A status code outside of 100 to 999 and a negative size pass `Verify` and
  panic when they are executed, inside a critical section too.
* A connection of the RabbitMQ producer that was left without a channel makes
  each produce panic until the connection is lost.
* `MongodbQuery` panics whenever it comes past `Connect`, because the cursor whose
  `Close` it defers is nil when it is deferred (`mongodb.go:203`).
* Kept as they are, without a property: `postgresql_service.go:131` exchanges
  user and database name, `lpush` of the Redis action pushes the key and
  not the values (`redis_action.go:42`), `Get_object` of the MinIO service
  finishes, after an error, a span that is nil without Datadog (`minio_service.go:81`), and `ElasticInsert` ignores the context of its
  request.

### Fairness

* `ClientDriver`: the loop's own steps and the return of a phase. The loop
  waits nowhere else; that a phase returns is what `PhaseEnds` shows.
* `PhaseRun`: time, the goroutines and `executePhase` itself. A worker's
  request ends at its own timeout at the latest (10 s by default), hence the
  fairness of worker steps. `AnsweringSpec` adds that setup and teardown
  requests end, which nothing in the code ensures: without it a phase may outlive
  its context for ever.
* `WorkloadServer`: the goroutines; strong fairness of each handler for acquiring
  a mutex, a named one or the table's, because `sync.Mutex` hands itself to a
  waiter that has starved for a millisecond; that a request is cancelled if it stays (a worker's request
  carries a timeout) and that a cancelled call ends. A call that is not
  cancelled may last for ever.
* `LoadedServer`: as in the two components, without the assumption that setup
  and teardown end: their answers are given by the server, which is why
  `PhaseEndsUnlessLockLost` needs its exception.
* `KafkaConsumer`: the library and the loop make progress, a partition without
  an owner is assigned, the broker forgets members that are gone, and a server
  that exited is started again, as its Deployment does. Nothing makes failures,
  rebalances or automatic commits happen. A service that could not reach a
  broker when it started never comes back in its process, so `MessagesHandled`
  excepts the state in which that happened to all of them.
* `RabbitConsumer`: the broker delivers to somebody; `Run` never gives up;
  exited servers are started again.
* `ServerLifecycle`: the main goroutine, that of the webserver and that of the
  signal are scheduled, and constructors return or panic. No fairness of the
  signal itself.
* `PlanTime`, `RabbitProducer` and `DatabaseActions` have safety properties only.

Deadlock is checked in every run but those of the two consumers; a command that
has returned, and bounds that are reached, stutter explicitly (`Returned`,
`Finished`, `AllSent`, `AllServed`). The consumers come to rest when every
message is handled or lost and the bounds are reached: they wait for a message,
which is what they should do.

## The proofs

Every invariant and every action property without fairness that a run checks is
proved for all values of the constants, some for workloads that bracket their
critical sections (`AllBracketed`). Each argument rests on an inductive invariant,
named below. Further theorems say under which conditions the states that the
liveness properties except do not occur.

`ClientProofs`, for every plan, flag, pattern and maximum:

* `TypeCorrect`: `Spec => []TypeOK`.
* `RepeatsAreExact`: `Spec => []RepeatsExact`.
* `DriverImplementsSchedule`: `Spec => ImplementsSchedule`.
* `LoopComesNearer`: `Spec => LoopAdvances`.
* `TimeTypeCorrect`, `GroupsFitTheirPhases` and `BudgetIsKept`:
  `TimedSpec => []TimedTypeOK`, `[]GroupsFitTheirPhase`, `[]BudgetKept`.

The inductive invariant `DriverInv` adds to the types what the executors rely
on without saying so. `Ordered`: under the sequence pattern every phase before
the current one is complete; without it the answer -1 of the sequence executor
would not imply that all phases are done. `Level`: under the cycle pattern the
incomplete phases before the current one have been executed once more than
those from it on, and equally often among themselves; without it a cycle step
need not be due. The refinement proof shows that each step of the loop
is `Reject`, `Accept`, `Run`, `Complete` or a stutter of `PhaseSchedule`, and that
the table the loop begins with is what was asked for (`RepeatsAreAskedFor`).

`LoopAdvances` is the variant of the loop. `Left` is what the repeat table still
asks for; `StepsAhead` bounds the steps from one execution to the next, for
which `Skips` counts the complete phases that the loop can meet: those behind the
current one and, if nothing is left there, once round. Each step decreases the
first, or keeps it and decreases the second. It needs `RepeatsExact` (so that `Left`
is a number of executions, and the execution of a complete phase would show),
and the answer of `NextPhase` to be nearer to an incomplete phase, which for the cycle
executor is the argument that it does not go round for ever. That the
command ends also needs the steps to be taken, and stays with `CommandReturns`.

A timed step is a step of the driver, so `RepeatsExact` holds of it. `TimeInv` adds
that from the start on the adjusted runtime, the announcement and the cache are
what the repeat table makes them, and that the time given is the sum over the
phases of the executions begun times the phase's duration (`Spent`). With
`RepeatsExact` this sum is at most that of all executions, and equal to it when
the command completes; without an override it is the announced total, with one
it is the announced total but for the remainder of a division by the number of
executions. `BudgetKept` has the premise `Fits`, that the total is a number an
int64 holds: beyond it the code announces a wrapped number, and the property is
false.

`WorkloadServerProofs`:

* `TypeCorrect`: `Spec => []TypeOK`, for all workloads.
* `MutexExcludes` and `UnlockIsNeverFatal`: `AllBracketed /\ Spec` implies
  `[]MutualExclusion` and `[]NoFatalUnlock`, for any number of requests, ids and
  workloads. `AllBracketed` says that every workload locks an id only when it
  does not hold it, unlocks it only when it does, and ends without a lock. The
  server does not demand it; the plans of the repository satisfy it.

The invariant `ServerInv` adds `Positioned` (a handler that looks up, waits or
unlocks stands at a lock or unlock action of its workload) and
`HoldersHaveLocks` (an id that a request holds is locked, and held by no other);
the second is what an unlock by one request needs to know about all others.

* `OrderPreventsDeadlock`: `AllBracketed /\ LocksInOrder /\ Spec => []~Deadlocked`.
* `FailuresOutsideOrphanNothing`: `AllBracketed /\ FailuresOutside /\ Spec =>
  [](Orphaned = {})`.
* `OrderedRequestsNeverStick`: `AllBracketed /\ LocksInOrder /\ FailuresOutside /\
  Spec => [](\A h \in Handlers : ~Stuck(h))`.
* `ServerNeverHalts`: `AllBracketed /\ LocksInOrder /\ FailuresOutside /\ Spec =>
  []SomebodyMoves`.

`RequestsEnd` excepts a request that is itself stuck for good (`Stuck`): it waits
for a mutex, and so does every handler on whom that depends, up to an orphaned
lock or round in a circle. A request beside it that needs no such lock has to
end all the same. `PhaseEndsUnlessLockLost` excepts a phase whose setup or
teardown is stuck in that sense. These theorems say
which plans never get there: those that nest their locks in one order
(`LocksInOrder`: the ids have ranks up to some limit, and a section inside
another one has the higher rank) and neither call anybody nor panic inside a
section (`FailuresOutside`). The repository's own
plans do both; their sections hold one lock and sleep. Of a set of handlers that
wait for each other, the one that waits for the mutex of the greatest rank waits
for a holder that waits for a greater one (`GreatestRank`, by the well-foundedness of
the numbers). An orphan needs a call to fail or an action to panic in a section,
by the same `NextDisturbs` as below; without orphans who is stuck is in a circle
(`StuckAreDeadlocked`). `SomebodyMoves` puts the two together: if every handler waited,
the mutexes they wait for would be known (`MutexKnown`), locked, held since none
is orphaned, and held by handlers that wait. The guard `GLOBAL_MUTEX` of the table is
part of it: who holds it is between its lookup and the release, or at an unlock
of a mutex that it holds, and can go on.

* `LeakStaysBounded`: `Spec => []LeakBounded`, for all limits and sizes.
* `OnlyFailuresOrphan` and `OrphansLast`: `AllBracketed /\ Spec` implies
  `OrphanedByFailure` and `OrphanedUntilRestart`. `NextDisturbs` shows that a step
  does one of five things to the critical section of an id: nothing, begin it,
  end it, fail inside it, or end the process (`Disturbance`). Only the fourth leaves
  a locked mutex without a holder, and none but the last frees one.

`PhaseRunProofs`, for every phase, number of workers and requests and any
passing of time:

* `TypeCorrect`: `Spec => []TypeOK`.
* `GroupsNeverOverlap`: `Spec => []GroupsInSequence`.
* `ReportIsFinal`: `Spec => []QuietAfterReport`.
* `ReportAddsUp`: `Spec => []ReportComplete`.
* `ResultsTellTheTruth`: `Spec => []ResultTells`.

The invariant `PhaseInv` adds `Started` (workers of groups not yet started are
off, and a group was started only if the workload could be marshalled) and
`Quiet` (outside the wait for a group no worker is active). The second part of
`Started` is what makes the early return after a failed marshalling harmless:
it can only happen for the first group, when no statistics goroutine runs yet
that the return would leave behind. `CountInv` adds `Accounts`: the requests counted
are those in the merged statistics and those in the workers' own, the errors
at least the refused ones of both and those a worker has added and not counted
yet, and a worker that has ended has left nothing in its own; and `ReportIsLast`,
that nothing is counted after the report. A worker without a valid host leaves
without a merge, but has nothing to merge.

`ResultTells` is what `command_client` relies on when it goes on or gives up: with
an error nothing was done but the setup; with nil the groups had their whole
durations one after another, all workers finished and the phase's limit had not
passed. Its invariant `FullInv` adds to `PhaseInv` who has begun and that, where requests
can be sent, a worker ends only with its group's time (`Begun`); that the groups
are left before the last one only when the phase's time is over, and reported
only then (`Cut`); and that a group's deadline is its whole duration after that
of each working group before it, unless it is the phase's limit (`Spaced`). A
group without instances, or without a valid host, ends at once and delays
nobody.

`LoadedServerProofs`, for every phase, workload, number of workers, handlers and
mutexes and any crashes:

* `ComponentsKeepTheirSpecs`: `Spec => C!Spec /\ S!Spec`: each behaviour of the two together
  is one of `PhaseRun` and one of `WorkloadServer`, so what is proved of either holds
  here.
* `TypeCorrect`: `Spec => []TypeOK`.
* `TeardownMeetsNobodyElse`: `Spec => []TeardownMeetsTheAbandoned`.
* `FirstAnswerIsCounted`: `Spec => []FirstAnswerCounts`.
* `ReportTellsTheServer`: `Spec => []ReportMatchesServer`.
* `PhaseKeepsItsWord`: `Spec` implies that `GroupsInSequence`, `QuietAfterReport`,
  `ReportComplete` and `ResultTells` always hold of the client.
* `ServerKeepsItsWord`: with `AllBracketed`, `MutualExclusion` and `NoFatalUnlock` always hold of
  the server.
* `NothingBlocksTheTeardown`: with `AllBracketed`, `LocksInOrder` and `FailuresOutside`
  there is never an orphaned lock, no request is ever stuck, and one of the
  requests there are can always go on.

The last three are the theorems about the components, carried over by
`ComponentsKeepTheirSpecs`: they hold although requests are left behind in the server
and the server dies and starts again under the phase.

`Sides` is what the proofs about the two components give, taken over by
instances of their proof modules. `Linked` says that a requester that has not
given up has one handler at most, none once its answer is there, and that
nobody gives up a teardown. `FirstInv` follows the first answer of a workload
that begins with one, or the 400 for one that is turned down, from its handler
over the response to the worker's counters. `Balanced` counts: for each status what the server ended less what is
merged and what a worker holds is never negative, and these gaps together with
the handlers that work in vain are no more than the requests lost. The gaps
alone would not be inductive: the request is lost when its worker gives up, and
its status is known only when its handler ends, possibly never.

`KafkaConsumerProofs`, for any number of servers, messages, failures and
rebalances:

* `TypeCorrect`: `Spec => []TypeOK`.
* `ConsumerImplementsAtLeastOnce`: `Spec => ImplementsAtLeastOnce`.
* `HandlesOnce`: `Spec => []OnceWithoutFailure`.

The invariant `DeliveryInv` adds `LogInOrder` (what is committed is handled or
missed) and `SessionInOrder` (a session handles from its start without a gap, and
marks exactly what it has handled, as long as it holds the partition); the second
is what an accepted commit needs. Nothing of the kind holds of a member that was
evicted, but its commits are refused. `HandlesOnce` rests on an invariant of its
own, `Orderly`: before the first failure there is at most one session, past
everything handled, and what it will commit when it ends covers all of it.

`ServicesProofs`, about loading, for every configuration:

* `TypeCorrect`: `Spec => []TypeOK`.
* `BucketRacesEnd`: `Spec => []RacesEnd`, for any number of buckets. The invariant
  `RaceInv` counts: a race that is about to be lost is over a bucket whose
  creation no lost race has paid for yet.
* `ServesOnlyLoaded`: `Spec => []NeverPartlyLoaded`. The invariant `LoadInv` says
  how far each stage has got (`StageInOrder`): the registry holds what the
  declarations before `next` declare, each once. That as many names are registered
  as were wanted follows by a bijection.

and about the RabbitMQ consumer, for any number of servers, messages and failures
(`Spec` is `RabbitSpec` here):

* `RabbitTypeCorrect`: `Spec => []RabbitTypeOK`.
* `TakesInOrder`: `Spec => TakenInOrder`.
* `ConsumerImplementsAtMostOnce`: `Spec => ImplementsAtMostOnce`.
* `NothingLostUntilFailure`: `Spec => []LossNeedsFailure`.

The invariant `RabbitDeliveryInv` adds `InOrder` (the queue is newer than every buffer,
a buffer newer than what was taken from it), `Fresh` (no script has run for
a message that can still be delivered or handled) and `Apart` (a message is in
the hands of one consumer). `LossFreeInv` adds `NothingDropped`: before the first
failure a channel that was opened stays open, so no buffer is dropped, unless
the tracer of Datadog mode runs; and `Given`: what a consumer has is among what it
was given, so that what such a server drops is covered by its exception.

`SharedObjectsProofs`, for any number of requests, consumers, messages and
failures, about the RabbitMQ producer:

* `TypeCorrect`: `Spec => []TypeOK`.
* `NoPanicWithoutRace` and `NoLeakWithoutRace`: `Spec => []PanicNeedsRace`,
  `Spec => []LeakNeedsRace`. `SoloInv` is what the only produce finds in the fields
  at each of its places.
* `OneFailureCostsTwo`: `Spec => []FailureCostsTwo`. `DebtInv` adds to the produces
  that failed those that will still fail for what has gone wrong (`Owed`). A
  message that `Publish` accepts and the broker never gets is none of them: the
  caller is told nothing.
* `RaceHeals`: `Spec => []HealsUnlessWedged`. `HealInv` follows lone produces
  after an overlap: after the first of them that fails, either the service is
  wedged or the next one finds a closed connection and replaces it.

and about the database actions, for any number of handlers and requests (`Spec` is
`DatabaseSpec` here):

* `DatabaseTypeCorrect`: `Spec => []DatabaseTypeOK`.
* `FieldsStayFresh` and `OnlyCompanyCloses`:
  `Spec => []FieldsAreFresh` and `[]ClosedByCompany`. The
  invariant `CompanyInv` says of each place of a request that what it is about
  to read was written by itself or by a request that it was in progress with.
* `OnlyTheOvertakenLeak`: `Spec => []LeaksNeedOvertaking`. The invariant `LeakInv`
  adds that a request which was not overtaken finds its own client in the field
  and queries that (`Own`), so that it disconnects it in the end.
* `OneIsTold`: `Spec => []NilAfterOneError`. `DriverInv` says that only one caller
  registers, and that when it is through the driver is there or it was told.

`SumTheorems` shows that the community modules' `SumFunctionOnSet` over a finite set
satisfies the equation its recursive definition suggests, and from it that a sum
does not depend on the order (`SumRemove`), adds, scales, compares and changes as
its terms do. There is no induction over natural numbers in it: `SubsetInduction` takes
the property as a set of subsets and picks a smallest counterexample, which
exists because the strict subsets of a finite set are well-founded.

The assumptions are the named ones of the modules (`DriverAssumption`,
`DurationsAssumption`, `PlanTimeAssumption`, `ServerAssumption`, `PhaseAssumption`,
`LoadedAssumption`, `KafkaAssumption`, `RabbitAssumption`, `ConfigAssumption`,
`ProducerAssumption`, `ActionsAssumption`), which TLC evaluates on every run.
`AllBracketed`, `LocksInOrder` and `FailuresOutside` are hypotheses of the theorems that need
them. `LoadedAssumption` is what
its two components assume and, as in Go, that a server's handlers are finite in
number.

Only model-checked: all liveness, that is that the client's loop, a phase, a
request, the composition and a shutdown end, that a teardown follows its work, and
that messages are handled or consumed (fairness and `ENABLED` are out of the
prover's reach).

## Not modelled, and the plan

Not modelled because there is nothing to check that a model would add:

* telemetry and utilities (`otlp.go`, `pkg/logger`, `pkg/*.go`): exporters and
  wrappers that keep no state the rest reads; their failures are logged;
* the charts, Dockerfiles and scenarios, but for what they say about restarts;
* the texts of the reporter and of the logs;
* the data races of counters that are only printed (`client.go:284`), and the
  second header of a response that has one, beyond `FirstAnswerCounts`.

Open, in this order:

1. `ManyClaims`: the claims of several partitions share one Kafka service, and
   one session ends them together.
2. Two servers that call each other, in `LoadedServer`: a cycle of calls under
   one request's context, and the mutexes of both.
3. Proofs about what the two above state.
