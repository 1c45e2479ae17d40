-------------------------- MODULE ServerLifecycle --------------------------
(***************************************************************************)
(* The server's process from its start to its end: command_server          *)
(* (cmd/chaosmania/server.go), the two managers that load and keep the     *)
(* services (pkg/actions/services.go, background_services.go), the         *)
(* background services' goroutines, the webserver's, and the one that      *)
(* waits for a signal; and its next start, because the container runtime   *)
(* starts it again.  Other servers of the same deployment start at the     *)
(* same time and create the same MinIO buckets.                            *)
(*                                                                         *)
(* What a request does is WorkloadServer's.                                *)
(***************************************************************************)
EXTENDS Integers, Sequences, SequencesExt, FiniteSets

CONSTANTS
  Configs   \* the configurations considered, see ConfigType

Stages == {"services", "background"}

(* What the constructors need besides a configuration that decodes: a server
   that can be reached, or a driver that can be registered.  The others
   connect on first use. *)
NewRedisService            == {}
NewMinioService            == {"server"}
NewMysqlService            == {"driver"}
NewPostgresqlService       == {"driver"}
NewKafkaProducerService    == {"server"}
NewRabbitMQProducerService == {}
NewKafkaConsumerService    == {}
NewRabbitMQConsumerService == {}

(* SERVICE_TYPES and BACKGROUND_SERVICE_TYPES *)
Constructors == [
  services |-> ("redis" :> NewRedisService @@ "minio" :> NewMinioService
                @@ "mysql" :> NewMysqlService @@ "postgresql" :> NewPostgresqlService
                @@ "kafka-producer" :> NewKafkaProducerService
                @@ "rabbitmq-producer" :> NewRabbitMQProducerService),
  background |-> ("kafka-consumer" :> NewKafkaConsumerService
                  @@ "rabbitmq-consumer" :> NewRabbitMQConsumerService)]

Types == [s \in Stages |-> DOMAIN Constructors[s]]

(* Per stage: the configuration file and the declarations in it; the names
   in ENABLED_BACKGROUND_SERVICES; and the buckets of the minio services *)
ConfigType ==
  [file : [Stages -> {"absent", "broken", "good"}],
   declared : [Stages -> Seq([name : STRING, type : STRING, valid : BOOLEAN])],
   enabled : SUBSET STRING,
   buckets : Seq(STRING)]

ASSUME ConfigAssumption == Configs \subseteq ConfigType

VARIABLES
  config,      \* the configuration of this process
  pc,          \* where command_server is
  next,        \* the declaration LoadFromFile looks at
  registry,    \* the names each manager has registered
  running,     \* the background services whose Run has not returned
  webserver,   \* the goroutine of ListenAndServe
  signal,      \* the first SIGINT or SIGTERM
  exit,        \* how the process has ended
  bucket,      \* the bucket NewMinioService looks at
  absent,      \* BucketExists has answered that it does not exist
  store,       \* the buckets that exist in MinIO
  races        \* history: MakeBucket calls that found the bucket there

minio == <<bucket, absent, store, races>>
vars == <<config, pc, next, registry, running, webserver, signal, exit, minio>>

Init ==
  /\ config \in Configs
  /\ pc = "start"
  /\ next = 1
  /\ registry = [s \in Stages |-> {}]
  /\ running = {}
  /\ webserver = "off"
  /\ signal = "none"
  /\ exit = "none"
  /\ bucket = 1 /\ absent = FALSE
  /\ store = {} /\ races = 0

Alive == exit = "none"

-----------------------------------------------------------------------------
(* LoadFromFile of either manager, one declaration at a time *)

Loading(s) == Alive /\ pc = s

(* Without the file command_server does not call it; without the variable
   the background manager does not read the file. *)
Passed(s) == config.file[s] = "absent" \/ (s = "background" /\ config.enabled = {})

Wanted(s, d) == s = "background" => d.name \in config.enabled

Declarations(s) ==
  IF config.file[s] = "good" THEN config.declared[s] ELSE <<>>

Current(s) == Declarations(s)[next]

AtDeclaration(s) ==
  /\ Loading(s) /\ ~Passed(s) /\ config.file[s] = "good"
  /\ next <= Len(config.declared[s])

Skip(s) ==
  /\ AtDeclaration(s) /\ ~Wanted(s, Current(s))
  /\ next' = next + 1
  /\ UNCHANGED <<config, pc, registry, running, webserver, signal, exit, minio>>

Constructing(s) ==
  /\ AtDeclaration(s) /\ Wanted(s, Current(s))
  /\ Current(s).type \in Types[s]

CreatingBuckets ==
  /\ Constructing("services")
  /\ Current("services").type = "minio" /\ Current("services").valid
  /\ bucket <= Len(config.buckets)

(* The constructor returns a service and Register accepts its name. *)
Register(s) ==
  /\ Constructing(s) /\ Current(s).valid
  /\ ~CreatingBuckets
  /\ Current(s).name \notin registry[s]
  /\ registry' = [registry EXCEPT ![s] = @ \cup {Current(s).name}]
  /\ next' = next + 1
  /\ bucket' = 1
  /\ UNCHANGED <<config, pc, running, webserver, signal, exit, absent, store, races>>

(* The configuration does not decode, or what the constructor needs is not
   there. *)
ConstructorPanics(s) ==
  /\ Constructing(s)
  /\ ~Current(s).valid \/ Constructors[s][Current(s).type] # {}
  /\ exit' = "panic"
  /\ UNCHANGED <<config, pc, next, registry, running, webserver, signal, minio>>

(* Faulty variant: BucketExists is asked, and its answer not looked at.    *)
BucketExistsUnread ==
  /\ CreatingBuckets /\ ~absent
  /\ absent' = TRUE
  /\ UNCHANGED <<config, pc, next, registry, running, webserver, signal, exit,
                 bucket, store, races>>

(* NewMinioService looks whether the bucket exists ... *)
BucketExists ==
  /\ CreatingBuckets /\ ~absent
  /\ IF config.buckets[bucket] \in store
     THEN bucket' = bucket + 1 /\ UNCHANGED absent
     ELSE absent' = TRUE /\ UNCHANGED bucket
  /\ UNCHANGED <<config, pc, next, registry, running, webserver, signal, exit,
                 store, races>>

(* ... and creates it, if nobody else has by now: otherwise it panics. *)
MakeBucket ==
  /\ CreatingBuckets /\ absent
  /\ absent' = FALSE
  /\ IF config.buckets[bucket] \in store
     THEN exit' = "panic" /\ races' = races + 1 /\ UNCHANGED <<bucket, store>>
     ELSE /\ store' = store \cup {config.buckets[bucket]}
          /\ bucket' = bucket + 1
          /\ UNCHANGED <<exit, races>>
  /\ UNCHANGED <<config, pc, next, registry, running, webserver, signal>>

(* Another server, with the same configuration, creates it. *)
OtherMakesBucket(b) ==
  /\ store' = store \cup {b}
  /\ UNCHANGED <<config, pc, next, registry, running, webserver, signal, exit,
                 bucket, absent, races>>

After(s) == IF s = "services" THEN "background" ELSE "run"

Refused(s) ==
  \/ Loading(s) /\ ~Passed(s) /\ config.file[s] = "broken"
  \/ /\ AtDeclaration(s) /\ Wanted(s, Current(s))
     /\ \/ Current(s).type \notin Types[s]
        \/ Current(s).name \in registry[s] /\ Current(s).valid /\ ~CreatingBuckets

(* Faulty variant: the error is logged and not returned.                   *)
LoadFailsLogged(s) ==
  /\ Refused(s)
  /\ pc' = After(s)
  /\ next' = 1
  /\ UNCHANGED <<config, registry, running, webserver, signal, exit, minio>>

(* The file cannot be read or decoded, the type is unknown, or the name is
   taken: command_server returns the error, with what was registered before
   left as it is. *)
LoadFails(s) ==
  /\ Refused(s)
  /\ exit' = "error"
  /\ UNCHANGED <<config, pc, next, registry, running, webserver, signal, minio>>

Loaded(s) ==
  /\ Loading(s)
  /\ Passed(s) \/ (config.file[s] = "good" /\ next > Len(config.declared[s]))
  /\ pc' = After(s)
  /\ next' = 1
  /\ UNCHANGED <<config, registry, running, webserver, signal, exit, minio>>

-----------------------------------------------------------------------------
(* command_server *)

(* signal.Notify, and the goroutine that waits for the signal *)
Notify ==
  /\ Alive /\ pc = "start"
  /\ pc' = "services"
  /\ UNCHANGED <<config, next, registry, running, webserver, signal, exit, minio>>

(* BackgroundManager.Run: a goroutine for each service *)
RunBackground ==
  /\ Alive /\ pc = "run"
  /\ running' = registry["background"]
  /\ pc' = "listen"
  /\ UNCHANGED <<config, next, registry, webserver, signal, exit, minio>>

Listen ==
  /\ Alive /\ pc = "listen"
  /\ webserver' = "starting"
  /\ pc' = "wait"
  /\ UNCHANGED <<config, next, registry, running, signal, exit, minio>>

(* ListenAndServe serves, or returns an error, which is logged only. *)
WebserverStarts ==
  /\ Alive /\ webserver = "starting"
  /\ webserver' \in {"listening", "failed"}
  /\ UNCHANGED <<config, pc, next, registry, running, signal, exit, minio>>

(* Run returns, at once if no broker is there, and is not called again. *)
BackgroundEnds(b) ==
  /\ Alive /\ b \in running
  /\ running' = running \ {b}
  /\ UNCHANGED <<config, pc, next, registry, webserver, signal, exit, minio>>

Names(s) == {d.name : d \in {e \in ToSet(Declarations(s)) : Wanted(s, e)}}

(* Before Notify a signal ends the process at once; later ones than the
   first have no effect. *)
SendSignal ==
  /\ Alive /\ signal = "none"
  /\ signal' = "sent"
  /\ exit' = IF pc = "start" THEN "killed" ELSE exit
  /\ UNCHANGED <<config, pc, next, registry, running, webserver, minio>>

(* Faulty variant: the goroutine sends on stop if somebody receives.       *)
ReceiveSignalUnheard ==
  /\ Alive /\ signal = "sent"
  /\ signal' = IF pc = "wait" THEN "received" ELSE "none"
  /\ UNCHANGED <<config, pc, next, registry, running, webserver, exit, minio>>

(* The goroutine closes stop, wherever command_server is. *)
ReceiveSignal ==
  /\ Alive /\ signal = "sent"
  /\ signal' = "received"
  /\ UNCHANGED <<config, pc, next, registry, running, webserver, exit, minio>>

(* stop is closed: command_server returns, the process exits, and with it
   every goroutine. *)
Return ==
  /\ Alive /\ pc = "wait" /\ signal = "received"
  /\ exit' = "ok"
  /\ UNCHANGED <<config, pc, next, registry, running, webserver, signal, minio>>

(* The container runtime starts the server again. *)
Restart ==
  /\ ~Alive
  /\ pc' = "start" /\ next' = 1
  /\ registry' = [s \in Stages |-> {}] /\ running' = {}
  /\ webserver' = "off" /\ signal' = "none" /\ exit' = "none"
  /\ bucket' = 1 /\ absent' = FALSE
  /\ UNCHANGED <<config, store, races>>

-----------------------------------------------------------------------------

Main ==
  \/ Notify \/ RunBackground \/ Listen \/ Return
  \/ \E s \in Stages : \/ Skip(s) \/ Register(s) \/ ConstructorPanics(s)
                       \/ LoadFails(s) \/ Loaded(s)
  \/ BucketExists \/ MakeBucket

Next ==
  \/ Main \/ WebserverStarts \/ SendSignal \/ ReceiveSignal \/ Restart
  \/ \E b \in ToSet(config.buckets) : OtherMakesBucket(b)
  \/ \E b \in running : BackgroundEnds(b)

Spec == Init /\ [][Next]_vars

(* Goroutines are scheduled, and a constructor returns or panics. *)
FairSpec == Spec /\ WF_vars(Main) /\ WF_vars(WebserverStarts) /\ WF_vars(ReceiveSignal)

-----------------------------------------------------------------------------

(* The types of the variables; a background service runs only if it is
   registered. *)
TypeOK ==
  /\ config \in Configs
  /\ pc \in {"start", "services", "background", "run", "listen", "wait"}
  /\ next \in Nat \ {0}
  /\ registry \in [Stages -> SUBSET (Names("services") \cup Names("background"))]
  /\ running \subseteq registry["background"]
  /\ webserver \in {"off", "starting", "listening", "failed"}
  /\ signal \in {"none", "sent", "received"}
  /\ exit \in {"none", "ok", "error", "panic", "killed"}
  /\ bucket \in 1..(Len(config.buckets) + 1)
  /\ absent \in BOOLEAN
  /\ store \subseteq ToSet(config.buckets)
  /\ races \in Nat

(* A server that could not load everything it was configured to never
   serves a request or consumes a message with the part it has.            *)
NeverPartlyLoaded ==
  (webserver # "off" \/ running # {}) =>
    \A s \in Stages : ~Passed(s) =>
      /\ config.file[s] = "good"
      /\ registry[s] = Names(s)
      /\ Cardinality({i \in DOMAIN Declarations(s) : Wanted(s, Declarations(s)[i])})
           = Cardinality(Names(s))

(* Servers that start together cannot keep each other from starting: each
   start that ends because another server created a bucket first leaves that
   bucket behind, so there is at most one such start for each bucket.      *)
RacesEnd == races <= Cardinality(store)

(* A signal ends the server whenever it arrives, also while it is still
   loading, when nobody waits for stop yet. *)
SignalEndsServer == (signal # "none") ~> ~Alive
=============================================================================
