-------------------------- MODULE ServicesProofs ---------------------------
(***************************************************************************)
(* The services of a server: what loading them guarantees, for every       *)
(* configuration; and what one of them, the rabbitmq-consumer, delivers,   *)
(* for any number of servers, messages and failures.                       *)
(***************************************************************************)
EXTENDS ServerLifecycle, RabbitConsumer, FiniteSetTheorems, FunctionTheorems,
        SequenceTheorems, TLAPS

-----------------------------------------------------------------------------
(***************************************************************************)
(* Loading                                                                 *)
(***************************************************************************)

(* What the assumption says of the configuration of a process *)
LEMMA ConfigTyped ==
  ASSUME config \in Configs
  PROVE  /\ config \in ConfigType
         /\ Len(config.buckets) \in Nat
         /\ DOMAIN config.buckets = 1..Len(config.buckets)
         /\ \A s \in Stages : /\ Len(Declarations(s)) \in Nat
                              /\ DOMAIN Declarations(s) = 1..Len(Declarations(s))
<1>1. config \in ConfigType
  BY ConfigAssumption
<1>2. config.buckets \in Seq(STRING)
  BY <1>1 DEF ConfigType
<1>3. ASSUME NEW s \in Stages
      PROVE  /\ Len(Declarations(s)) \in Nat
             /\ DOMAIN Declarations(s) = 1..Len(Declarations(s))
  <2>1. config.declared[s] \in Seq([name : STRING, type : STRING, valid : BOOLEAN])
    BY <1>1 DEF ConfigType
  <2>2. QED
    BY <2>1 DEF Declarations
<1>4. QED
  BY <1>1, <1>2, <1>3

(* The declaration LoadFromFile looks at is one of the file's. *)
LEMMA AtDeclared ==
  ASSUME TypeOK, NEW s \in Stages, AtDeclaration(s)
  PROVE  /\ Declarations(s) = config.declared[s]
         /\ next \in DOMAIN Declarations(s)
         /\ Wanted(s, Current(s)) => Current(s).name \in Names(s)
<1>1. Declarations(s) = config.declared[s]
  BY DEF AtDeclaration, Declarations
<1>2. next \in DOMAIN Declarations(s)
  BY <1>1, ConfigTyped DEF AtDeclaration, TypeOK
<1>3. Current(s) \in ToSet(Declarations(s))
  BY <1>2 DEF Current, ToSet
<1>4. QED
  BY <1>1, <1>2, <1>3 DEF Names

-----------------------------------------------------------------------------
(* Types *)

LEMMA InitTypeOK == Init => TypeOK
<1> SUFFICES ASSUME Init PROVE TypeOK
  OBVIOUS
<1>1. Len(config.buckets) \in Nat
  BY ConfigTyped DEF Init
<1>2. 1 \in 1..(Len(config.buckets) + 1)
  BY <1>1
<1>3. next \in Nat \ {0}
  BY DEF Init
<1>4. QED
  BY <1>2, <1>3 DEF Init, TypeOK, Stages

LEMMA NextTypeOK == TypeOK /\ [Next]_vars => TypeOK'
<1> SUFFICES ASSUME TypeOK, [Next]_vars PROVE TypeOK'
  OBVIOUS
<1>0. config' = config => Names("services")' = Names("services")
                          /\ Names("background")' = Names("background")
  BY DEF Names, Declarations, Wanted
<1>1. ASSUME NEW s \in Stages,
             Skip(s) \/ ConstructorPanics(s) \/ LoadFails(s) \/ Loaded(s)
      PROVE  TypeOK'
  <2>1. /\ UNCHANGED <<config, registry, running, webserver, signal, minio>>
        /\ next' \in {next, next + 1, 1}
        /\ pc' \in {pc, After(s)}
        /\ exit' \in {exit, "panic", "error"}
    BY <1>1 DEF Skip, ConstructorPanics, LoadFails, Loaded
  <2>2. QED
    BY <1>0, <2>1 DEF TypeOK, After, minio
<1>2. ASSUME NEW s \in Stages, Register(s) PROVE TypeOK'
  <2>1. Current(s).name \in Names(s)
    BY <1>2, AtDeclared DEF Register, Constructing
  <2>2. Names(s) \subseteq Names("services") \cup Names("background")
    BY DEF Stages
  <2>3. Len(config.buckets) \in Nat
    BY ConfigTyped DEF TypeOK
  <2>4. /\ registry' \in [Stages -> SUBSET (Names("services") \cup Names("background"))]
        /\ registry["background"] \subseteq registry'["background"]
    BY <1>2, <2>1, <2>2 DEF Register, TypeOK, Stages
  <2>5. QED
    BY <1>0, <1>2, <2>3, <2>4 DEF Register, TypeOK
<1>3. CASE BucketExists \/ MakeBucket
  <2>1. Len(config.buckets) \in Nat /\ bucket \in 1..Len(config.buckets)
    BY <1>3, ConfigTyped DEF BucketExists, MakeBucket, CreatingBuckets, TypeOK
  <2>2. config.buckets[bucket] \in ToSet(config.buckets)
    BY <2>1, ConfigTyped DEF ToSet, TypeOK
  <2>3. CASE BucketExists
    <3>1. /\ UNCHANGED <<config, pc, next, registry, running, webserver, signal, exit, store, races>>
          /\ \/ bucket' = bucket + 1 /\ absent' = FALSE
             \/ bucket' = bucket /\ absent' = TRUE
      BY <2>3 DEF BucketExists, TypeOK
    <3>2. bucket' \in 1..(Len(config.buckets) + 1)
      BY <2>1, <3>1
    <3>3. QED
      BY <1>0, <3>1, <3>2 DEF TypeOK
  <2>4. CASE MakeBucket
    <3>1. /\ UNCHANGED <<config, pc, next, registry, running, webserver, signal>>
          /\ absent' = FALSE /\ bucket' \in {bucket, bucket + 1}
          /\ store' \in {store, store \cup {config.buckets[bucket]}}
          /\ races' \in {races, races + 1} /\ exit' \in {exit, "panic"}
      BY <2>4 DEF MakeBucket, TypeOK
    <3>2. store' \subseteq ToSet(config.buckets)
      BY <2>2, <3>1 DEF TypeOK
    <3>3. bucket' \in 1..(Len(config.buckets) + 1) /\ races' \in Nat
      BY <2>1, <3>1 DEF TypeOK
    <3>4. QED
      BY <1>0, <3>1, <3>2, <3>3 DEF TypeOK
  <2>5. QED
    BY <1>3, <2>3, <2>4
<1>4. CASE Notify \/ RunBackground \/ Listen \/ Return
  BY <1>0, <1>4 DEF Notify, RunBackground, Listen, Return, TypeOK, minio, Stages
<1>5. CASE WebserverStarts \/ SendSignal \/ ReceiveSignal
  BY <1>0, <1>5 DEF WebserverStarts, SendSignal, ReceiveSignal, TypeOK, minio
<1>6. CASE Restart
  <2>1. Len(config.buckets) \in Nat
    BY ConfigTyped DEF TypeOK
  <2>2. 1 \in 1..(Len(config.buckets) + 1) /\ next' \in Nat \ {0}
    BY <1>6, <2>1 DEF Restart
  <2>3. QED
    BY <1>0, <1>6, <2>2 DEF Restart, TypeOK, Stages
<1>7. ASSUME NEW b \in ToSet(config.buckets), OtherMakesBucket(b) PROVE TypeOK'
  BY <1>0, <1>7 DEF OtherMakesBucket, TypeOK
<1>8. ASSUME NEW b \in running, BackgroundEnds(b) PROVE TypeOK'
  BY <1>0, <1>8 DEF BackgroundEnds, TypeOK, minio
<1>9. CASE UNCHANGED vars
  BY <1>0, <1>9 DEF vars, TypeOK, minio
<1>10. QED
  BY <1>1, <1>2, <1>3, <1>4, <1>5, <1>6, <1>7, <1>8, <1>9 DEF Next, Main

(* The variables keep their types: in particular only registered background
   services run. *)
THEOREM TypeCorrect == Spec => []TypeOK
<1>1. QED
  BY InitTypeOK, NextTypeOK, PTL DEF Spec

-----------------------------------------------------------------------------
(* Buckets *)

(* While NewMinioService is about to create a bucket, the bucket was not
   there; if it is by now, another server's creation is still uncounted. *)
RaceIsCounted ==
  /\ IsFiniteSet(store)
  /\ races <= Cardinality(store)
  /\ absent /\ Alive =>
       /\ CreatingBuckets
       /\ config.buckets[bucket] \in store => races < Cardinality(store)

RaceInv == TypeOK /\ RaceIsCounted

LEMMA InitRaceInv == Init => RaceInv
<1> SUFFICES ASSUME Init PROVE RaceInv
  OBVIOUS
<1>1. store = {} /\ races = 0 /\ ~absent
  BY DEF Init
<1>2. IsFiniteSet(store) /\ Cardinality(store) = 0
  BY <1>1, FS_EmptySet
<1>3. QED
  BY <1>1, <1>2, InitTypeOK DEF RaceInv, RaceIsCounted

(* A step of the server that is not about buckets *)
LEMMA StillRaceInv ==
  ASSUME RaceInv, TypeOK', UNCHANGED <<config, store, races, bucket, absent>>,
         absent /\ Alive' => Alive /\ CreatingBuckets'
  PROVE  RaceInv'
BY DEF RaceInv, RaceIsCounted

LEMMA NextRaceInv == RaceInv /\ [Next]_vars => RaceInv'
<1> SUFFICES ASSUME RaceInv, [Next]_vars PROVE RaceInv'
  OBVIOUS
<1>0. TypeOK /\ TypeOK' /\ RaceIsCounted /\ races \in Nat
  BY NextTypeOK DEF RaceInv, TypeOK
<1>a. IsFiniteSet(store) /\ Cardinality(store) \in Nat
  BY <1>0, FS_CardinalityType DEF RaceIsCounted
<1>1. ASSUME NEW s \in Stages, Register(s) PROVE RaceInv'
  <2>1. ~absent /\ absent' = absent /\ UNCHANGED <<store, races>>
    <3>1. CASE s = "services"
      BY <1>0, <1>1, <3>1 DEF Register, RaceIsCounted, Constructing, AtDeclaration, Loading
    <3>2. CASE s # "services"
      BY <1>0, <1>1, <3>2 DEF Register, RaceIsCounted, CreatingBuckets, Constructing,
                              AtDeclaration, Loading
    <3>3. QED
      BY <3>1, <3>2, <1>1 DEF Register
  <2>2. QED
    BY <1>0, <2>1 DEF RaceInv, RaceIsCounted
<1>2. ASSUME NEW s \in Stages, Skip(s) \/ Loaded(s) PROVE RaceInv'
  <2>1. ~CreatingBuckets
    <3>1. ASSUME CreatingBuckets PROVE FALSE
      <4>1. /\ pc = "services" /\ ~Passed("services") /\ Wanted("services", Current("services"))
            /\ next <= Len(config.declared["services"])
            /\ Declarations("services") = config.declared["services"]
        BY <3>1 DEF CreatingBuckets, Constructing, AtDeclaration, Loading, Declarations
      <4>2. Len(config.declared["services"]) \in Nat /\ next \in Nat
        BY <1>0, <4>1, ConfigTyped DEF TypeOK, Stages
      <4>3. s = "services"
        BY <1>2, <4>1 DEF Skip, Loaded, AtDeclaration, Loading
      <4>4. QED
        BY <1>2, <4>1, <4>2, <4>3 DEF Skip, Loaded
    <3>2. QED
      BY <3>1
  <2>2. ~absent /\ UNCHANGED <<config, store, races, bucket, absent>>
    BY <1>0, <1>2, <2>1 DEF Skip, Loaded, RaceIsCounted, AtDeclaration, Loading, minio
  <2>3. QED
    BY <1>0, <2>2, StillRaceInv
<1>3. ASSUME NEW s \in Stages, ConstructorPanics(s) \/ LoadFails(s) PROVE RaceInv'
  <2>1. ~Alive' /\ UNCHANGED <<config, store, races, bucket, absent>>
    BY <1>3 DEF ConstructorPanics, LoadFails, Alive, minio
  <2>2. QED
    BY <1>0, <2>1, StillRaceInv
<1>4. CASE BucketExists
  <2>1. /\ UNCHANGED <<config, pc, next, exit, store, races>> /\ CreatingBuckets
        /\ config.buckets[bucket] \in store => ~absent'
        /\ config.buckets[bucket] \notin store => bucket' = bucket
    BY <1>4 DEF BucketExists
  <2>2. absent' => CreatingBuckets' /\ bucket' = bucket
    BY <2>1 DEF CreatingBuckets, Constructing, AtDeclaration, Loading, Alive, Passed,
                Wanted, Current, Declarations
  <2>3. QED
    BY <1>0, <2>1, <2>2 DEF RaceInv, RaceIsCounted
<1>5. CASE MakeBucket
  <2>1. absent /\ Alive /\ ~absent'
    BY <1>5 DEF MakeBucket, CreatingBuckets, Constructing, AtDeclaration, Loading
  <2>2. CASE config.buckets[bucket] \in store
    <3>1. races < Cardinality(store) /\ races' = races + 1 /\ store' = store
      BY <1>0, <1>5, <2>1, <2>2 DEF MakeBucket, RaceIsCounted
    <3>2. QED
      BY <1>0, <1>a, <2>1, <3>1 DEF RaceInv, RaceIsCounted
  <2>3. CASE config.buckets[bucket] \notin store
    <3>1. store' = store \cup {config.buckets[bucket]} /\ races' = races
      BY <1>5, <2>3 DEF MakeBucket
    <3>2. IsFiniteSet(store') /\ Cardinality(store') = Cardinality(store) + 1
      BY <1>a, <2>3, <3>1, FS_AddElement
    <3>3. QED
      BY <1>0, <1>a, <2>1, <3>1, <3>2 DEF RaceInv, RaceIsCounted
  <2>4. QED
    BY <2>2, <2>3
<1>6. ASSUME NEW b \in ToSet(config.buckets), OtherMakesBucket(b) PROVE RaceInv'
  <2>1. /\ UNCHANGED <<config, pc, next, exit, bucket, absent, races>>
        /\ store' = store \cup {b}
    BY <1>6 DEF OtherMakesBucket
  <2>2. /\ IsFiniteSet(store')
        /\ Cardinality(store') = IF b \in store THEN Cardinality(store) ELSE Cardinality(store) + 1
    BY <1>a, <2>1, FS_AddElement
  <2>3. CreatingBuckets' <=> CreatingBuckets
    BY <2>1 DEF CreatingBuckets, Constructing, AtDeclaration, Loading, Alive, Passed,
                Wanted, Current, Declarations
  <2>4. races' <= Cardinality(store')
    BY <1>0, <1>a, <2>1, <2>2 DEF RaceIsCounted
  <2>5. ASSUME absent', Alive', config'.buckets[bucket'] \in store'
        PROVE  races' < Cardinality(store')
    <3>1. races' = races /\ (config.buckets[bucket] \in store => races < Cardinality(store))
      BY <1>0, <2>1, <2>5 DEF RaceIsCounted, Alive
    <3>2. CASE b \in store
      BY <2>1, <2>2, <2>5, <3>1, <3>2
    <3>3. CASE b \notin store
      BY <1>0, <1>a, <2>2, <3>1, <3>3 DEF RaceIsCounted
    <3>4. QED
      BY <3>2, <3>3
  <2>6. absent' /\ Alive' => CreatingBuckets'
    BY <1>0, <2>1, <2>3 DEF RaceIsCounted, Alive
  <2>7. QED
    BY <1>0, <2>2, <2>4, <2>5, <2>6 DEF RaceInv, RaceIsCounted
<1>7. CASE Notify \/ RunBackground \/ Listen \/ Return
  <2>1. ~absent /\ UNCHANGED <<config, store, races, bucket, absent>>
    BY <1>0, <1>7 DEF Notify, RunBackground, Listen, Return, RaceIsCounted, minio,
                      CreatingBuckets, Constructing, AtDeclaration, Loading
  <2>2. QED
    BY <1>0, <2>1, StillRaceInv
<1>8. CASE WebserverStarts \/ SendSignal \/ ReceiveSignal
  <2>1. /\ UNCHANGED <<config, pc, next, store, races, bucket, absent>>
        /\ Alive' => Alive /\ exit' = exit
    BY <1>8 DEF WebserverStarts, SendSignal, ReceiveSignal, minio, Alive
  <2>2. Alive' /\ CreatingBuckets => CreatingBuckets'
    BY <2>1 DEF CreatingBuckets, Constructing, AtDeclaration, Loading, Alive, Passed,
                Wanted, Current, Declarations
  <2>3. QED
    BY <1>0, <2>1, <2>2, StillRaceInv DEF RaceIsCounted
<1>9. CASE Restart
  <2>1. ~absent' /\ UNCHANGED <<store, races>>
    BY <1>9 DEF Restart
  <2>2. QED
    BY <1>0, <2>1 DEF RaceInv, RaceIsCounted
<1>10. ASSUME NEW b \in running, BackgroundEnds(b) PROVE RaceInv'
  <2>1. UNCHANGED <<config, pc, next, exit, store, races, bucket, absent>>
    BY <1>10 DEF BackgroundEnds, minio
  <2>2. CreatingBuckets => CreatingBuckets'
    BY <2>1 DEF CreatingBuckets, Constructing, AtDeclaration, Loading, Alive, Passed,
                Wanted, Current, Declarations
  <2>3. QED
    BY <1>0, <2>1, <2>2, StillRaceInv DEF RaceIsCounted, Alive
<1>11. CASE UNCHANGED vars
  <2>1. UNCHANGED <<config, pc, next, exit, store, races, bucket, absent>>
    BY <1>11 DEF vars, minio
  <2>2. CreatingBuckets => CreatingBuckets'
    BY <2>1 DEF CreatingBuckets, Constructing, AtDeclaration, Loading, Alive, Passed,
                Wanted, Current, Declarations
  <2>3. QED
    BY <1>0, <2>1, <2>2, StillRaceInv DEF RaceIsCounted, Alive
<1>12. QED
  BY <1>1, <1>2, <1>3, <1>4, <1>5, <1>6, <1>7, <1>8, <1>9, <1>10, <1>11 DEF Next, Main

(* Servers that start together and create the same buckets keep each other
   from starting at most once per bucket, for any configuration and any
   number of restarts. *)
THEOREM BucketRacesEnd == Spec => []RacesEnd
<1>1. RaceInv => RacesEnd
  BY DEF RaceInv, RaceIsCounted, RacesEnd
<1>2. QED
  BY <1>1, InitRaceInv, NextRaceInv, PTL DEF Spec

-----------------------------------------------------------------------------
(* Loading *)

WantedBelow(s, n) == {i \in DOMAIN Declarations(s) : i < n /\ Wanted(s, Declarations(s)[i])}

NameOf(s, i) == Declarations(s)[i].name

(* The registry holds what the first declarations declare, each once. *)
RegisteredBelow(s, n) ==
  /\ registry[s] = {NameOf(s, i) : i \in WantedBelow(s, n)}
  /\ \A i, j \in WantedBelow(s, n) : NameOf(s, i) = NameOf(s, j) => i = j

Before(s) == pc = "start" \/ (s = "background" /\ pc = "services")
Past(s) == pc \in {"run", "listen", "wait"} \/ (s = "services" /\ pc = "background")

(* How far a stage has got *)
StageInOrder(s) ==
  /\ Before(s) => registry[s] = {}
  /\ pc = s /\ ~Passed(s) => RegisteredBelow(s, next)
  /\ Past(s) /\ ~Passed(s) =>
       config.file[s] = "good" /\ RegisteredBelow(s, Len(config.declared[s]) + 1)

(* Nothing is served or consumed before the stages are done. *)
ServesLast == webserver # "off" \/ running # {} => pc \in {"listen", "wait"}

LoadInv ==
  /\ TypeOK
  /\ pc = "start" => next = 1
  /\ \A s \in Stages : StageInOrder(s)
  /\ ServesLast

LEMMA NothingBelowOne ==
  ASSUME config \in Configs, NEW s \in Stages
  PROVE  WantedBelow(s, 1) = {}
<1>1. DOMAIN Declarations(s) = 1..Len(Declarations(s)) /\ Len(Declarations(s)) \in Nat
  BY ConfigTyped
<1>2. QED
  BY <1>1 DEF WantedBelow

LEMMA InitLoadInv == Init => LoadInv
<1> SUFFICES ASSUME Init PROVE LoadInv
  OBVIOUS
<1>1. ASSUME NEW s \in Stages PROVE StageInOrder(s)
  <2>1. pc = "start" /\ registry[s] = {} /\ pc # s
    BY DEF Init, Stages
  <2>2. QED
    BY <2>1 DEF StageInOrder, Past
<1>2. QED
  BY <1>1, InitTypeOK DEF LoadInv, Init, ServesLast

(* A step that loads nothing *)
LEMMA StillLoadInv ==
  ASSUME LoadInv, TypeOK', UNCHANGED <<config, pc, next, registry>>, ServesLast'
  PROVE  LoadInv'
BY DEF LoadInv, StageInOrder, Before, Past, RegisteredBelow, WantedBelow, NameOf,
       Declarations, Passed, Wanted

LEMMA SkipLoadInv ==
  ASSUME LoadInv, TypeOK', NEW s \in Stages, Skip(s)
  PROVE  LoadInv'
<1>1. /\ UNCHANGED <<config, pc, registry, running, webserver>> /\ next' = next + 1
      /\ pc = s /\ ~Wanted(s, Declarations(s)[next])
  BY DEF Skip, AtDeclaration, Loading, Current
<1>2. next \in Nat /\ DOMAIN Declarations(s) \subseteq Nat
  BY ConfigTyped DEF LoadInv, TypeOK
<1>3. WantedBelow(s, next') = WantedBelow(s, next)
  BY <1>1, <1>2 DEF WantedBelow
<1>4. StageInOrder(s)'
  <2>1. RegisteredBelow(s, next)' <=> RegisteredBelow(s, next')
    BY <1>1 DEF RegisteredBelow, WantedBelow, NameOf, Declarations, Wanted
  <2>2. Passed(s)' <=> Passed(s)
    BY <1>1 DEF Passed
  <2>3. ~Before(s)' /\ ~Past(s)'
    BY <1>1 DEF Before, Past, Stages
  <2>4. RegisteredBelow(s, next) => RegisteredBelow(s, next')
    BY <1>3 DEF RegisteredBelow
  <2>5. QED
    BY <1>1, <2>1, <2>2, <2>3, <2>4 DEF LoadInv, StageInOrder
<1>5. ASSUME NEW t \in Stages, t # s PROVE StageInOrder(t)'
  BY <1>1, <1>5 DEF LoadInv, StageInOrder, Before, Past, RegisteredBelow, WantedBelow,
                    NameOf, Declarations, Passed, Wanted
<1>6. QED
  BY <1>1, <1>4, <1>5 DEF LoadInv, ServesLast, Stages

LEMMA RegisterLoadInv ==
  ASSUME LoadInv, TypeOK', NEW s \in Stages, Register(s)
  PROVE  LoadInv'
<1>1. /\ UNCHANGED <<config, pc, running, webserver>> /\ next' = next + 1
      /\ pc = s /\ ~Passed(s) /\ Wanted(s, Declarations(s)[next])
      /\ NameOf(s, next) \notin registry[s]
      /\ registry' = [registry EXCEPT ![s] = @ \cup {NameOf(s, next)}]
  BY DEF Register, Constructing, AtDeclaration, Loading, Current, NameOf
<1>2. /\ next \in Nat /\ DOMAIN Declarations(s) \subseteq Nat
      /\ next \in DOMAIN Declarations(s)
  BY ConfigTyped, AtDeclared DEF LoadInv, TypeOK, Register, Constructing
<1>3. WantedBelow(s, next') = WantedBelow(s, next) \cup {next}
  BY <1>1, <1>2 DEF WantedBelow
<1>4. RegisteredBelow(s, next)
  BY <1>1 DEF LoadInv, StageInOrder
<1>5. /\ registry'[s] = registry[s] \cup {NameOf(s, next)}
      /\ \A t \in Stages : t # s => registry'[t] = registry[t]
  BY <1>1 DEF LoadInv, TypeOK
<1>6. RegisteredBelow(s, next)'
  <2>1. /\ WantedBelow(s, next)' = WantedBelow(s, next')
        /\ \A i : NameOf(s, i)' = NameOf(s, i)
    BY <1>1 DEF WantedBelow, NameOf, Declarations, Wanted
  <2>2. registry'[s] = {NameOf(s, i) : i \in WantedBelow(s, next')}
    BY <1>3, <1>4, <1>5 DEF RegisteredBelow
  <2>3. \A i \in WantedBelow(s, next) : NameOf(s, i) # NameOf(s, next)
    BY <1>1, <1>4 DEF RegisteredBelow
  <2>4. \A i, j \in WantedBelow(s, next') : NameOf(s, i) = NameOf(s, j) => i = j
    BY <1>3, <1>4, <2>3 DEF RegisteredBelow
  <2>5. QED
    BY <2>1, <2>2, <2>4 DEF RegisteredBelow
<1>7. StageInOrder(s)'
  <2>1. ~Before(s)' /\ ~Past(s)'
    BY <1>1 DEF Before, Past, Stages
  <2>2. QED
    BY <1>6, <2>1 DEF StageInOrder
<1>8. ASSUME NEW t \in Stages, t # s PROVE StageInOrder(t)'
  BY <1>1, <1>5, <1>8 DEF LoadInv, StageInOrder, Before, Past, RegisteredBelow, WantedBelow,
                    NameOf, Declarations, Passed, Wanted
<1>9. QED
  BY <1>1, <1>7, <1>8 DEF LoadInv, ServesLast, Stages

LEMMA LoadedLoadInv ==
  ASSUME LoadInv, TypeOK', NEW s \in Stages, Loaded(s)
  PROVE  LoadInv'
<1>1. /\ UNCHANGED <<config, registry, running, webserver>> /\ next' = 1
      /\ pc = s /\ pc' = After(s)
      /\ Passed(s) \/ (config.file[s] = "good" /\ next > Len(config.declared[s]))
  BY DEF Loaded, Loading
<1>2. StageInOrder(s)'
  <2>1. ~Before(s)' /\ pc' # s
    BY <1>1 DEF Before, After, Stages
  <2>2. ASSUME ~Passed(s)
        PROVE  config.file[s] = "good" /\ RegisteredBelow(s, Len(config.declared[s]) + 1)
    <3>1. config.file[s] = "good" /\ next > Len(Declarations(s))
          /\ Declarations(s) = config.declared[s]
      BY <1>1, <2>2 DEF Declarations
    <3>2. /\ Len(Declarations(s)) \in Nat /\ DOMAIN Declarations(s) = 1..Len(Declarations(s))
          /\ next \in Nat
      BY ConfigTyped DEF LoadInv, TypeOK
    <3>3. WantedBelow(s, next) = WantedBelow(s, Len(config.declared[s]) + 1)
      BY <3>1, <3>2 DEF WantedBelow
    <3>4. RegisteredBelow(s, next)
      BY <1>1, <2>2 DEF LoadInv, StageInOrder
    <3>5. QED
      BY <3>1, <3>3, <3>4 DEF RegisteredBelow
  <2>3. (Passed(s)' <=> Passed(s))
        /\ (RegisteredBelow(s, Len(config.declared[s]) + 1)'
              <=> RegisteredBelow(s, Len(config.declared[s]) + 1))
    BY <1>1 DEF Passed, RegisteredBelow, WantedBelow, NameOf, Declarations, Wanted
  <2>4. QED
    BY <1>1, <2>1, <2>2, <2>3 DEF StageInOrder
<1>3. ASSUME NEW t \in Stages, t # s PROVE StageInOrder(t)'
  <2>1. CASE s = "services"
    <3>1. t = "background" /\ pc' = t
      BY <1>1, <1>3, <2>1 DEF Stages, After
    <3>2. registry[t] = {}
      BY <1>1, <2>1, <3>1 DEF LoadInv, StageInOrder, Before
    <3>3. WantedBelow(t, 1)' = {}
      <4>1. WantedBelow(t, 1) = {}
        BY NothingBelowOne DEF LoadInv, TypeOK
      <4>2. QED
        BY <1>1, <4>1 DEF WantedBelow, Declarations, Wanted
    <3>4. RegisteredBelow(t, next)'
      BY <1>1, <3>2, <3>3 DEF RegisteredBelow
    <3>5. ~Before(t)' /\ ~Past(t)'
      BY <3>1 DEF Before, Past
    <3>6. QED
      BY <3>4, <3>5 DEF StageInOrder
  <2>2. CASE s = "background"
    <3>1. t = "services" /\ pc' = "run" /\ Past(t)
      BY <1>1, <1>3, <2>2 DEF Stages, After, Past
    <3>2. ~Before(t)' /\ pc' # t
      BY <3>1 DEF Before
    <3>3. ~Passed(t) => config.file[t] = "good" /\ RegisteredBelow(t, Len(config.declared[t]) + 1)
      BY <3>1 DEF LoadInv, StageInOrder
    <3>4. (Passed(t)' <=> Passed(t))
          /\ (RegisteredBelow(t, Len(config.declared[t]) + 1)'
                <=> RegisteredBelow(t, Len(config.declared[t]) + 1))
      BY <1>1 DEF Passed, RegisteredBelow, WantedBelow, NameOf, Declarations, Wanted
    <3>5. QED
      BY <1>1, <3>2, <3>3, <3>4 DEF StageInOrder
  <2>3. QED
    BY <2>1, <2>2 DEF Stages
<1>4. webserver = "off" /\ running = {}
  BY <1>1 DEF LoadInv, ServesLast, Stages
<1>5. QED
  BY <1>1, <1>2, <1>3, <1>4 DEF LoadInv, ServesLast, After

LEMMA NextLoadInv == LoadInv /\ [Next]_vars => LoadInv'
<1> SUFFICES ASSUME LoadInv, [Next]_vars PROVE LoadInv'
  OBVIOUS
<1>0. TypeOK /\ TypeOK' /\ ServesLast
  BY NextTypeOK DEF LoadInv
<1>1. ASSUME NEW s \in Stages, Skip(s) \/ Register(s) \/ Loaded(s) PROVE LoadInv'
  BY <1>0, <1>1, SkipLoadInv, RegisterLoadInv, LoadedLoadInv
<1>2. ASSUME UNCHANGED <<config, pc, next, registry>>,
             UNCHANGED <<webserver, running>> \/ pc = "wait"
      PROVE  LoadInv'
  BY <1>0, <1>2, StillLoadInv DEF ServesLast
<1>3. ASSUME NEW s \in Stages, ConstructorPanics(s) \/ LoadFails(s) PROVE LoadInv'
  BY <1>2, <1>3 DEF ConstructorPanics, LoadFails
<1>4. CASE BucketExists \/ MakeBucket \/ Return \/ SendSignal \/ ReceiveSignal
  BY <1>2, <1>4 DEF BucketExists, MakeBucket, Return, SendSignal, ReceiveSignal
<1>5. ASSUME NEW b \in ToSet(config.buckets), OtherMakesBucket(b) PROVE LoadInv'
  BY <1>2, <1>5 DEF OtherMakesBucket
<1>6. CASE WebserverStarts
  <2>1. UNCHANGED <<config, pc, next, registry, running>> /\ webserver = "starting"
    BY <1>6 DEF WebserverStarts
  <2>2. ServesLast'
    BY <1>0, <2>1 DEF ServesLast
  <2>3. QED
    BY <1>0, <2>1, <2>2, StillLoadInv
<1>7. ASSUME NEW b \in running, BackgroundEnds(b) PROVE LoadInv'
  <2>1. UNCHANGED <<config, pc, next, registry, webserver>> /\ running # {}
    BY <1>7 DEF BackgroundEnds
  <2>2. ServesLast'
    BY <1>0, <2>1 DEF ServesLast
  <2>3. QED
    BY <1>0, <2>1, <2>2, StillLoadInv
<1>8. CASE Notify
  <2>1. /\ UNCHANGED <<config, registry, running, webserver>> /\ next' = 1
        /\ pc = "start" /\ pc' = "services"
    BY <1>8 DEF Notify, LoadInv
  <2>2. registry["services"] = {} /\ registry["background"] = {}
    BY <2>1 DEF LoadInv, StageInOrder, Before, Stages
  <2>3. StageInOrder("services")'
    <3>1. WantedBelow("services", 1)' = {}
      <4>1. WantedBelow("services", 1) = {}
        BY <1>0, NothingBelowOne DEF TypeOK, Stages
      <4>2. QED
        BY <2>1, <4>1 DEF WantedBelow, Declarations, Wanted
    <3>2. RegisteredBelow("services", next)'
      BY <2>1, <2>2, <3>1 DEF RegisteredBelow
    <3>3. QED
      BY <2>1, <3>2 DEF StageInOrder, Before, Past
  <2>4. StageInOrder("background")'
    BY <2>1, <2>2 DEF StageInOrder, Past
  <2>5. QED
    BY <1>0, <2>1, <2>3, <2>4 DEF LoadInv, ServesLast, Stages
<1>9. CASE RunBackground \/ Listen
  <2>1. /\ UNCHANGED <<config, registry, next>>
        /\ pc \in {"run", "listen"} /\ pc' \in {"listen", "wait"}
    BY <1>9 DEF RunBackground, Listen
  <2>2. ASSUME NEW s \in Stages PROVE StageInOrder(s)'
    <3>1. Past(s) /\ ~Before(s)' /\ pc' # s
      BY <2>1 DEF Past, Before, Stages
    <3>2. ~Passed(s) => config.file[s] = "good" /\ RegisteredBelow(s, Len(config.declared[s]) + 1)
      BY <3>1 DEF LoadInv, StageInOrder
    <3>3. (Passed(s)' <=> Passed(s))
          /\ (RegisteredBelow(s, Len(config.declared[s]) + 1)'
                <=> RegisteredBelow(s, Len(config.declared[s]) + 1))
      BY <2>1 DEF Passed, RegisteredBelow, WantedBelow, NameOf, Declarations, Wanted
    <3>4. QED
      BY <2>1, <3>1, <3>2, <3>3 DEF StageInOrder
  <2>3. QED
    BY <1>0, <2>1, <2>2 DEF LoadInv, ServesLast
<1>10. CASE Restart
  <2>1. /\ pc' = "start" /\ next' = 1 /\ running' = {} /\ webserver' = "off"
        /\ \A s \in Stages : registry'[s] = {} /\ pc' # s
    BY <1>10 DEF Restart, Stages
  <2>2. ASSUME NEW s \in Stages PROVE StageInOrder(s)'
    BY <2>1 DEF StageInOrder, Past
  <2>3. QED
    BY <1>0, <2>1, <2>2 DEF LoadInv, ServesLast
<1>11. CASE UNCHANGED vars
  BY <1>2, <1>11 DEF vars
<1>12. QED
  BY <1>1, <1>3, <1>4, <1>5, <1>6, <1>7, <1>8, <1>9, <1>10, <1>11 DEF Next, Main

(* A registry that holds every wanted declaration once has the declarations'
   names and as many of them. *)
LEMMA AllRegistered ==
  ASSUME config \in Configs, NEW s \in Stages, config.file[s] = "good",
         RegisteredBelow(s, Len(config.declared[s]) + 1)
  PROVE  /\ registry[s] = Names(s)
         /\ Cardinality({i \in DOMAIN Declarations(s) : Wanted(s, Declarations(s)[i])})
              = Cardinality(Names(s))
<1> DEFINE W == {i \in DOMAIN Declarations(s) : Wanted(s, Declarations(s)[i])}
           f == [i \in W |-> NameOf(s, i)]
<1>1. /\ Declarations(s) = config.declared[s]
      /\ Len(Declarations(s)) \in Nat /\ DOMAIN Declarations(s) = 1..Len(Declarations(s))
  BY ConfigTyped DEF Declarations
<1>2. WantedBelow(s, Len(config.declared[s]) + 1) = W
  BY <1>1 DEF WantedBelow
<1>3. Names(s) = {NameOf(s, i) : i \in W}
  BY DEF Names, NameOf, ToSet
<1>4. registry[s] = Names(s)
  BY <1>2, <1>3 DEF RegisteredBelow
<1>5. \A i, j \in W : NameOf(s, i) = NameOf(s, j) => i = j
  BY <1>2 DEF RegisteredBelow
<1>6. IsFiniteSet(W)
  <2>1. IsFiniteSet(1..Len(Declarations(s)))
    BY <1>1, FS_Interval
  <2>2. QED
    BY <1>1, <2>1, FS_Subset
<1>7. f \in Bijection(W, Names(s))
  <2>1. f \in [W -> Names(s)] /\ \A x \in Names(s) : \E i \in W : f[i] = x
    BY <1>3
  <2>2. \A i, j \in W : f[i] = f[j] => i = j
    BY <1>5
  <2>3. QED
    BY <2>1, <2>2, Fun_IsBij
<1>8. Cardinality(W) = Cardinality(Names(s))
  BY <1>6, <1>7, FS_Bijection DEF ExistsBijection
<1>9. QED
  BY <1>4, <1>8

(* A server that serves a request or consumes a message has loaded all that
   it was configured to, for every pair of files and every choice of enabled
   services. *)
THEOREM ServesOnlyLoaded == Spec => []NeverPartlyLoaded
<1>1. LoadInv => NeverPartlyLoaded
  <2> SUFFICES ASSUME LoadInv, webserver # "off" \/ running # {},
                      NEW s \in Stages, ~Passed(s)
               PROVE  /\ config.file[s] = "good"
                      /\ registry[s] = Names(s)
                      /\ Cardinality({i \in DOMAIN Declarations(s) : Wanted(s, Declarations(s)[i])})
                           = Cardinality(Names(s))
    BY DEF NeverPartlyLoaded
  <2>1. config \in Configs /\ Past(s)
    BY DEF LoadInv, TypeOK, ServesLast, Past
  <2>2. config.file[s] = "good" /\ RegisteredBelow(s, Len(config.declared[s]) + 1)
    BY <2>1 DEF LoadInv, StageInOrder
  <2>3. QED
    BY <2>1, <2>2, AllRegistered
<1>2. QED
  BY <1>1, InitLoadInv, NextLoadInv, PTL DEF Spec

-----------------------------------------------------------------------------
(***************************************************************************)
(* The RabbitMQ consumer                                                   *)
(***************************************************************************)

Increasing(s) == \A i, j \in 1..Len(s) : i < j => s[i] < s[j]

(* What the queue holds is newer than what any consumer has, and what a
   consumer has not taken yet is newer than what it has taken. *)
InOrder ==
  /\ Increasing(queue)
  /\ \A c \in Consumers :
       /\ Increasing(buffer[c])
       /\ \A m \in ToSet(queue) : last[c] < m /\ \A n \in ToSet(buffer[c]) : n < m
       /\ \A n \in ToSet(buffer[c]) : last[c] < n
       /\ current[c] \in {NoMessage, last[c]}

(* No script has run for a message that can still be delivered or handled. *)
Fresh ==
  /\ \A m \in Messages : m > published => runs[m] = 0
  /\ \A m \in ToSet(queue) : runs[m] = 0
  /\ \A c \in Consumers : \A m \in InHand(c) : runs[m] = 0

(* A message is in the hands of one consumer only. *)
Apart == \A c, d \in Consumers : c # d => InHand(c) \cap InHand(d) = {}

RabbitDeliveryInv == RabbitTypeOK /\ InOrder /\ Fresh /\ Apart

-----------------------------------------------------------------------------
(* Sequences *)

LEMMA AppendedSet ==
  ASSUME NEW S, NEW s \in Seq(S), NEW e \in S
  PROVE  ToSet(Append(s, e)) = ToSet(s) \cup {e}
<1>1. DOMAIN s = 1..Len(s) /\ Len(s) \in Nat
  OBVIOUS
<1>2. DOMAIN Append(s, e) = 1..(Len(s) + 1)
  OBVIOUS
<1>3. \A i \in 1..(Len(s) + 1) : Append(s, e)[i] = IF i = Len(s) + 1 THEN e ELSE s[i]
  OBVIOUS
<1>4. ToSet(Append(s, e)) \subseteq ToSet(s) \cup {e}
  BY <1>1, <1>2, <1>3 DEF ToSet
<1>5. ToSet(s) \cup {e} \subseteq ToSet(Append(s, e))
  <2>1. ASSUME NEW x \in ToSet(s) PROVE x \in ToSet(Append(s, e))
    <3>1. PICK i \in 1..Len(s) : x = s[i]
      BY <1>1 DEF ToSet
    <3>2. i \in 1..(Len(s) + 1) /\ Append(s, e)[i] = x
      BY <1>1, <1>3, <3>1
    <3>3. QED
      BY <1>2, <3>2 DEF ToSet
  <2>2. e \in ToSet(Append(s, e))
    <3>1. Len(s) + 1 \in 1..(Len(s) + 1) /\ Append(s, e)[Len(s) + 1] = e
      BY <1>1, <1>3
    <3>2. QED
      BY <1>2, <3>1 DEF ToSet
  <2>3. QED
    BY <2>1, <2>2
<1>6. QED
  BY <1>4, <1>5

LEMMA TailSet ==
  ASSUME NEW S, NEW s \in Seq(S), s # <<>>
  PROVE  /\ Head(s) \in S /\ Tail(s) \in Seq(S)
         /\ ToSet(s) = {Head(s)} \cup ToSet(Tail(s))
<1>1. Len(s) \in Nat \ {0} /\ DOMAIN s = 1..Len(s) /\ Head(s) = s[1]
  OBVIOUS
<1>2. Tail(s) \in Seq(S) /\ Len(Tail(s)) = Len(s) - 1 /\ DOMAIN Tail(s) = 1..(Len(s) - 1)
  OBVIOUS
<1>3. \A i \in 1..(Len(s) - 1) : Tail(s)[i] = s[i + 1]
  OBVIOUS
<1>4. ToSet(Tail(s)) \cup {Head(s)} \subseteq ToSet(s)
  BY <1>1, <1>2, <1>3 DEF ToSet
<1>5. ASSUME NEW x \in ToSet(s), x # Head(s) PROVE x \in ToSet(Tail(s))
  <2>1. PICK i \in 1..Len(s) : x = s[i]
    BY <1>1 DEF ToSet
  <2>2. i - 1 \in 1..(Len(s) - 1) /\ Tail(s)[i - 1] = x
    BY <1>1, <1>3, <1>5, <2>1
  <2>3. QED
    BY <1>2, <2>2 DEF ToSet
<1>6. Head(s) \in S
  BY <1>1
<1>7. QED
  BY <1>2, <1>4, <1>5, <1>6

LEMMA AppendIncreasing ==
  ASSUME NEW s \in Seq(Int), NEW e \in Int, Increasing(s), \A x \in ToSet(s) : x < e
  PROVE  Increasing(Append(s, e))
<1>1. \A i \in 1..Len(s) : s[i] < e
  BY DEF ToSet
<1>2. QED
  BY <1>1 DEF Increasing

LEMMA TailIncreasing ==
  ASSUME NEW s \in Seq(Int), s # <<>>, Increasing(s)
  PROVE  Increasing(Tail(s)) /\ \A x \in ToSet(Tail(s)) : Head(s) < x
<1>1. Len(s) \in Nat \ {0} /\ Len(Tail(s)) = Len(s) - 1 /\ Head(s) = s[1]
  OBVIOUS
<1>2. \A i \in 1..(Len(s) - 1) : Tail(s)[i] = s[i + 1]
  OBVIOUS
<1>3. Increasing(Tail(s))
  BY <1>1, <1>2 DEF Increasing
<1>4. \A i \in 1..(Len(s) - 1) : Head(s) < Tail(s)[i]
  BY <1>1, <1>2 DEF Increasing
<1>5. DOMAIN Tail(s) = 1..(Len(s) - 1)
  OBVIOUS
<1>6. QED
  BY <1>3, <1>4, <1>5 DEF ToSet

LEMMA SetOfSeq ==
  ASSUME NEW S, NEW s \in Seq(S)
  PROVE  ToSet(s) \subseteq S
<1>1. DOMAIN s = 1..Len(s)
  OBVIOUS
<1>2. QED
  BY <1>1, ElementOfSeq DEF ToSet

LEMMA EmptySet == ToSet(<<>>) = {} /\ Increasing(<<>>)
BY DEF ToSet, Increasing

-----------------------------------------------------------------------------
(* Types *)

LEMMA RabbitInitTypeOK == RabbitInit => RabbitTypeOK
<1> SUFFICES ASSUME RabbitInit PROVE RabbitTypeOK
  OBVIOUS
<1>1. \A S : <<>> \in Seq(S)
  OBVIOUS
<1>2. QED
  BY <1>1, RabbitAssumption DEF RabbitInit, RabbitTypeOK, Messages, NoMessage

LEMMA RabbitNextTypeOK == RabbitTypeOK /\ [RabbitNext]_(rabbitVars) => RabbitTypeOK'
<1> SUFFICES ASSUME RabbitTypeOK, [RabbitNext]_(rabbitVars) PROVE RabbitTypeOK'
  OBVIOUS
<1> USE RabbitAssumption DEF Messages, NoMessage, Goto, Fail
<1>1. CASE Publish
  <2>1. published \in 0..MaxMessages /\ published' = published + 1 /\ published' \in 0..MaxMessages
    BY <1>1 DEF Publish, RabbitTypeOK
  <2>2. 1..published \subseteq 1..published' /\ 0..published \subseteq 0..published'
    BY <2>1
  <2>3. ASSUME NEW s \in Seq(1..published) PROVE s \in Seq(1..published')
    BY <2>2, SeqMonotonic
  <2>4. queue \in Seq(1..published') /\ published' \in 1..published'
    BY <2>1, <2>3 DEF RabbitTypeOK
  <2>5. queue' \in Seq(1..published')
    BY <1>1, <2>4 DEF Publish
  <2>6. buffer' \in [Consumers -> Seq(1..published')]
    BY <1>1, <2>3 DEF Publish, RabbitTypeOK, link
  <2>7. current' \in [Consumers -> 0..published'] /\ last' \in [Consumers -> 0..published']
    BY <1>1, <2>2 DEF Publish, RabbitTypeOK
  <2>8. received' \in [Consumers -> SUBSET (1..published')]
    BY <1>1, <2>2 DEF Publish, RabbitTypeOK
  <2>9. QED
    BY <1>1, <2>1, <2>5, <2>6, <2>7, <2>8 DEF Publish, RabbitTypeOK, link
<1>2. CASE BrokerRestarts
  BY <1>2 DEF BrokerRestarts, RabbitTypeOK
<1>3. ASSUME NEW c \in Consumers, Deliver(c) PROVE RabbitTypeOK'
  <2>1. queue \in Seq(1..published) /\ queue # <<>> /\ buffer[c] \in Seq(1..published)
    BY <1>3 DEF Deliver, RabbitTypeOK
  <2>2. Head(queue) \in 1..published /\ Tail(queue) \in Seq(1..published)
    BY <2>1, TailSet
  <2>3. Append(buffer[c], Head(queue)) \in Seq(1..published)
    BY <2>1, <2>2
  <2>4. received' \in [Consumers -> SUBSET (1..published)]
    BY <1>3, <2>2 DEF Deliver, RabbitTypeOK
  <2>5. QED
    BY <1>3, <2>2, <2>3, <2>4 DEF Deliver, RabbitTypeOK
<1>4. ASSUME NEW c \in Consumers, Take(c) PROVE RabbitTypeOK'
  <2>1. buffer[c] \in Seq(1..published) /\ buffer[c] # <<>>
    BY <1>4 DEF Take, RabbitTypeOK
  <2>2. Head(buffer[c]) \in 1..published /\ Tail(buffer[c]) \in Seq(1..published)
    BY <2>1, TailSet
  <2>3. Head(buffer[c]) \in 0..published /\ Head(buffer[c]) # 0
    BY <2>2 DEF RabbitTypeOK
  <2>4. QED
    BY <1>4, <2>2, <2>3 DEF Take, RabbitTypeOK, broker
<1>5. ASSUME NEW c \in Consumers, DropBuffer(c) \/ Exit(c) PROVE RabbitTypeOK'
  <2>1. <<>> \in Seq(1..published)
    OBVIOUS
  <2>2. buffer' = [buffer EXCEPT ![c] = <<>>]
    BY <1>5 DEF DropBuffer, Exit
  <2>3. buffer' \in [Consumers -> Seq(1..published)]
    BY <2>1, <2>2 DEF RabbitTypeOK
  <2>4. CASE DropBuffer(c)
    <3>1. UNCHANGED <<published, queue, at, tracing, conn, channel, current, last,
                      received, runs, failures>>
      BY <2>4 DEF DropBuffer, broker
    <3>2. QED
      BY <2>3, <3>1 DEF RabbitTypeOK
  <2>5. CASE Exit(c)
    <3>1. /\ UNCHANGED <<published, queue, received, runs>>
          /\ failures < MaxFailures /\ failures' = failures + 1
          /\ at' = [at EXCEPT ![c] = "off"]
          /\ tracing' = [tracing EXCEPT ![c] = FALSE]
          /\ conn' = [conn EXCEPT ![c] = "none"]
          /\ channel' = [channel EXCEPT ![c] = FALSE]
          /\ current' = [current EXCEPT ![c] = 0]
          /\ last' = [last EXCEPT ![c] = 0]
      BY <2>5 DEF Exit, broker
    <3>2. published \in Nat /\ 0 \in 0..published
      BY DEF RabbitTypeOK
    <3>3. QED
      BY <2>3, <3>1, <3>2 DEF RabbitTypeOK
  <2>6. QED
    BY <1>5, <2>4, <2>5
<1>6. ASSUME NEW c \in Consumers, Handle(c) PROVE RabbitTypeOK'
  <2>1. runs' \in [Messages -> Nat]
    BY <1>6 DEF Handle, RabbitTypeOK
  <2>2. at' = [at EXCEPT ![c] = "consuming"] /\ current' = [current EXCEPT ![c] = 0]
    BY <1>6 DEF Handle
  <2>3. UNCHANGED <<published, queue, tracing, conn, channel, buffer, last, received, failures>>
    BY <1>6 DEF Handle, broker, link
  <2>4. 0 \in 0..published
    BY DEF RabbitTypeOK
  <2>5. QED
    BY <2>1, <2>2, <2>3, <2>4 DEF RabbitTypeOK
<1>7. ASSUME NEW c \in Consumers, HandleRefused(c) PROVE RabbitTypeOK'
  <2>1. at' = [at EXCEPT ![c] = "consuming"] /\ current' = [current EXCEPT ![c] = 0]
    BY <1>7 DEF HandleRefused
  <2>2. channel' = [channel EXCEPT ![c] = FALSE]
    BY <1>7 DEF HandleRefused
  <2>3. UNCHANGED <<published, queue, tracing, conn, buffer, last, received, runs, failures>>
    BY <1>7 DEF HandleRefused, broker
  <2>4. 0 \in 0..published
    BY DEF RabbitTypeOK
  <2>5. QED
    BY <2>1, <2>2, <2>3, <2>4 DEF RabbitTypeOK
<1>8. ASSUME NEW c \in Consumers,
             Disconnect(c) \/ Boot(c) \/ StartTracer(c) \/ Dial(c) \/ DialFails(c)
      PROVE  RabbitTypeOK'
  <2>1. CASE Disconnect(c)
    BY <2>1 DEF Disconnect, RabbitTypeOK, broker
  <2>2. CASE Boot(c)
    BY <2>2 DEF Boot, RabbitTypeOK, broker, link
  <2>3. CASE Dial(c)
    BY <2>3 DEF Dial, RabbitTypeOK, broker
  <2>4. CASE DialFails(c)
    BY <2>4 DEF DialFails, RabbitTypeOK, broker
  <2>5. CASE StartTracer(c)
    <3>1. \A d \in Consumers : tracing'[d] => d = c \/ tracing[d]
      BY <2>5 DEF StartTracer, RabbitTypeOK
    <3>2. tracing' \in [Consumers -> BOOLEAN]
      BY <2>5 DEF StartTracer, RabbitTypeOK
    <3>3. \A d \in Consumers : tracing'[d] => d \in Datadog
      BY <2>5, <3>1 DEF StartTracer, RabbitTypeOK
    <3>4. QED
      BY <2>5, <3>2, <3>3 DEF StartTracer, RabbitTypeOK, broker, link
  <2>6. QED
    BY <1>8, <2>1, <2>2, <2>3, <2>4, <2>5
<1>9. ASSUME NEW c \in Consumers,
             Subscribe(c) \/ SubscribeFails(c) \/ ReturnFromRun(c)
      PROVE  RabbitTypeOK'
  <2>1. CASE Subscribe(c)
    BY <2>1 DEF Subscribe, RabbitTypeOK, broker
  <2>2. CASE SubscribeFails(c)
    <3>1. conn' \in [Consumers -> {"none", "open", "closed"}]
      BY <2>2 DEF SubscribeFails, RabbitTypeOK
    <3>2. QED
      BY <2>2, <3>1 DEF SubscribeFails, RabbitTypeOK, broker
  <2>3. CASE ReturnFromRun(c)
    BY <2>3 DEF ReturnFromRun, RabbitTypeOK, broker, link
  <2>4. QED
    BY <1>9, <2>1, <2>2, <2>3
<1>10. CASE UNCHANGED rabbitVars
  BY <1>10 DEF rabbitVars, RabbitTypeOK
<1>11. QED
  BY <1>1, <1>2, <1>3, <1>4, <1>5, <1>6, <1>7, <1>8, <1>9, <1>10
     DEF RabbitNext, Service, Disturb

(* The variables keep their types: a consumer handles, buffers and has taken
   only what was published. *)
THEOREM RabbitTypeCorrect == RabbitSpec => []RabbitTypeOK
<1>1. QED
  BY RabbitInitTypeOK, RabbitNextTypeOK, PTL DEF RabbitSpec

-----------------------------------------------------------------------------
(* The invariant *)

LEMMA RabbitInitInv == RabbitInit => RabbitDeliveryInv
<1> SUFFICES ASSUME RabbitInit PROVE RabbitDeliveryInv
  OBVIOUS
<1>1. RabbitTypeOK
  BY RabbitInitTypeOK
<1>2. queue = <<>> /\ \A c \in Consumers : buffer[c] = <<>> /\ current[c] = NoMessage
  BY DEF RabbitInit
<1>3. InOrder
  BY <1>2, EmptySet DEF InOrder, RabbitInit
<1>4. \A c \in Consumers : InHand(c) = {}
  BY <1>2, EmptySet DEF InHand
<1>5. Fresh /\ Apart
  BY <1>2, <1>4, EmptySet DEF Fresh, Apart, RabbitInit
<1>6. QED
  BY <1>1, <1>3, <1>5 DEF RabbitDeliveryInv

(* What the types say of the messages in the queue and the buffers *)
LEMMA Ranges ==
  ASSUME RabbitTypeOK
  PROVE  /\ published \in Nat /\ published <= MaxMessages
         /\ ToSet(queue) \subseteq 1..published
         /\ \A c \in Consumers :
              /\ ToSet(buffer[c]) \subseteq 1..published
              /\ InHand(c) \subseteq 1..published
              /\ last[c] \in 0..published /\ current[c] \in 0..published
<1>1. \A s \in Seq(1..published) : ToSet(s) \subseteq 1..published
  BY SetOfSeq
<1>2. ToSet(queue) \subseteq 1..published
  BY <1>1 DEF RabbitTypeOK
<1>3. ASSUME NEW c \in Consumers PROVE ToSet(buffer[c]) \subseteq 1..published
  BY <1>1 DEF RabbitTypeOK
<1>4. published \in Nat /\ published <= MaxMessages
  BY RabbitAssumption DEF RabbitTypeOK
<1>5. \A c \in Consumers : last[c] \in 0..published /\ current[c] \in 0..published
  BY DEF RabbitTypeOK
<1>6. QED
  BY <1>2, <1>3, <1>4, <1>5 DEF InHand, NoMessage

(* A step that moves no message *)
LEMMA StillInv ==
  ASSUME RabbitDeliveryInv, RabbitTypeOK',
         UNCHANGED <<published, queue, buffer, current, last, runs>>
  PROVE  RabbitDeliveryInv'
BY DEF RabbitDeliveryInv, InOrder, Fresh, Apart, InHand, Increasing

(* A step that only loses messages of a consumer *)
LEMMA LossInv ==
  ASSUME RabbitDeliveryInv, RabbitTypeOK', NEW c \in Consumers,
         UNCHANGED <<published, queue, runs>>,
         buffer' \in {buffer, [buffer EXCEPT ![c] = <<>>]},
         current' \in {current, [current EXCEPT ![c] = NoMessage]},
         last' = last \/ (last' = [last EXCEPT ![c] = NoMessage]
                          /\ current' = [current EXCEPT ![c] = NoMessage])
  PROVE  RabbitDeliveryInv'
<1> USE DEF RabbitDeliveryInv
<1>1. \A d \in Consumers : /\ buffer'[d] = buffer[d] \/ buffer'[d] = <<>>
                           /\ current'[d] = current[d] \/ current'[d] = NoMessage
                           /\ last'[d] = last[d] \/ (last'[d] = NoMessage /\ current'[d] = NoMessage)
  <2>1. /\ buffer = [d \in Consumers |-> buffer[d]]
        /\ current = [d \in Consumers |-> current[d]]
        /\ last = [d \in Consumers |-> last[d]]
    BY DEF RabbitTypeOK
  <2>2. \A d \in Consumers : buffer'[d] = buffer[d] \/ buffer'[d] = <<>>
    BY <2>1
  <2>3. \A d \in Consumers : current'[d] = current[d] \/ current'[d] = NoMessage
    BY <2>1
  <2>4. \A d \in Consumers :
          last'[d] = last[d] \/ (last'[d] = NoMessage /\ current'[d] = NoMessage)
    BY <2>1
  <2>5. QED
    BY <2>2, <2>3, <2>4
<1>2. \A d \in Consumers : /\ ToSet(buffer'[d]) \subseteq ToSet(buffer[d])
                           /\ Increasing(buffer[d]) => Increasing(buffer'[d])
  <2> SUFFICES ASSUME NEW d \in Consumers
               PROVE  /\ ToSet(buffer'[d]) \subseteq ToSet(buffer[d])
                      /\ Increasing(buffer[d]) => Increasing(buffer'[d])
    OBVIOUS
  <2>1. CASE buffer'[d] = buffer[d]
    BY <2>1
  <2>2. CASE buffer'[d] = <<>>
    <3>1. ToSet(buffer'[d]) = {} /\ Increasing(buffer'[d])
      BY <2>2, EmptySet
    <3>2. QED
      BY <3>1
  <2>3. QED
    BY <1>1, <2>1, <2>2
<1>3. \A d \in Consumers : InHand(d)' \subseteq InHand(d)
  BY <1>1, <1>2 DEF InHand
<1>4. \A d \in Consumers : Increasing(buffer'[d])
  BY <1>2 DEF InOrder
<1>5. ASSUME NEW d \in Consumers, NEW m \in ToSet(queue)
      PROVE  last'[d] < m /\ \A n \in ToSet(buffer'[d]) : n < m
  BY <1>1, <1>2, Ranges DEF InOrder, NoMessage
<1>6. ASSUME NEW d \in Consumers, NEW n \in ToSet(buffer'[d]) PROVE last'[d] < n
  <2>1. n \in ToSet(buffer[d]) /\ n \in 1..published /\ last[d] < n
    BY <1>2, Ranges DEF InOrder
  <2>2. QED
    BY <1>1, <2>1 DEF NoMessage
<1>7. \A d \in Consumers : current'[d] \in {NoMessage, last'[d]}
  BY <1>1 DEF InOrder
<1>8. InOrder'
  BY <1>4, <1>5, <1>6, <1>7 DEF InOrder, Increasing
<1>9. Fresh' /\ Apart'
  BY <1>3 DEF Fresh, Apart
<1>10. QED
  BY <1>8, <1>9

LEMMA PublishInv ==
  ASSUME RabbitDeliveryInv, RabbitTypeOK', Publish
  PROVE  /\ RabbitDeliveryInv'
         /\ ToSet(queue') = ToSet(queue) \cup {published'}
<1> USE DEF RabbitDeliveryInv
<1>1. /\ published' = published + 1
      /\ queue' = Append(queue, published')
      /\ UNCHANGED <<buffer, current, last, runs>>
  BY DEF Publish, link
<1>2. published' \in Messages /\ published < published'
  <2>1. published \in Nat /\ published < MaxMessages /\ MaxMessages \in Nat
    BY Ranges, RabbitAssumption DEF Publish
  <2>2. QED
    BY <1>1, <2>1 DEF Messages
<1>3. queue \in Seq(Int) /\ published' \in Int
  BY <1>1, Ranges, SeqMonotonic DEF RabbitTypeOK
<1>4. \A x \in 0..published : x < published'
  BY <1>1, Ranges
<1>5. ToSet(queue') = ToSet(queue) \cup {published'}
  BY <1>1, <1>3, AppendedSet
<1>6. Increasing(queue')
  <2>1. \A x \in ToSet(queue) : x < published'
    BY <1>4, Ranges
  <2>2. QED
    BY <1>1, <1>3, <2>1, AppendIncreasing DEF InOrder
<1>7. \A c \in Consumers :
        last[c] < published' /\ \A n \in ToSet(buffer[c]) : n < published'
  BY <1>4, Ranges
<1>8. InOrder'
  BY <1>1, <1>5, <1>6, <1>7 DEF InOrder, Increasing
<1>9. runs[published'] = 0
  BY <1>2 DEF Fresh
<1>10. \A c \in Consumers : InHand(c)' = InHand(c)
  BY <1>1 DEF InHand
<1>11. \A m \in Messages : m > published' => runs[m] = 0
  BY <1>2, Ranges DEF Fresh, Messages
<1>12. Fresh' /\ Apart'
  BY <1>1, <1>5, <1>9, <1>10, <1>11 DEF Fresh, Apart
<1>13. QED
  BY <1>5, <1>8, <1>12

LEMMA RestartInv ==
  ASSUME RabbitDeliveryInv, RabbitTypeOK', BrokerRestarts
  PROVE  RabbitDeliveryInv'
<1> USE DEF RabbitDeliveryInv
<1>1. queue' = <<>> /\ UNCHANGED <<published, buffer, current, last, runs>>
  BY DEF BrokerRestarts
<1>2. ToSet(queue') = {} /\ Increasing(queue')
  BY <1>1, EmptySet
<1>3. \A c \in Consumers : InHand(c)' = InHand(c)
  BY <1>1 DEF InHand
<1>4. InOrder' /\ Fresh' /\ Apart'
  BY <1>1, <1>2, <1>3 DEF InOrder, Fresh, Apart, Increasing
<1>5. QED
  BY <1>4

(* The head of the queue moves to the buffer of a consumer. *)
LEMMA DeliverInv ==
  ASSUME RabbitDeliveryInv, RabbitTypeOK', NEW c \in Consumers, Deliver(c)
  PROVE  /\ RabbitDeliveryInv'
         /\ ToSet(queue) = {Head(queue)} \cup ToSet(queue')
         /\ InHand(c)' = InHand(c) \cup {Head(queue)}
<1> USE DEF RabbitDeliveryInv
<1> DEFINE head == Head(queue)
<1>1. /\ queue # <<>> /\ queue' = Tail(queue)
      /\ buffer' = [buffer EXCEPT ![c] = Append(@, head)]
      /\ UNCHANGED <<published, current, last, runs>>
  BY DEF Deliver
<1>2. /\ queue \in Seq(1..published) /\ buffer[c] \in Seq(1..published)
      /\ queue \in Seq(Int) /\ buffer[c] \in Seq(Int)
  <2>1. queue \in Seq(1..published) /\ buffer[c] \in Seq(1..published)
    BY DEF RabbitTypeOK
  <2>2. published \in Nat
    BY Ranges
  <2>3. 1..published \subseteq Int
    BY <2>2
  <2>4. QED
    BY <2>1, <2>3, SeqMonotonic
<1>3. head \in 1..published /\ ToSet(queue) = {head} \cup ToSet(queue')
  BY <1>1, <1>2, TailSet
<1>4. Increasing(queue') /\ \A m \in ToSet(queue') : head < m
  BY <1>1, <1>2, TailIncreasing DEF InOrder
<1>5. /\ buffer'[c] = Append(buffer[c], head)
      /\ \A d \in Consumers : d # c => buffer'[d] = buffer[d]
  BY <1>1 DEF RabbitTypeOK
<1>6. ToSet(buffer'[c]) = ToSet(buffer[c]) \cup {head}
  BY <1>2, <1>3, <1>5, AppendedSet
<1> HIDE DEF head
<1>7. \A d \in Consumers : last[d] < head /\ \A n \in ToSet(buffer[d]) : n < head
  BY <1>3 DEF InOrder
<1>8. Increasing(buffer'[c])
  <2>1. head \in Int
    BY <1>3
  <2>2. QED
    BY <1>2, <1>5, <1>7, <2>1, AppendIncreasing DEF InOrder
<1>9. InOrder'
  <2>1. ASSUME NEW d \in Consumers, d # c
        PROVE  /\ Increasing(buffer'[d])
               /\ \A m \in ToSet(queue') : last'[d] < m /\ \A n \in ToSet(buffer'[d]) : n < m
               /\ \A n \in ToSet(buffer'[d]) : last'[d] < n
               /\ current'[d] \in {NoMessage, last'[d]}
    BY <1>1, <1>3, <1>5, <2>1 DEF InOrder
  <2>2. /\ Increasing(buffer'[c])
        /\ \A m \in ToSet(queue') : last'[c] < m /\ \A n \in ToSet(buffer'[c]) : n < m
        /\ \A n \in ToSet(buffer'[c]) : last'[c] < n
        /\ current'[c] \in {NoMessage, last'[c]}
    BY <1>1, <1>3, <1>4, <1>6, <1>7, <1>8 DEF InOrder
  <2>3. QED
    BY <1>4, <2>1, <2>2 DEF InOrder, Increasing
<1>10. /\ InHand(c)' = InHand(c) \cup {head}
       /\ \A d \in Consumers : d # c => InHand(d)' = InHand(d)
  BY <1>1, <1>5, <1>6 DEF InHand
<1>11. \A d \in Consumers : head \notin InHand(d)
  <2>1. ASSUME NEW d \in Consumers, head \in InHand(d) PROVE FALSE
    <3>1. head < head \/ (head = current[d] /\ current[d] # NoMessage)
      BY <1>7, <2>1 DEF InHand
    <3>2. head < head
      BY <1>7, <3>1 DEF InOrder
    <3>3. QED
      BY <1>3, <3>2
  <2>2. QED
    BY <2>1
<1>12. Fresh'
  <2>1. runs[head] = 0
    BY <1>3 DEF Fresh
  <2>2. ASSUME NEW d \in Consumers, NEW m \in InHand(d)' PROVE runs[m] = 0
    BY <1>10, <2>1 DEF Fresh
  <2>3. \A m \in ToSet(queue') : runs[m] = 0
    BY <1>3 DEF Fresh
  <2>4. QED
    BY <1>1, <2>2, <2>3 DEF Fresh
<1>13. Apart'
  BY <1>10, <1>11 DEF Apart
<1>14. QED
  BY <1>3, <1>9, <1>10, <1>12, <1>13 DEF head

(* The head of its buffer becomes the message a consumer handles. *)
LEMMA TakeInv ==
  ASSUME RabbitDeliveryInv, RabbitTypeOK', NEW c \in Consumers, Take(c)
  PROVE  /\ RabbitDeliveryInv'
         /\ InHand(c)' = InHand(c)
         /\ last' = [last EXCEPT ![c] = Head(buffer[c])]
         /\ last[c] < Head(buffer[c])
<1> USE DEF RabbitDeliveryInv
<1> DEFINE head == Head(buffer[c])
<1>1. /\ buffer[c] # <<>> /\ current' = [current EXCEPT ![c] = head]
      /\ last' = [last EXCEPT ![c] = head]
      /\ buffer' = [buffer EXCEPT ![c] = Tail(@)]
      /\ UNCHANGED <<published, queue, runs>>
  BY DEF Take, broker
<1>2. buffer[c] \in Seq(1..published) /\ buffer[c] \in Seq(Int)
  BY Ranges, SeqMonotonic DEF RabbitTypeOK
<1>3. /\ buffer'[c] = Tail(buffer[c]) /\ last'[c] = head /\ current'[c] = head
      /\ \A d \in Consumers : d # c => /\ buffer'[d] = buffer[d]
                                       /\ last'[d] = last[d] /\ current'[d] = current[d]
  BY <1>1 DEF RabbitTypeOK
<1>4. head \in 1..published /\ ToSet(buffer[c]) = {head} \cup ToSet(buffer'[c])
  <2>1. buffer[c] \in Seq(1..published) /\ buffer[c] # <<>>
    BY <1>1, <1>2
  <2>2. head \in 1..published /\ ToSet(buffer[c]) = {head} \cup ToSet(Tail(buffer[c]))
    BY ONLY <2>1, TailSet
  <2>3. QED
    BY <1>3, <2>2
<1>5. Increasing(buffer'[c]) /\ \A m \in ToSet(buffer'[c]) : head < m
  BY <1>1, <1>2, <1>3, TailIncreasing DEF InOrder
<1>6. last[c] < head /\ \A m \in ToSet(queue) : head < m
  BY <1>4 DEF InOrder
<1>7. current[c] = NoMessage
  BY DEF Take, RabbitTypeOK
<1> HIDE DEF head
<1>8. \A d \in Consumers : InHand(d)' = InHand(d)
  BY <1>3, <1>4, <1>7 DEF InHand, NoMessage
<1>9. InOrder'
  <2>1. ASSUME NEW d \in Consumers, d # c
        PROVE  /\ Increasing(buffer'[d])
               /\ \A m \in ToSet(queue') : last'[d] < m /\ \A n \in ToSet(buffer'[d]) : n < m
               /\ \A n \in ToSet(buffer'[d]) : last'[d] < n
               /\ current'[d] \in {NoMessage, last'[d]}
    BY <1>1, <1>3, <2>1 DEF InOrder
  <2>2. /\ Increasing(buffer'[c])
        /\ \A m \in ToSet(queue') : last'[c] < m /\ \A n \in ToSet(buffer'[c]) : n < m
        /\ \A n \in ToSet(buffer'[c]) : last'[c] < n
        /\ current'[c] \in {NoMessage, last'[c]}
    BY <1>1, <1>3, <1>4, <1>5, <1>6 DEF InOrder
  <2>3. QED
    BY <1>1, <2>1, <2>2 DEF InOrder, Increasing
<1>10. Fresh' /\ Apart'
  BY <1>1, <1>8 DEF Fresh, Apart
<1>11. QED
  BY <1>1, <1>6, <1>8, <1>9, <1>10 DEF head

(* The message that a consumer has handled is in nobody's hands any more. *)
LEMMA HandleInv ==
  ASSUME RabbitDeliveryInv, RabbitTypeOK', NEW c \in Consumers, Handle(c)
  PROVE  /\ RabbitDeliveryInv'
         /\ current[c] \in Messages \ ToSet(queue) /\ current[c] \in 1..published
         /\ runs[current[c]] = 0
         /\ runs' = [runs EXCEPT ![current[c]] = 1]
<1> USE DEF RabbitDeliveryInv
<1> DEFINE m == current[c]
<1>1. /\ current' = [current EXCEPT ![c] = NoMessage]
      /\ UNCHANGED <<published, queue, buffer, last>>
      /\ runs' = [runs EXCEPT ![m] = @ + 1]
  BY DEF Handle, broker, link
<1>2. m # NoMessage /\ m \in InHand(c)
  BY DEF Handle, RabbitTypeOK, InHand
<1>3. m \in 1..published /\ m \in Messages /\ m = last[c]
  BY <1>2, Ranges, RabbitAssumption DEF Messages, InOrder, NoMessage
<1>4. runs[m] = 0 /\ runs' = [runs EXCEPT ![m] = 1]
  <2>1. runs[m] = 0
    BY <1>2 DEF Fresh
  <2>2. runs' = [runs EXCEPT ![m] = runs[m] + 1]
    BY <1>1
  <2>3. QED
    BY <2>1, <2>2
<1>5. m \notin ToSet(queue) /\ m \notin ToSet(buffer[c])
  BY <1>3 DEF InOrder
<1>6. \A d \in Consumers : d # c => m \notin InHand(d)
  BY <1>2 DEF Apart
<1> HIDE DEF m
<1>7. /\ m \notin InHand(c)' /\ InHand(c)' \subseteq InHand(c)
      /\ \A d \in Consumers : d # c => InHand(d)' = InHand(d)
  <2>1. current'[c] = NoMessage /\ \A d \in Consumers : d # c => current'[d] = current[d]
    BY <1>1 DEF RabbitTypeOK
  <2>2. buffer' = buffer
    BY <1>1
  <2>3. InHand(c)' = ToSet(buffer[c])
    BY <2>1, <2>2 DEF InHand
  <2>4. ToSet(buffer[c]) \subseteq InHand(c)
    BY DEF InHand
  <2>5. \A d \in Consumers : d # c => InHand(d)' = InHand(d)
    BY <2>1, <2>2 DEF InHand
  <2>6. QED
    BY <1>5, <2>3, <2>4, <2>5
<1>8. \A k \in Messages : k # m => runs'[k] = runs[k]
  BY <1>4 DEF RabbitTypeOK
<1>9. InOrder'
  <2>1. UNCHANGED <<queue, buffer, last>>
    BY <1>1
  <2>2. \A d \in Consumers : current'[d] = current[d] \/ current'[d] = NoMessage
    BY <1>1 DEF RabbitTypeOK
  <2>3. QED
    BY <2>1, <2>2 DEF InOrder, Increasing
<1>10. Fresh'
  <2>1. ASSUME NEW k \in Messages, k > published' PROVE runs'[k] = 0
    BY <1>1, <1>3, <1>8, <2>1, Ranges DEF Fresh
  <2>2. 1..published \subseteq Messages
    BY Ranges, RabbitAssumption DEF Messages
  <2>3. \A k \in ToSet(queue') : runs'[k] = 0
    BY <1>1, <1>5, <1>8, <2>2, Ranges DEF Fresh
  <2>4. ASSUME NEW d \in Consumers, NEW k \in InHand(d)' PROVE runs'[k] = 0
    <3>1. k \in InHand(d) /\ k # m
      BY <1>6, <1>7
    <3>2. QED
      BY <1>8, <2>2, <3>1, Ranges DEF Fresh
  <2>5. QED
    BY <2>1, <2>3, <2>4 DEF Fresh
<1>11. Apart'
  BY <1>7 DEF Apart
<1>12. QED
  BY <1>3, <1>4, <1>5, <1>9, <1>10, <1>11 DEF m

LEMMA RabbitNextInv == RabbitDeliveryInv /\ [RabbitNext]_(rabbitVars) => RabbitDeliveryInv'
<1> SUFFICES ASSUME RabbitDeliveryInv, [RabbitNext]_(rabbitVars) PROVE RabbitDeliveryInv'
  OBVIOUS
<1>0. RabbitTypeOK'
  BY RabbitNextTypeOK DEF RabbitDeliveryInv
<1>1. CASE Publish
  BY <1>0, <1>1, PublishInv
<1>2. CASE BrokerRestarts
  BY <1>0, <1>2, RestartInv
<1>3. ASSUME NEW c \in Consumers, Deliver(c) PROVE RabbitDeliveryInv'
  BY <1>0, <1>3, DeliverInv
<1>4. ASSUME NEW c \in Consumers, Take(c) PROVE RabbitDeliveryInv'
  BY <1>0, <1>4, TakeInv
<1>5. ASSUME NEW c \in Consumers, Handle(c) PROVE RabbitDeliveryInv'
  BY <1>0, <1>5, HandleInv
<1>6. ASSUME NEW c \in Consumers, DropBuffer(c) \/ Exit(c) \/ HandleRefused(c)
      PROVE  RabbitDeliveryInv'
  <2>1. /\ UNCHANGED <<published, queue, runs>>
        /\ buffer' \in {buffer, [buffer EXCEPT ![c] = <<>>]}
        /\ current' \in {current, [current EXCEPT ![c] = NoMessage]}
        /\ last' = last \/ (last' = [last EXCEPT ![c] = NoMessage]
                            /\ current' = [current EXCEPT ![c] = NoMessage])
    BY <1>6 DEF DropBuffer, Exit, HandleRefused, broker
  <2>2. QED
    BY <1>0, <2>1, LossInv
<1>7. ASSUME NEW c \in Consumers,
             Disconnect(c) \/ Boot(c) \/ StartTracer(c) \/ Dial(c) \/ DialFails(c)
             \/ Subscribe(c) \/ SubscribeFails(c) \/ ReturnFromRun(c)
      PROVE  RabbitDeliveryInv'
  <2>1. UNCHANGED <<published, queue, buffer, current, last, runs>>
    BY <1>7 DEF Disconnect, Boot, StartTracer, Dial, DialFails, Subscribe,
                SubscribeFails, ReturnFromRun, broker, link
  <2>2. QED
    BY <1>0, <2>1, StillInv
<1>8. CASE UNCHANGED rabbitVars
  BY <1>0, <1>8, StillInv DEF rabbitVars
<1>9. QED
  BY <1>1, <1>2, <1>3, <1>4, <1>5, <1>6, <1>7, <1>8 DEF RabbitNext, Service, Disturb

LEMMA RabbitInvHolds == RabbitSpec => []RabbitDeliveryInv
<1>1. QED
  BY RabbitInitInv, RabbitNextInv, PTL DEF RabbitSpec

-----------------------------------------------------------------------------
(* Order *)

LEMMA NextTakes ==
  RabbitDeliveryInv /\ [RabbitNext]_(rabbitVars) =>
    \A c \in Consumers : last'[c] # NoMessage => last'[c] >= last[c]
<1> SUFFICES ASSUME RabbitDeliveryInv, [RabbitNext]_(rabbitVars), NEW c \in Consumers,
                    last'[c] # NoMessage
             PROVE  last'[c] >= last[c]
  OBVIOUS
<1>1. RabbitTypeOK /\ last[c] \in Nat
  BY Ranges DEF RabbitDeliveryInv
<1>2. ASSUME NEW d \in Consumers, Take(d) PROVE last'[c] >= last[c]
  <2>1. RabbitTypeOK'
    BY <1>1, RabbitNextTypeOK
  <2>2. last' = [last EXCEPT ![d] = Head(buffer[d])] /\ last[d] < Head(buffer[d])
    BY <1>2, <2>1, TakeInv
  <2>0. last = [e \in Consumers |-> last[e]]
    BY <1>1 DEF RabbitTypeOK
  <2>3. last'[d] \in Nat /\ last'[d] = Head(buffer[d])
    <3>1. last'[d] \in 0..published' /\ published' \in Nat
      BY <2>1 DEF RabbitTypeOK
    <3>2. last'[d] = Head(buffer[d])
      BY <2>0, <2>2
    <3>3. QED
      BY <3>1, <3>2
  <2>4. CASE c = d
    BY <1>1, <2>2, <2>3, <2>4
  <2>5. CASE c # d
    <3>1. last'[c] = last[c]
      BY <2>0, <2>2, <2>5
    <3>2. QED
      BY <1>1, <3>1
  <2>6. QED
    BY <2>4, <2>5
<1>3. ASSUME NEW d \in Consumers, Exit(d) PROVE last'[c] >= last[c]
  BY <1>1, <1>3 DEF Exit, RabbitTypeOK
<1>4. CASE UNCHANGED last
  BY <1>1, <1>4
<1>5. QED
  BY <1>2, <1>3, <1>4
     DEF RabbitNext, Service, Disturb, Publish, BrokerRestarts, Deliver,
         DropBuffer, Boot, StartTracer, Dial, Subscribe, Handle, ReturnFromRun,
         Disconnect, DialFails, SubscribeFails, HandleRefused, rabbitVars

(* A consumer takes messages in the order in which they were published, for
   any number of servers, reconnections and restarts: what the broker still
   has is newer than all that any consumer has seen. *)
THEOREM TakesInOrder == RabbitSpec => TakenInOrder
<1>1. RabbitDeliveryInv /\ [RabbitNext]_(rabbitVars) =>
        [\A c \in Consumers : last'[c] # NoMessage => last'[c] >= last[c]]_(rabbitVars)
  BY NextTakes
<1>2. QED
  BY <1>1, RabbitInvHolds, PTL DEF RabbitSpec, TakenInOrder

-----------------------------------------------------------------------------
(* Refinement *)

LEMMA RabbitInitRefines == RabbitInit => AtMostOnceDelivery!Init
<1> SUFFICES ASSUME RabbitInit PROVE AtMostOnceDelivery!Init
  OBVIOUS
<1>1. 1..published = {} /\ \A m \in Messages : runs[m] = 0 /\ DOMAIN runs = Messages
  BY DEF RabbitInit
<1>2. (1..published) \ ToSet(queue) = {}
  BY <1>1
<1>3. DOMAIN runs = Messages
  BY DEF RabbitInit
<1>4. QED
  BY <1>1, <1>2, <1>3 DEF AtMostOnceDelivery!Init

LEMMA RabbitNextRefines ==
  RabbitDeliveryInv /\ [RabbitNext]_(rabbitVars) => [AtMostOnceDelivery!Next]_(AtMostOnceDelivery!vars)
<1> SUFFICES ASSUME RabbitDeliveryInv, [RabbitNext]_(rabbitVars)
             PROVE  AtMostOnceDelivery!Next \/ UNCHANGED AtMostOnceDelivery!vars
  BY DEF AtMostOnceDelivery!vars
<1> USE DEF AtMostOnceDelivery!vars, AtMostOnceDelivery!Next
<1> DEFINE gone == (1..published) \ ToSet(queue)
<1>0. RabbitTypeOK /\ RabbitTypeOK'
  BY RabbitNextTypeOK DEF RabbitDeliveryInv
<1>1. CASE Publish
  <2>1. published' = published + 1 /\ UNCHANGED runs
    BY <1>1 DEF Publish
  <2>2. ToSet(queue') = ToSet(queue) \cup {published'}
    BY <1>0, <1>1, PublishInv
  <2>3. (1..published') = (1..published) \cup {published'} /\ published' \notin 1..published
    BY <1>0, <2>1, Ranges
  <2>4. gone' = gone
    BY <2>2, <2>3
  <2>5. AtMostOnceDelivery!Send
    BY <2>1, <2>3, <2>4 DEF AtMostOnceDelivery!Send
  <2>6. QED
    BY <2>5
<1>2. ASSUME UNCHANGED <<published, runs>>,
             ToSet(queue') \subseteq ToSet(queue)
      PROVE  AtMostOnceDelivery!GiveUp
  BY <1>2 DEF AtMostOnceDelivery!GiveUp
<1>3. CASE BrokerRestarts
  BY <1>2, <1>3, EmptySet DEF BrokerRestarts
<1>4. ASSUME NEW c \in Consumers, Deliver(c) PROVE AtMostOnceDelivery!GiveUp
  <2>1. ToSet(queue') \subseteq ToSet(queue)
    BY <1>0, <1>4, DeliverInv
  <2>2. QED
    BY <1>2, <1>4, <2>1 DEF Deliver
<1>5. ASSUME NEW c \in Consumers, Handle(c) PROVE AtMostOnceDelivery!Handle
  <2>1. /\ current[c] \in gone /\ runs[current[c]] = 0
        /\ runs' = [runs EXCEPT ![current[c]] = 1]
    BY <1>0, <1>5, HandleInv
  <2>2. current[c] \in DOMAIN runs
    BY <1>0, <1>5, HandleInv DEF RabbitTypeOK
  <2>3. UNCHANGED <<published, queue>>
    BY <1>5 DEF Handle, broker
  <2>4. QED
    BY <2>1, <2>2, <2>3 DEF AtMostOnceDelivery!Handle
<1>6. CASE UNCHANGED <<published, queue, runs>>
  BY <1>6
<1>7. QED
  BY <1>1, <1>3, <1>4, <1>5, <1>6
     DEF RabbitNext, Service, Disturb, DropBuffer, Boot, StartTracer, Dial,
         Subscribe, Take, ReturnFromRun, Disconnect, Exit, DialFails, SubscribeFails,
         HandleRefused, rabbitVars, broker

(* The RabbitMQ consumer delivers at most once: for any number of servers
   and any order of deliveries, lost connections and crashes, no script is
   run twice for a message, and none for one the broker still has. *)
THEOREM ConsumerImplementsAtMostOnce == RabbitSpec => ImplementsAtMostOnce
<1>1. QED
  BY RabbitInitRefines, RabbitNextRefines, RabbitInvHolds, PTL
     DEF RabbitSpec, ImplementsAtMostOnce, AtMostOnceDelivery!Spec

-----------------------------------------------------------------------------
(* Losses *)

(* Before the first failure a channel, once opened, stays open, so the
   library has no reason to drop a buffer, unless the consumer's tracer made
   it refuse a message. *)
NothingDropped ==
  failures = 0 =>
    \A c \in Consumers : buffer[c] # <<>> => channel[c] \/ tracing[c]

(* What a consumer has was given to it. *)
Given == \A c \in Consumers : InHand(c) \subseteq received[c]

LossFreeInv == RabbitDeliveryInv /\ Given /\ NothingDropped /\ LossNeedsFailure

LEMMA InitLossFree == RabbitInit => LossFreeInv
<1> SUFFICES ASSUME RabbitInit PROVE LossFreeInv
  OBVIOUS
<1>1. /\ published = 0
      /\ \A c \in Consumers : buffer[c] = <<>> /\ current[c] = NoMessage
  BY DEF RabbitInit
<1>2. 1..published = {}
  BY <1>1
<1>3. Given
  BY <1>1, EmptySet DEF Given, InHand
<1>4. QED
  BY <1>1, <1>2, <1>3, RabbitInitInv DEF LossFreeInv, NothingDropped, LossNeedsFailure

(* Nobody forgets what it was given, and no tracer stops before a failure. *)
LEMMA NextGives ==
  ASSUME RabbitTypeOK, [RabbitNext]_(rabbitVars)
  PROVE  /\ \A c \in Consumers : received[c] \subseteq received'[c]
         /\ Fail \/ \A c \in Consumers : tracing[c] => tracing'[c]
<1>1. ASSUME NEW d \in Consumers, Deliver(d)
      PROVE  /\ \A c \in Consumers : received[c] \subseteq received'[c]
             /\ UNCHANGED tracing
  BY <1>1 DEF Deliver, RabbitTypeOK
<1>2. ASSUME NEW d \in Consumers, StartTracer(d)
      PROVE  /\ \A c \in Consumers : tracing[c] => tracing'[c]
             /\ UNCHANGED received
  BY <1>2 DEF StartTracer, RabbitTypeOK
<1>3. ASSUME NEW d \in Consumers, Exit(d) PROVE Fail /\ UNCHANGED received
  BY <1>3 DEF Exit
<1>4. CASE UNCHANGED <<received, tracing>>
  BY <1>4
<1>5. QED
  BY <1>1, <1>2, <1>3, <1>4
     DEF RabbitNext, Service, Disturb, Publish, BrokerRestarts, DropBuffer, Boot,
         Dial, Subscribe, Take, Handle, HandleRefused, ReturnFromRun,
         Disconnect, DialFails, SubscribeFails, rabbitVars

(* What a consumer comes to have in a step was given to it in that step. *)
LEMMA NextGiven == LossFreeInv /\ [RabbitNext]_(rabbitVars) => Given'
<1> SUFFICES ASSUME LossFreeInv, [RabbitNext]_(rabbitVars), NEW c \in Consumers
             PROVE  InHand(c)' \subseteq received'[c]
  BY DEF Given
<1>0. /\ RabbitDeliveryInv /\ RabbitDeliveryInv' /\ RabbitTypeOK /\ RabbitTypeOK'
      /\ InHand(c) \subseteq received[c] /\ received[c] \subseteq received'[c]
  BY RabbitNextInv, NextGives DEF LossFreeInv, RabbitDeliveryInv, Given
<1>1. ASSUME NEW d \in Consumers, Deliver(d) PROVE InHand(c)' \subseteq received'[c]
  <2>1. CASE c = d
    <3>1. InHand(d)' = InHand(d) \cup {Head(queue)}
      BY <1>0, <1>1, DeliverInv
    <3>2. Head(queue) \in received'[d]
      BY <1>0, <1>1 DEF Deliver, RabbitTypeOK
    <3>3. QED
      BY <1>0, <2>1, <3>1, <3>2
  <2>2. CASE c # d
    <3>1. buffer'[c] = buffer[c] /\ current'[c] = current[c]
      BY <1>0, <1>1, <2>2 DEF Deliver, RabbitTypeOK
    <3>2. QED
      BY <1>0, <3>1 DEF InHand
  <2>3. QED
    BY <2>1, <2>2
<1>2. ASSUME NEW d \in Consumers, Take(d) PROVE InHand(c)' \subseteq received'[c]
  <2>1. CASE c = d
    <3>1. InHand(d)' = InHand(d)
      BY <1>0, <1>2, TakeInv
    <3>2. QED
      BY <1>0, <2>1, <3>1
  <2>2. CASE c # d
    <3>1. buffer'[c] = buffer[c] /\ current'[c] = current[c]
      BY <1>0, <1>2, <2>2 DEF Take, RabbitTypeOK
    <3>2. QED
      BY <1>0, <3>1 DEF InHand
  <2>3. QED
    BY <2>1, <2>2
<1>3. ASSUME buffer'[c] \in {buffer[c], <<>>}, current'[c] \in {current[c], NoMessage}
      PROVE  InHand(c)' \subseteq received'[c]
  <2>1. ToSet(buffer'[c]) \subseteq ToSet(buffer[c])
    BY <1>3, EmptySet
  <2>2. QED
    BY <1>0, <1>3, <2>1 DEF InHand
<1>4. ASSUME NEW d \in Consumers,
             DropBuffer(d) \/ Exit(d) \/ Handle(d) \/ HandleRefused(d)
      PROVE  InHand(c)' \subseteq received'[c]
  <2>1. /\ buffer' \in {buffer, [buffer EXCEPT ![d] = <<>>]}
        /\ current' \in {current, [current EXCEPT ![d] = NoMessage]}
    BY <1>4 DEF DropBuffer, Exit, Handle, HandleRefused, link
  <2>2. buffer'[c] \in {buffer[c], <<>>} /\ current'[c] \in {current[c], NoMessage}
    BY <1>0, <2>1 DEF RabbitTypeOK
  <2>3. QED
    BY <1>3, <2>2
<1>5. CASE UNCHANGED <<buffer, current>>
  BY <1>3, <1>5
<1>6. QED
  BY <1>1, <1>2, <1>4, <1>5
     DEF RabbitNext, Service, Disturb, Publish, BrokerRestarts, Boot, StartTracer,
         Dial, Subscribe, ReturnFromRun, Disconnect, DialFails, SubscribeFails,
         link, rabbitVars

(* A step that fails nothing and leaves the messages where they are *)
LEMMA StillLossFree ==
  ASSUME LossFreeInv, UNCHANGED <<published, queue, buffer, current, runs, failures>>,
         \A c \in Consumers : received[c] \subseteq received'[c]
                              /\ (tracing[c] => tracing'[c]),
         \A c \in Consumers : channel[c] => channel'[c] \/ tracing'[c]
  PROVE  NothingDropped' /\ LossNeedsFailure'
BY RabbitAssumption DEF LossFreeInv, NothingDropped, LossNeedsFailure, Handled, InHand

LEMMA NextLossFree == LossFreeInv /\ [RabbitNext]_(rabbitVars) => LossFreeInv'
<1> SUFFICES ASSUME LossFreeInv, [RabbitNext]_(rabbitVars)
             PROVE  NothingDropped' /\ LossNeedsFailure'
  BY NextGiven, RabbitNextInv DEF LossFreeInv
<1>0. /\ RabbitDeliveryInv /\ RabbitDeliveryInv' /\ RabbitTypeOK /\ RabbitTypeOK'
      /\ \A c \in Consumers : received[c] \subseteq received'[c]
  BY RabbitNextInv, NextGives DEF LossFreeInv, RabbitDeliveryInv
<1>1. ASSUME Fail PROVE NothingDropped' /\ LossNeedsFailure'
  <2>1. failures' # 0
    BY <1>0, <1>1 DEF Fail, RabbitTypeOK
  <2>2. QED
    BY <2>1 DEF NothingDropped, LossNeedsFailure
<1> SUFFICES ASSUME \A c \in Consumers : tracing[c] => tracing'[c]
             PROVE  NothingDropped' /\ LossNeedsFailure'
  BY <1>0, <1>1, NextGives
<1>2. CASE Publish
  <2>1. published' = published + 1 /\ UNCHANGED <<runs, buffer, current,
                                      channel, failures>>
    BY <1>2 DEF Publish, link
  <2>2. ToSet(queue') = ToSet(queue) \cup {published'}
    BY <1>0, <1>2, PublishInv
  <2>3. (1..published') = (1..published) \cup {published'} /\ published' \notin 1..published
    BY <1>0, <2>1, Ranges
  <2>4. (1..published') \ ToSet(queue') = (1..published) \ ToSet(queue)
    BY <2>2, <2>3
  <2>5. QED
    BY <1>0, <2>1, <2>4, RabbitAssumption
       DEF LossFreeInv, NothingDropped, LossNeedsFailure, Handled, InHand
<1>3. ASSUME NEW c \in Consumers, Deliver(c) PROVE NothingDropped' /\ LossNeedsFailure'
  <2>1. /\ UNCHANGED <<published, runs, channel, failures, current>> /\ channel[c]
        /\ \A d \in Consumers : d # c => buffer'[d] = buffer[d]
    BY <1>0, <1>3 DEF Deliver, RabbitTypeOK
  <2>2. /\ ToSet(queue) = {Head(queue)} \cup ToSet(queue')
        /\ InHand(c)' = InHand(c) \cup {Head(queue)}
    BY <1>0, <1>3, DeliverInv
  <2>3. \A d \in Consumers : InHand(d) \subseteq InHand(d)'
    BY <2>1, <2>2 DEF InHand
  <2>4. LossNeedsFailure'
    BY <1>0, <2>1, <2>2, <2>3, RabbitAssumption DEF LossFreeInv, LossNeedsFailure, Handled
  <2>5. NothingDropped'
    BY <2>1 DEF LossFreeInv, NothingDropped
  <2>6. QED
    BY <2>4, <2>5
<1>4. ASSUME NEW c \in Consumers, Take(c) PROVE NothingDropped' /\ LossNeedsFailure'
  <2>1. /\ UNCHANGED <<published, queue, runs, channel, failures>>
        /\ buffer[c] # <<>> /\ buffer' = [buffer EXCEPT ![c] = Tail(@)]
        /\ \A d \in Consumers : d # c => /\ buffer'[d] = buffer[d]
                                         /\ current'[d] = current[d]
    BY <1>0, <1>4 DEF Take, RabbitTypeOK, broker
  <2>2. \A d \in Consumers : InHand(d)' = InHand(d)
    <3>1. InHand(c)' = InHand(c)
      BY <1>0, <1>4, TakeInv
    <3>2. QED
      BY <2>1, <3>1 DEF InHand
  <2>3. NothingDropped'
    BY <2>1 DEF LossFreeInv, NothingDropped
  <2>4. LossNeedsFailure'
    BY <1>0, <2>1, <2>2, RabbitAssumption DEF LossFreeInv, LossNeedsFailure, Handled
  <2>5. QED
    BY <2>3, <2>4
<1>5. ASSUME NEW c \in Consumers, Handle(c) PROVE NothingDropped' /\ LossNeedsFailure'
  <2>1. UNCHANGED <<published, queue, buffer, channel, failures>>
    BY <1>5 DEF Handle, broker, link
  <2>2. current[c] \in Messages /\ runs' = [runs EXCEPT ![current[c]] = 1]
    BY <1>0, <1>5, HandleInv
  <2>3. Handled \cup {current[c]} \subseteq Handled'
    BY <1>0, <2>2 DEF Handled, RabbitTypeOK
  <2>4. \A d \in Consumers : InHand(d) \subseteq InHand(d)' \cup {current[c]}
    BY <1>0, <1>5, <2>1 DEF Handle, InHand, RabbitTypeOK
  <2>5. LossNeedsFailure'
    BY <1>0, <2>1, <2>3, <2>4, RabbitAssumption DEF LossFreeInv, LossNeedsFailure
  <2>6. QED
    BY <2>1, <2>5 DEF LossFreeInv, NothingDropped
<1>6. ASSUME NEW c \in Consumers, UNCHANGED <<published, queue, runs, failures>>,
             tracing[c], c \in Datadog,
             \A d \in Consumers \ {c} : /\ buffer'[d] = buffer[d]
                                         /\ current'[d] = current[d]
                                         /\ channel'[d] = channel[d]
      PROVE  NothingDropped' /\ LossNeedsFailure'
  <2>1. \A d \in Consumers \ {c} : InHand(d)' = InHand(d)
    BY <1>6 DEF InHand
  <2>2. InHand(c) \subseteq received'[c] /\ tracing'[c]
    BY <1>0, <1>6 DEF LossFreeInv, Given
  <2>3. NothingDropped'
    BY <1>6, <2>2 DEF LossFreeInv, NothingDropped
  <2>4. LossNeedsFailure'
    BY <1>0, <1>6, <2>1, <2>2, RabbitAssumption DEF LossFreeInv, LossNeedsFailure, Handled
  <2>5. QED
    BY <2>3, <2>4
<1>7. ASSUME NEW c \in Consumers, DropBuffer(c) PROVE NothingDropped' /\ LossNeedsFailure'
  <2>1. /\ UNCHANGED <<published, queue, runs, failures, current, channel>>
        /\ \A d \in Consumers \ {c} : buffer'[d] = buffer[d]
    BY <1>0, <1>7 DEF DropBuffer, broker, RabbitTypeOK
  <2>2. failures # 0 \/ tracing[c]
    BY <1>7 DEF DropBuffer, LossFreeInv, NothingDropped
  <2>3. CASE failures # 0
    BY <2>1, <2>3 DEF NothingDropped, LossNeedsFailure
  <2>4. CASE tracing[c]
    BY <1>0, <1>6, <2>1, <2>4 DEF RabbitTypeOK
  <2>5. QED
    BY <2>2, <2>3, <2>4
<1>8. ASSUME NEW c \in Consumers, HandleRefused(c)
      PROVE  NothingDropped' /\ LossNeedsFailure'
  <2>1. /\ UNCHANGED <<published, queue, runs, failures, buffer>> /\ tracing[c]
        /\ \A d \in Consumers \ {c} : /\ current'[d] = current[d]
                                       /\ channel'[d] = channel[d]
    BY <1>0, <1>8 DEF HandleRefused, broker, RabbitTypeOK
  <2>2. QED
    BY <1>0, <1>6, <2>1 DEF RabbitTypeOK
<1>9. ASSUME NEW c \in Consumers,
             Boot(c) \/ StartTracer(c) \/ Dial(c) \/ Subscribe(c) \/ ReturnFromRun(c)
      PROVE  NothingDropped' /\ LossNeedsFailure'
  <2>1. /\ UNCHANGED <<published, queue, buffer, current, runs, failures>>
        /\ \A d \in Consumers : channel[d] => channel'[d]
    BY <1>0, <1>9
       DEF Boot, StartTracer, Dial, Subscribe, ReturnFromRun, broker, link, RabbitTypeOK
  <2>2. QED
    BY <1>0, <2>1, StillLossFree
<1>10. CASE UNCHANGED rabbitVars
  BY <1>0, <1>10, StillLossFree DEF rabbitVars
<1>11. QED
  BY <1>1, <1>2, <1>3, <1>4, <1>5, <1>7, <1>8, <1>9, <1>10
     DEF RabbitNext, Service, Disturb, BrokerRestarts, Disconnect, Exit,
         DialFails, SubscribeFails

(* A script's error loses nothing, for any number of servers and messages:
   until a connection, a channel, a process or the broker fails, what left
   the queue is with a consumer, was handled, or was given to a server in
   Datadog mode whose tracer has started.  Without such a server nothing is
   lost. *)
THEOREM NothingLostUntilFailure == RabbitSpec => []LossNeedsFailure
<1>1. LossFreeInv => LossNeedsFailure
  BY DEF LossFreeInv
<1>2. QED
  BY <1>1, InitLossFree, NextLossFree, PTL DEF RabbitSpec
=============================================================================
