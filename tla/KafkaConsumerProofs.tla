------------------------ MODULE KafkaConsumerProofs ------------------------
(***************************************************************************)
(* At-least-once delivery of the Kafka consumer, for any number of         *)
(* servers, messages, failures and rebalances.                             *)
(***************************************************************************)
EXTENDS KafkaConsumer, TLAPS

Below(n) == {m \in Messages : m < n}

(* Of the member that holds the partition: what its claim has handed out is
   handled, and what it has marked is exactly that. *)
SessionInOrder ==
  \A c \in Consumers : owner = c /\ InSession(c) =>
    /\ Below(position[c]) \subseteq Handled \cup missed
    /\ committed <= position[c]
    /\ marked[c] # NoOffset => marked[c] = position[c]

(* What is committed was handled or missed; nothing else was, that had not
   been produced. *)
LogInOrder ==
  /\ Below(committed) \subseteq Handled \cup missed
  /\ Handled \cup missed \subseteq Below(produced)

DeliveryInv == TypeOK /\ SessionInOrder /\ LogInOrder

-----------------------------------------------------------------------------

LEMMA InitTypeOK == Init => TypeOK
BY KafkaAssumption DEF Init, TypeOK, Offsets, Messages, NoOffset

LEMMA NextTypeOK == TypeOK /\ [Next]_vars => TypeOK'
<1> SUFFICES ASSUME TypeOK, [Next]_vars PROVE TypeOK'
  OBVIOUS
<1> USE KafkaAssumption DEF Offsets, Messages, NoOffset
<1>1. CASE Produce
  <2>1. produced \in 0..MaxMessages /\ produced' \in 0..MaxMessages /\ produced <= produced'
    BY <1>1 DEF Produce, TypeOK
  <2>2. committed \in Int /\ \A c \in Consumers : marked[c] \in Int /\ fetched[c] \in Int
    BY DEF TypeOK
  <2>3. committed <= produced' /\ \A c \in Consumers : marked[c] <= produced' /\ fetched[c] <= produced'
    BY <2>1, <2>2 DEF TypeOK
  <2>4. UNCHANGED <<committed, owner, pc, cancelled, ended, position, fetched,
                    marked, runs, missed, failures, rebalances>>
    BY <1>1 DEF Produce, session, counts
  <2>5. produced' \in Offsets /\ committed' <= produced'
    BY <2>1, <2>3, <2>4
  <2>6. \A c \in Consumers : marked'[c] <= produced' /\ position'[c] <= fetched'[c] /\ fetched'[c] <= produced'
    BY <2>3, <2>4 DEF TypeOK
  <2>7. QED
    BY <2>4, <2>5, <2>6 DEF TypeOK
<1>2. ASSUME NEW c \in Consumers, Start(c) \/ ReturnFromClaim(c) \/ Stop(c)
      PROVE  TypeOK'
  <2>1. \E q \in {"loop", "failed", "release", "stopped"} : pc' = [pc EXCEPT ![c] = q]
    BY <1>2 DEF Start, ReturnFromClaim, Stop, Goto
  <2>2. /\ pc' \in [Consumers -> {"off", "new", "failed", "loop", "claim", "handling",
                                  "release", "stopped"}]
        /\ \A d \in Consumers : pc'[d] = "handling" => pc[d] = "handling"
    BY <2>1 DEF TypeOK
  <2>3. UNCHANGED <<broker, cancelled, session, runs, missed, counts>>
    BY <1>2 DEF Start, ReturnFromClaim, Stop
  <2>4. QED
    BY <2>2, <2>3 DEF TypeOK, broker, session, counts
<1>3. ASSUME NEW c \in Consumers, Join(c) PROVE TypeOK'
  <2> DEFINE start == IF committed = NoOffset THEN produced ELSE committed
  <2>1. /\ position' = [position EXCEPT ![c] = start]
        /\ fetched' = [fetched EXCEPT ![c] = start]
        /\ marked' = [marked EXCEPT ![c] = NoOffset]
        /\ ended' = [ended EXCEPT ![c] = FALSE]
        /\ pc' = [pc EXCEPT ![c] = "claim"]
    BY <1>3 DEF Join, Goto
  <2>2. start \in Offsets /\ start <= produced
    BY DEF TypeOK
  <2>3. missed' \subseteq Messages
    BY <1>3 DEF Join, TypeOK
  <2> HIDE DEF start
  <2>4. \A d \in Consumers : position'[d] <= fetched'[d] /\ fetched'[d] <= produced
    BY <2>1, <2>2 DEF TypeOK
  <2>5. \A d \in Consumers : marked'[d] <= produced
    BY <2>1, <2>2 DEF TypeOK
  <2>6. /\ owner' \in Consumers \cup {Nobody}
        /\ UNCHANGED <<produced, committed, cancelled, runs, failures, rebalances>>
    BY <1>3 DEF Join, counts
  <2>7. /\ position' \in [Consumers -> Offsets] /\ fetched' \in [Consumers -> Offsets]
        /\ marked' \in [Consumers -> Offsets \cup {NoOffset}]
        /\ ended' \in [Consumers -> BOOLEAN]
    BY <2>1, <2>2 DEF TypeOK
  <2>8. /\ pc' \in [Consumers -> {"off", "new", "failed", "loop", "claim", "handling",
                                  "release", "stopped"}]
        /\ \A d \in Consumers : pc'[d] = "handling" => position'[d] < fetched'[d]
    BY <1>3, <2>1 DEF Join, TypeOK
  <2> HIDE DEF Offsets, Messages, NoOffset
  <2>9. /\ produced' \in Offsets /\ committed' \in Offsets \cup {NoOffset}
        /\ cancelled' \in [Consumers -> BOOLEAN]
        /\ committed' <= produced'
        /\ runs' \in [Messages -> Nat]
        /\ failures' \in 0..MaxFailures /\ rebalances' \in 0..MaxRebalances
    BY <2>6 DEF TypeOK
  <2>10. /\ \A d \in Consumers : marked'[d] <= produced'
         /\ \A d \in Consumers : position'[d] <= fetched'[d] /\ fetched'[d] <= produced'
    BY <2>4, <2>5, <2>6
  <2>11. QED
    BY <2>3, <2>6, <2>7, <2>8, <2>9, <2>10 DEF TypeOK
<1>4. ASSUME NEW c \in Consumers, Fetch(c) PROVE TypeOK'
  <2>1. /\ fetched' = [fetched EXCEPT ![c] = fetched[c] + 1] /\ fetched[c] < produced
        /\ UNCHANGED <<produced, committed, owner, pc, cancelled, ended, position,
                       marked, runs, missed, failures, rebalances>>
    BY <1>4 DEF Fetch, broker, counts
  <2>2. fetched' \in [Consumers -> Offsets]
    BY <2>1 DEF TypeOK
  <2>3. \A d \in Consumers : fetched[d] <= fetched'[d] /\ fetched'[d] <= produced
    BY <2>1 DEF TypeOK
  <2>4. \A d \in Consumers : /\ position'[d] <= fetched'[d] /\ fetched'[d] <= produced'
                             /\ pc'[d] = "handling" => position'[d] < fetched'[d]
    BY <2>1, <2>2, <2>3 DEF TypeOK
  <2> HIDE DEF Offsets, Messages, NoOffset
  <2>5. QED
    BY <2>1, <2>2, <2>4 DEF TypeOK
<1>5. ASSUME NEW c \in Consumers,
             Rebalance(c) \/ Evict(c) \/ Expire(c) \/ LearnEviction(c)
      PROVE  TypeOK'
  <2>1. CASE Rebalance(c)
    BY <2>1 DEF Rebalance, TypeOK, broker
  <2>2. CASE Evict(c)
    BY <2>2 DEF Evict, TypeOK, session
  <2>3. CASE Expire(c)
    BY <2>3 DEF Expire, TypeOK, session, counts
  <2>4. CASE LearnEviction(c)
    BY <2>4 DEF LearnEviction, TypeOK, broker, counts
  <2>5. QED
    BY <1>5, <2>1, <2>2, <2>3, <2>4
<1>6. ASSUME NEW c \in Consumers, AutoCommit(c) \/ Release(c) PROVE TypeOK'
  <2>1. Commit(c)
    BY <1>6 DEF AutoCommit, Release
  <2>2. committed' \in Offsets \cup {NoOffset} /\ committed' <= produced
    BY <2>1 DEF Commit, TypeOK
  <2>3. UNCHANGED <<produced, cancelled, session, runs, missed, counts>>
    BY <1>6 DEF AutoCommit, Release
  <2>4. owner' \in Consumers \cup {Nobody} /\ (pc' = pc \/ pc' = [pc EXCEPT ![c] = "loop"])
    BY <1>6 DEF AutoCommit, Release, Goto, TypeOK
  <2>5. QED
    BY <2>2, <2>3, <2>4 DEF TypeOK, session, counts
<1>7. ASSUME NEW c \in Consumers, Shutdown(c) \/ Exit(c) \/ Boot(c) PROVE TypeOK'
  <2>1. CASE Shutdown(c)
    <3>1. (InSession(c) \/ ended[c]) \in BOOLEAN
      BY DEF InSession, TypeOK
    <3>2. ended' \in [Consumers -> BOOLEAN]
      BY <2>1, <3>1 DEF Shutdown, TypeOK
    <3>3. QED
      BY <2>1, <3>2 DEF Shutdown, TypeOK, broker
  <2>2. CASE Exit(c)
    BY <2>2 DEF Exit, Goto, TypeOK, broker, session
  <2>3. CASE Boot(c)
    BY <2>3 DEF Boot, Goto, TypeOK, broker, counts
  <2>4. QED
    BY <1>7, <2>1, <2>2, <2>3
<1>8. ASSUME NEW c \in Consumers, Take(c) PROVE TypeOK'
  BY <1>8 DEF Take, Goto, TypeOK, broker, session, counts
<1>9. ASSUME NEW c \in Consumers, Handle(c) PROVE TypeOK'
  <2>1. /\ position[c] \in Messages /\ position[c] + 1 \in Offsets
        /\ position[c] + 1 <= fetched[c] /\ position[c] + 1 <= produced
    BY <1>9 DEF Handle, TypeOK
  <2>2. /\ position' = [position EXCEPT ![c] = position[c] + 1]
        /\ marked' = [marked EXCEPT ![c] = position[c] + 1]
        /\ pc' = [pc EXCEPT ![c] = "claim"]
        /\ UNCHANGED <<produced, committed, owner, cancelled, ended, fetched, missed,
                       failures, rebalances>>
    BY <1>9 DEF Handle, Goto, broker, counts
  <2>3. runs' \in [Messages -> Nat]
    BY <1>9 DEF Handle, TypeOK
  <2>4. QED
    BY <2>1, <2>2, <2>3 DEF TypeOK
<1>10. CASE UNCHANGED vars
  BY <1>10 DEF vars, TypeOK
<1>11. QED
  BY <1>1, <1>2, <1>3, <1>4, <1>5, <1>6, <1>7, <1>8, <1>9, <1>10
     DEF Next, Library, Service, Disturb

(* The variables keep their types: a claim hands out only what was fetched,
   and fetches only what was produced. *)
THEOREM TypeCorrect == Spec => []TypeOK
<1>1. QED
  BY InitTypeOK, NextTypeOK, PTL DEF Spec

-----------------------------------------------------------------------------

LEMMA InitInv == Init => DeliveryInv
<1> SUFFICES ASSUME Init PROVE DeliveryInv
  OBVIOUS
<1>1. TypeOK
  BY InitTypeOK
<1>2. \A c \in Consumers : ~InSession(c)
  BY DEF Init, InSession
<1>3. Handled = {} /\ missed = {} /\ Below(committed) = {}
  BY DEF Init, Handled, Below, Messages, NoOffset
<1>4. QED
  BY <1>1, <1>2, <1>3 DEF DeliveryInv, SessionInOrder, LogInOrder

(* A step changes Handled only by handling a message, and only upwards *)
LEMMA HandledGrows ==
  ASSUME TypeOK, NEW c \in Consumers, Handle(c)
  PROVE  /\ position[c] \in Below(produced)
         /\ Handled' = Handled \cup {position[c]}
<1>1. position[c] \in Messages /\ position[c] < produced
  BY KafkaAssumption DEF Handle, TypeOK, Messages, Offsets
<1>2. \A m \in Messages : runs'[m] > 0 <=> (runs[m] > 0 \/ m = position[c])
  BY <1>1 DEF Handle, TypeOK
<1>3. QED
  BY <1>1, <1>2 DEF Handled, Below

LEMMA NextInv == DeliveryInv /\ [Next]_vars => DeliveryInv'
<1> SUFFICES ASSUME DeliveryInv, [Next]_vars PROVE DeliveryInv'
  OBVIOUS
<1>1. TypeOK /\ TypeOK'
  BY NextTypeOK DEF DeliveryInv
<1>2. SUFFICES (SessionInOrder /\ LogInOrder)'
  BY <1>1 DEF DeliveryInv
<1>3. committed \in Int /\ produced \in Nat
  BY <1>1 DEF TypeOK, Offsets, NoOffset
<1>4. \A c \in Consumers : position[c] \in Nat /\ position[c] <= produced
  BY <1>1, KafkaAssumption DEF TypeOK, Offsets
<1>5. CASE Produce
  BY <1>1, <1>3, <1>5 DEF Produce, DeliveryInv, SessionInOrder, LogInOrder, InSession,
                          Handled, Below, session, counts, Messages
<1>6. ASSUME NEW c \in Consumers,
             \/ Start(c) \/ Fetch(c) \/ LearnEviction(c) \/ Stop(c) \/ Take(c)
             \/ ReturnFromClaim(c) \/ Rebalance(c) \/ Shutdown(c) \/ Exit(c) \/ Boot(c)
      PROVE  (SessionInOrder /\ LogInOrder)'
  <2>1. /\ UNCHANGED <<produced, committed, owner, position, marked, runs, missed>>
        /\ \A d \in Consumers : InSession(d)' => InSession(d)
    BY <1>1, <1>6 DEF Start, Fetch, LearnEviction, Stop, Take, ReturnFromClaim,
                      Rebalance, Shutdown, Exit, Boot, Goto, InSession, TypeOK,
                      broker, session
  <2>2. QED
    BY <2>1 DEF DeliveryInv, SessionInOrder, LogInOrder, Handled, Below
<1>7. ASSUME NEW c \in Consumers, Evict(c) \/ Expire(c)
      PROVE  (SessionInOrder /\ LogInOrder)'
  <2>1. /\ UNCHANGED <<produced, committed, pc, position, marked, runs, missed>>
        /\ owner' = Nobody
    BY <1>7 DEF Evict, Expire, session
  <2>2. QED
    BY <2>1, KafkaAssumption DEF DeliveryInv, SessionInOrder, LogInOrder, Handled,
                                 Below
<1>8. ASSUME NEW c \in Consumers, Join(c) PROVE (SessionInOrder /\ LogInOrder)'
  <2>1. /\ UNCHANGED <<produced, committed, runs>> /\ Handled' = Handled
        /\ owner' = c /\ owner = Nobody
        /\ marked'[c] = NoOffset
        /\ missed' = IF committed = NoOffset THEN Below(produced) ELSE missed
    BY <1>1, <1>8 DEF Join, Handled, Below, TypeOK
  <2>2. position'[c] = IF committed = NoOffset THEN produced ELSE committed
    BY <1>1, <1>8 DEF Join, TypeOK
  <2>3. committed = NoOffset \/ committed >= 0
    BY <1>1 DEF TypeOK, Offsets
  <2>4. Below(position'[c]) \subseteq Handled \cup missed' /\ committed <= position'[c]
    BY <1>3, <2>1, <2>2 DEF DeliveryInv, LogInOrder, NoOffset
  <2>5. LogInOrder'
    BY <2>1, <2>3 DEF DeliveryInv, LogInOrder, Below, NoOffset, Messages
  <2>6. QED
    BY <2>1, <2>4, <2>5, KafkaAssumption DEF SessionInOrder, Below
<1>9. ASSUME NEW c \in Consumers, AutoCommit(c) \/ Release(c)
      PROVE  (SessionInOrder /\ LogInOrder)'
  <2>1. /\ UNCHANGED <<produced, position, marked, runs, missed>> /\ Handled' = Handled
        /\ owner' \in {owner, Nobody} /\ InSession(c)
        /\ \A d \in Consumers : InSession(d)' => InSession(d)
        /\ committed' = IF owner = c /\ marked[c] # NoOffset THEN marked[c] ELSE committed
    BY <1>1, <1>9
       DEF AutoCommit, Release, Commit, Goto, InSession, Handled, TypeOK, session
  <2>2. committed' # committed => owner = c /\ committed' = position[c]
    BY <2>1 DEF DeliveryInv, SessionInOrder
  <2>3. Below(committed') \subseteq Handled \cup missed
    BY <2>1, <2>2 DEF DeliveryInv, SessionInOrder, LogInOrder
  <2>4. \A d \in Consumers : owner' = d => owner = d
    BY <2>1, KafkaAssumption
  <2>5. SessionInOrder'
    BY <1>4, <2>1, <2>2, <2>4 DEF DeliveryInv, SessionInOrder, Below
  <2>6. QED
    BY <2>1, <2>3, <2>5 DEF DeliveryInv, LogInOrder, Below
<1>10. ASSUME NEW c \in Consumers, Handle(c) PROVE (SessionInOrder /\ LogInOrder)'
  <2>1. /\ UNCHANGED <<produced, committed, owner, missed>>
        /\ position' = [position EXCEPT ![c] = position[c] + 1]
        /\ marked' = [marked EXCEPT ![c] = position[c] + 1]
        /\ InSession(c)
        /\ \A d \in Consumers : InSession(d)' => InSession(d)
    BY <1>1, <1>10 DEF Handle, Goto, InSession, TypeOK, broker
  <2>2. position[c] \in Below(produced) /\ Handled' = Handled \cup {position[c]}
    BY <1>1, <1>10, HandledGrows
  <2>3. Below(position[c] + 1) \subseteq Below(position[c]) \cup {position[c]}
    BY <1>4 DEF Below, Messages
  <2>4. position'[c] = position[c] + 1 /\ marked'[c] = position[c] + 1
    BY <1>1, <2>1 DEF TypeOK
  <2>5. \A d \in Consumers : d # c => position'[d] = position[d] /\ marked'[d] = marked[d]
    BY <1>1, <2>1 DEF TypeOK
  <2>6. ASSUME NEW d \in Consumers, owner' = d, InSession(d)'
        PROVE  /\ Below(position'[d]) \subseteq Handled' \cup missed'
               /\ committed' <= position'[d]
               /\ marked'[d] # NoOffset => marked'[d] = position'[d]
    <3>1. /\ Below(position[d]) \subseteq Handled \cup missed
          /\ committed <= position[d]
          /\ marked[d] # NoOffset => marked[d] = position[d]
      BY <2>1, <2>6 DEF DeliveryInv, SessionInOrder
    <3>2. CASE d = c
      BY <1>3, <1>4, <2>1, <2>2, <2>3, <2>4, <3>1, <3>2
    <3>3. CASE d # c
      BY <2>1, <2>2, <2>5, <3>1, <3>3
    <3>4. QED
      BY <3>2, <3>3
  <2>7. LogInOrder'
    BY <2>1, <2>2 DEF DeliveryInv, LogInOrder, Below
  <2>8. QED
    BY <2>6, <2>7 DEF SessionInOrder, Below
<1>11. CASE UNCHANGED vars
  BY <1>11 DEF vars, DeliveryInv, SessionInOrder, LogInOrder, InSession, Handled,
               Below
<1>12. QED
  BY <1>5, <1>6, <1>7, <1>8, <1>9, <1>10, <1>11 DEF Next, Library, Service, Disturb

LEMMA InvHolds == Spec => []DeliveryInv
<1>1. QED
  BY InitInv, NextInv, PTL DEF Spec

-----------------------------------------------------------------------------
(* Refinement *)

LEMMA InitRefines == Init => AtLeastOnceDelivery!Init
<1> SUFFICES ASSUME Init PROVE AtLeastOnceDelivery!Init
  OBVIOUS
<1>1. Handled = {} /\ Below(committed) = {} /\ Below(produced) = {} /\ missed = {}
  BY DEF Init, Handled, Below, Messages, NoOffset
<1>2. QED
  BY <1>1 DEF AtLeastOnceDelivery!Init, Below

LEMMA NextRefines ==
  DeliveryInv /\ DeliveryInv' /\ [Next]_vars
    => [AtLeastOnceDelivery!Next]_AtLeastOnceDelivery!vars
<1> SUFFICES ASSUME DeliveryInv, DeliveryInv', [Next]_vars
             PROVE  AtLeastOnceDelivery!Next \/ UNCHANGED AtLeastOnceDelivery!vars
  OBVIOUS
<1> USE DEF AtLeastOnceDelivery!Next, AtLeastOnceDelivery!vars
<1>1. committed \in Int /\ produced \in Nat
  BY DEF DeliveryInv, TypeOK, Offsets, NoOffset
<1>2. Handled \subseteq Below(produced) /\ missed \subseteq Below(produced)
  BY DEF DeliveryInv, LogInOrder
<1>3. CASE Produce
  <2>1. produced' = produced + 1 /\ UNCHANGED <<committed, runs, missed>>
    BY <1>3 DEF Produce
  <2>2. Below(produced) \subseteq Below(produced')
    BY <1>1, <2>1 DEF Below, Messages
  <2>3. AtLeastOnceDelivery!Send
    BY <2>1, <2>2 DEF AtLeastOnceDelivery!Send, Below, Handled
  <2>4. QED
    BY <2>3
<1>4. ASSUME NEW c \in Consumers, Join(c)
      PROVE  AtLeastOnceDelivery!Next \/ UNCHANGED AtLeastOnceDelivery!vars
  <2>1. /\ UNCHANGED <<produced, committed, runs>>
        /\ missed' = IF committed = NoOffset THEN Below(produced) ELSE missed
    BY <1>4 DEF Join, Below
  <2>2. CASE committed = NoOffset
    <3>1. Below(committed) = {}
      BY <2>2 DEF Below, Messages, NoOffset
    <3>2. AtLeastOnceDelivery!Miss
      BY <1>2, <2>1, <2>2, <3>1 DEF AtLeastOnceDelivery!Miss, Below, Handled
    <3>3. QED
      BY <3>2
  <2>3. CASE committed # NoOffset
    BY <2>1, <2>3 DEF Handled
  <2>4. QED
    BY <2>2, <2>3
<1>5. ASSUME NEW c \in Consumers, AutoCommit(c) \/ Release(c)
      PROVE  AtLeastOnceDelivery!Next \/ UNCHANGED AtLeastOnceDelivery!vars
  <2>1. /\ UNCHANGED <<produced, runs, missed>>
        /\ InSession(c)
        /\ committed' = IF owner = c /\ marked[c] # NoOffset THEN marked[c] ELSE committed
    BY <1>5 DEF AutoCommit, Release, Commit, InSession
  <2>2. committed' \in Int /\ committed <= committed'
    BY <1>1, <2>1 DEF DeliveryInv, SessionInOrder, TypeOK, Offsets, NoOffset
  <2>3. Below(committed) \subseteq Below(committed')
    BY <1>1, <2>2 DEF Below, Messages
  <2>4. Below(committed') \subseteq Handled \cup missed
    BY <2>1 DEF DeliveryInv, LogInOrder, Below, Handled
  <2>5. AtLeastOnceDelivery!GiveUp
    BY <2>1, <2>3, <2>4 DEF AtLeastOnceDelivery!GiveUp, Below, Handled
  <2>6. QED
    BY <2>5
<1>6. ASSUME NEW c \in Consumers, Handle(c)
      PROVE  AtLeastOnceDelivery!Next \/ UNCHANGED AtLeastOnceDelivery!vars
  <2>1. UNCHANGED <<produced, committed, missed>>
    BY <1>6 DEF Handle, broker
  <2>2. position[c] \in Below(produced) /\ Handled' = Handled \cup {position[c]}
    BY <1>6, HandledGrows DEF DeliveryInv
  <2>3. AtLeastOnceDelivery!Handle
    BY <1>2, <2>1, <2>2 DEF AtLeastOnceDelivery!Handle, Below
  <2>4. QED
    BY <2>3
<1>7. ASSUME NEW c \in Consumers,
             \/ Start(c) \/ Fetch(c) \/ LearnEviction(c) \/ Stop(c) \/ Take(c)
             \/ ReturnFromClaim(c) \/ Rebalance(c) \/ Shutdown(c) \/ Exit(c) \/ Boot(c)
             \/ Evict(c) \/ Expire(c)
      PROVE  UNCHANGED AtLeastOnceDelivery!vars
  <2>1. UNCHANGED <<produced, committed, runs, missed>>
    BY <1>7 DEF Start, Fetch, LearnEviction, Stop, Take, ReturnFromClaim, Rebalance,
                Shutdown, Exit, Boot, Evict, Expire, broker
  <2>2. QED
    BY <2>1 DEF Handled
<1>8. CASE UNCHANGED vars
  BY <1>8 DEF vars, Handled
<1>9. QED
  BY <1>3, <1>4, <1>5, <1>6, <1>7, <1>8 DEF Next, Library, Service, Disturb

(* The Kafka consumer delivers at least once: for any number of servers in
   the group and any order of rebalances, evictions and crashes, a message
   is committed only after its script was run, or was there before the group
   had committed anything; and a commit is never taken back. *)
THEOREM ConsumerImplementsAtLeastOnce == Spec => ImplementsAtLeastOnce
<1>1. QED
  BY InitRefines, NextRefines, InvHolds, PTL
     DEF Spec, ImplementsAtLeastOnce, AtLeastOnceDelivery!Spec

-----------------------------------------------------------------------------
(* Repetitions *)

(* What a session of c would commit when it ends now *)
Settled(c) == IF marked[c] = NoOffset THEN committed ELSE marked[c]

(* Before the first failure only the member that holds the partition is in a
   session; it is past everything handled and will commit all of it before
   another member's session starts. *)
Orderly ==
  failures = 0 =>
    /\ \A c \in Consumers : ~cancelled[c]
    /\ \A c \in Consumers : InSession(c) =>
         /\ owner = c
         /\ Handled \subseteq Below(position[c])
         /\ Handled \subseteq Below(Settled(c))
    /\ (\A c \in Consumers : ~InSession(c)) => Handled \subseteq Below(committed)

OnceInv == TypeOK /\ Orderly /\ OnceWithoutFailure

LEMMA InitOnceInv == Init => OnceInv
<1> SUFFICES ASSUME Init PROVE OnceInv
  OBVIOUS
<1>1. TypeOK
  BY InitTypeOK
<1>2. Handled = {}
  BY DEF Init, Handled
<1>3. \A c \in Consumers : ~InSession(c) /\ ~cancelled[c]
  BY DEF Init, InSession
<1>4. \A m \in Messages : runs[m] <= 1
  BY DEF Init
<1>5. QED
  BY <1>1, <1>2, <1>3, <1>4 DEF OnceInv, Orderly, OnceWithoutFailure

(* Failures are only counted. *)
LEMMA NoFailureBefore ==
  ASSUME TypeOK, [Next]_vars, failures' = 0
  PROVE  failures = 0
<1> USE KafkaAssumption
<1>1. failures \in Nat
  BY DEF TypeOK
<1>2. failures' = failures \/ failures' = failures + 1
  BY DEF Next, Produce, Library, Start, Fetch, LearnEviction, Release, Service, Stop,
         Take, Handle, ReturnFromClaim, Disturb, Rebalance, Evict, AutoCommit,
         Shutdown, Exit, Join, Expire, Boot, counts, vars
<1>3. QED
  BY <1>1, <1>2

(* Steps that leave alone what Orderly is about. *)
LEMMA OrderlyUntouched ==
  ASSUME OnceInv, failures = 0, failures' = 0,
         UNCHANGED <<committed, position, marked, runs>>,
         \A c \in Consumers : /\ cancelled'[c] => cancelled[c]
                              /\ InSession(c)' <=> InSession(c)
                              /\ InSession(c) => owner' = owner
  PROVE  Orderly' /\ OnceWithoutFailure'
<1>1. Handled' = Handled
  BY DEF Handled
<1>2. \A c \in Consumers : Settled(c)' = Settled(c)
  BY DEF Settled
<1>3. QED
  BY <1>1, <1>2 DEF OnceInv, Orderly, OnceWithoutFailure, Below

LEMMA NextOnceInv == OnceInv /\ [Next]_vars => OnceInv'
<1> SUFFICES ASSUME OnceInv, [Next]_vars PROVE OnceInv'
  OBVIOUS
<1> USE KafkaAssumption
<1>1. TypeOK /\ TypeOK'
  BY NextTypeOK DEF OnceInv
<1>2. SUFFICES ASSUME failures' = 0 PROVE Orderly' /\ OnceWithoutFailure'
  BY <1>1 DEF OnceInv, Orderly, OnceWithoutFailure
<1>3. failures = 0
  BY <1>1, <1>2, NoFailureBefore
<1>4. failures + 1 # 0
  BY <1>3
<1>5. CASE Produce \/ UNCHANGED vars
  BY <1>2, <1>3, <1>5, OrderlyUntouched
     DEF Produce, session, counts, vars, InSession
<1>6. ASSUME NEW c \in Consumers,
             Start(c) \/ Stop(c) \/ Take(c) \/ ReturnFromClaim(c)
      PROVE  Orderly' /\ OnceWithoutFailure'
  <2>1. \A d \in Consumers : InSession(d)' <=> InSession(d)
    BY <1>1, <1>6 DEF Start, Stop, Take, ReturnFromClaim, Goto, InSession, TypeOK
  <2>2. QED
    BY <1>2, <1>3, <1>6, <2>1, OrderlyUntouched
       DEF Start, Stop, Take, ReturnFromClaim, broker, session, counts
<1>7. ASSUME NEW c \in Consumers, Fetch(c) \/ Rebalance(c) \/ LearnEviction(c)
      PROVE  Orderly' /\ OnceWithoutFailure'
  BY <1>2, <1>3, <1>7, OrderlyUntouched
     DEF Fetch, Rebalance, LearnEviction, InSession, broker, counts
<1>8. ASSUME NEW c \in Consumers, Expire(c) PROVE Orderly' /\ OnceWithoutFailure'
  <2>1. \A d \in Consumers : ~InSession(d)
    BY <1>3, <1>8 DEF Expire, OnceInv, Orderly
  <2>2. QED
    BY <1>2, <1>3, <1>8, <2>1, OrderlyUntouched DEF Expire, InSession, session,
                                                    counts
<1>9. ASSUME NEW c \in Consumers, Boot(c) PROVE Orderly' /\ OnceWithoutFailure'
  <2>1. \A d \in Consumers : /\ InSession(d)' <=> InSession(d)
                             /\ cancelled'[d] => cancelled[d]
    BY <1>1, <1>9 DEF Boot, Goto, InSession, TypeOK
  <2>2. QED
    BY <1>2, <1>3, <1>9, <2>1, OrderlyUntouched DEF Boot, broker, counts
<1>10. ASSUME NEW c \in Consumers, Evict(c) \/ Shutdown(c) \/ Exit(c) PROVE FALSE
  <2>1. ~cancelled[c]
    BY <1>3 DEF OnceInv, Orderly
  <2>2. QED
    BY <1>2, <1>4, <1>10, <2>1 DEF Evict, Shutdown, Exit
<1>11. ASSUME NEW c \in Consumers, Join(c) PROVE Orderly' /\ OnceWithoutFailure'
  <2>1. \A d \in Consumers : ~InSession(d)
    BY <1>3, <1>11 DEF Join, OnceInv, Orderly
  <2>2. Handled \subseteq Below(committed) /\ Handled' = Handled
    BY <1>3, <1>11, <2>1 DEF Join, OnceInv, Orderly, Handled
  <2>3. \A d \in Consumers : InSession(d)' => d = c
    BY <1>1, <1>11, <2>1 DEF Join, Goto, InSession, TypeOK
  <2>4. /\ marked'[c] = NoOffset /\ committed' = committed /\ owner' = c
        /\ committed # NoOffset => position'[c] = committed
    BY <1>1, <1>11 DEF Join, TypeOK
  <2>5. committed = NoOffset => Handled = {}
    BY <2>2 DEF Below, NoOffset, Messages
  <2>6. Handled' \subseteq Below(position'[c])
    BY <2>2, <2>4, <2>5
  <2>7. Handled' \subseteq Below(Settled(c)')
    BY <2>2, <2>4 DEF Settled
  <2>8. InSession(c)'
    BY <1>1, <1>11 DEF Join, Goto, InSession, TypeOK
  <2>9. \A d \in Consumers : ~cancelled'[d]
    BY <1>3, <1>11 DEF Join, OnceInv, Orderly
  <2>10. OnceWithoutFailure'
    BY <1>3, <1>11 DEF Join, OnceInv, OnceWithoutFailure
  <2>11. QED
    BY <2>3, <2>4, <2>6, <2>7, <2>8, <2>9, <2>10 DEF Orderly, Below
<1>12. ASSUME NEW c \in Consumers, AutoCommit(c) \/ Release(c)
       PROVE  Orderly' /\ OnceWithoutFailure'
  <2>1. InSession(c)
    BY <1>12 DEF AutoCommit, Release, InSession
  <2>2. owner = c /\ Handled \subseteq Below(position[c]) /\ Handled \subseteq Below(Settled(c))
    BY <1>3, <2>1 DEF OnceInv, Orderly
  <2>3. committed' = Settled(c)
    BY <1>12, <2>2 DEF AutoCommit, Release, Commit, Settled
  <2>4. Handled' = Handled /\ marked' = marked /\ position' = position
    BY <1>12 DEF AutoCommit, Release, Handled, session
  <2>5. Settled(c)' = Settled(c)
    BY <2>3, <2>4 DEF Settled
  <2>6. \A d \in Consumers : InSession(d)' => d = c /\ owner' = c
    <3>1. \A d \in Consumers : InSession(d) => d = c
      BY <1>3, <2>2 DEF OnceInv, Orderly
    <3>2. CASE AutoCommit(c)
      BY <2>2, <3>1, <3>2 DEF AutoCommit, InSession
    <3>3. CASE Release(c)
      BY <1>1, <3>1, <3>3 DEF Release, Goto, InSession, TypeOK
    <3>4. QED
      BY <1>12, <3>2, <3>3
  <2>7. (\A d \in Consumers : ~cancelled'[d]) /\ OnceWithoutFailure'
    BY <1>3, <1>12 DEF AutoCommit, Release, OnceInv, Orderly, OnceWithoutFailure
  <2>8. QED
    BY <2>2, <2>3, <2>4, <2>5, <2>6, <2>7 DEF Orderly, Below
<1>13. ASSUME NEW c \in Consumers, Handle(c) PROVE Orderly' /\ OnceWithoutFailure'
  <2> DEFINE m == position[c]
  <2>1. InSession(c) /\ InSession(c)'
    BY <1>1, <1>13 DEF Handle, Goto, InSession, TypeOK
  <2>2. owner = c /\ Handled \subseteq Below(m)
    BY <1>3, <2>1 DEF OnceInv, Orderly
  <2>3. m \in Messages /\ m \in Nat
    BY <1>1, <1>13 DEF Handle, TypeOK, Offsets, Messages
  <2>4. runs[m] = 0
    BY <1>1, <2>2, <2>3 DEF Below, Handled, TypeOK
  <2>5. runs' = [runs EXCEPT ![m] = runs[m] + 1] /\ position'[c] = m + 1 /\ marked'[c] = m + 1
    BY <1>1, <1>13 DEF Handle, TypeOK
  <2> HIDE DEF m
  <2>6. OnceWithoutFailure'
    BY <1>1, <1>3, <2>3, <2>4, <2>5 DEF OnceInv, OnceWithoutFailure, TypeOK
  <2>7. Handled' \subseteq Handled \cup {m}
    BY <1>1, <2>5 DEF Handled, TypeOK
  <2>8. Handled' \subseteq Below(m + 1)
    BY <2>2, <2>3, <2>7 DEF Below, Messages
  <2>9. Settled(c)' = m + 1
    BY <2>3, <2>5 DEF Settled, NoOffset
  <2>10. \A d \in Consumers : InSession(d)' => d = c
    BY <1>1, <1>3, <1>13, <2>2 DEF Handle, Goto, InSession, TypeOK, OnceInv, Orderly
  <2>11. owner' = c /\ \A d \in Consumers : ~cancelled'[d]
    BY <1>3, <1>13, <2>2 DEF Handle, broker, OnceInv, Orderly
  <2>12. QED
    BY <2>1, <2>5, <2>6, <2>8, <2>9, <2>10, <2>11 DEF Orderly, Below
<1>14. QED
  BY <1>5, <1>6, <1>7, <1>8, <1>9, <1>10, <1>11, <1>12, <1>13
     DEF Next, Library, Service, Disturb

(* Rebalances alone make no script run twice, for any number of servers,
   messages and rebalances: the session that gives the partition up commits
   all it has handled before the next one starts. *)
THEOREM HandlesOnce == Spec => []OnceWithoutFailure
<1>1. OnceInv => OnceWithoutFailure
  BY DEF OnceInv
<1>2. QED
  BY <1>1, InitOnceInv, NextOnceInv, PTL DEF Spec
=============================================================================
