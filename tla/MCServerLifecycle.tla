------------------------- MODULE MCServerLifecycle -------------------------
(* Small instances of ServerLifecycle for TLC. *)
EXTENDS ServerLifecycle

Decl(n, t) == [name |-> n, type |-> t, valid |-> TRUE]

(* Two services; one name twice; a type that only the other manager knows;
   one that creates buckets; a configuration that does not decode *)
MCServices == {
  <<Decl("db", "mysql"), Decl("cache", "redis")>>,
  <<Decl("db", "mysql"), Decl("db", "postgresql")>>,
  <<Decl("q", "kafka-consumer")>>,
  <<Decl("files", "minio")>>,
  <<[Decl("cache", "redis") EXCEPT !.valid = FALSE]>> }

(* Consumers of which some are not enabled; a name that is declared twice; a
   producer where a consumer is expected *)
MCBackground == {
  <<Decl("in", "kafka-consumer"), Decl("out", "rabbitmq-consumer")>>,
  <<Decl("in", "rabbitmq-consumer"), Decl("in", "kafka-consumer")>>,
  <<Decl("out", "kafka-consumer"), Decl("in", "kafka-producer")>> }

MCFiles == {"absent", "broken", "good"}

MCConfigs == {
  [file |-> [services |-> f, background |-> g],
   declared |-> [services |-> s, background |-> b],
   enabled |-> e,
   buckets |-> <<"in", "out">>] :
    f \in MCFiles, g \in MCFiles, s \in MCServices, b \in MCBackground,
    e \in {{}, {"in"}, {"in", "out"}} }
=============================================================================
