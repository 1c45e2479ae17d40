\* Two servers, one of them in Datadog mode.  Nothing happens any more when all
\* messages are handled or lost and the bounds are reached.
SPECIFICATION RabbitFairSpec
CONSTANTS
  Consumers = {q1, q2}
  Datadog = {q2}
  MaxMessages = 3
  MaxFailures = 3
INVARIANTS
  LossNeedsFailure
PROPERTIES
  ImplementsAtMostOnce
  TakenInOrder
  QueueIsConsumed
CHECK_DEADLOCK FALSE
