\* Two servers.  Nothing happens any more when all messages are handled, or no
\* service is left, and the bounds are reached.
SPECIFICATION FairSpec
CONSTANTS
  Consumers = {k1, k2}
  Nobody = Nobody
  MaxMessages = 2
  MaxFailures = 2
  MaxRebalances = 2
INVARIANTS
  OnceWithoutFailure
PROPERTIES
  ImplementsAtLeastOnce
  MessagesHandled
CHECK_DEADLOCK FALSE
