\* Shutdown by the operator, SIGINT or SIGTERM, at any moment of the main loop.
\* Once every client is gone the server waits for input: no deadlock check.
CONSTANTS
  Clients = {a, b}
  PIPE = 2
  MaxSaid = 0
  Interrupted = {a}
  Killable = {}
  MayClose = TRUE
  Signals = 1
  NoMsg = NoMsg
SPECIFICATION FairSpec
INVARIANTS LiveClientsReachable SessionShape
PROPERTY ShutdownEndsClients
CHECK_DEADLOCK FALSE
