\* Two clients chat; one may be killed at any moment.
\* Once every client is gone the server waits for input: no deadlock check.
CONSTANTS
  Clients = {a, b}
  PIPE = 2
  MaxSaid = 2
  Interrupted = {}
  Killable = {b}
  MayClose = FALSE
  Signals = 0
  NoMsg = NoMsg
SPECIFICATION Spec
INVARIANTS TypeOK EveryoneServed LinesInOrder
CHECK_DEADLOCK FALSE
