\* A client leaves while the server handles a Message for it.
\* Once every client is gone the server waits for input: no deadlock check.
CONSTANTS
  Clients = {a, b}
  PIPE = 2
  MaxSaid = 1
  Interrupted = {a}
  Killable = {}
  MayClose = FALSE
  Signals = 0
  NoMsg = NoMsg
SPECIFICATION Spec
INVARIANT DocSurvivesLeaving
CHECK_DEADLOCK FALSE
