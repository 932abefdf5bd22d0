\* Two senders and two consumers on a ring of two slots: it fills, wraps and empties;
\* the waits of s2 may also end for no reason.
CONSTANTS
  Senders = {s1, s2}
  Consumers = {c1, c2}
  BUFFER_SIZE = 2
  MaxPackets = 3
  Restless = {s2}
  None = None
SPECIFICATION FairSpec
INVARIANTS TypeOK RingConsistent AcksEarned
PROPERTIES ImplementsQueue WaitEnds
