\* A late acknowledgement of an earlier packet.
CONSTANTS
  Senders = {s1}
  Consumers = {c1}
  BUFFER_SIZE = 5
  MaxPackets = 2
  Restless = {}
  None = None
SPECIFICATION Spec
PROPERTY DocAckForThisPacket
