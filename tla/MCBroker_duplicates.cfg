\* Two subscribers, one of which publishes.
CONSTANTS
  t1 = t1
  w1 = w1
  a = a
  b = b
  m1 = m1
  m2 = m2
  Sessions = {1, 2}
  IoThreads = {t1}
  Writers = {w1}
  Listener = Listener
  Clients = {a, b}
  NoClient = NoClient
  Broadcast = Broadcast
  Topics = {Gps}
  Gps = Gps
  PacketIds = {1}
  Msgs = {m1, m2}
  NoMsg = NoMsg
  Garbage = Garbage
  Malformed = {}
  Oversize = {}
  Environments <- PublishToTwoPeers
  StartsAfter <- NobodyWaits
  MaxRetained = 1
  MaxWire = 4
SPECIFICATION Spec
CHECK_DEADLOCK FALSE
INVARIANT DeliveredAtMostOnce
