\* Two writers, a publisher, and a subscriber whose connection may break; or one
\* writer, two subscribers and samples, and the exit of the process.
CONSTANTS
  t1 = t1
  w1 = w1
  w2 = w2
  a = a
  b = b
  m1 = m1
  m2 = m2
  Sessions = {1, 2}
  IoThreads = {t1}
  Writers = {w1, w2}
  Listener = Listener
  Clients = {a, b}
  NoClient = NoClient
  Broadcast = Broadcast
  Topics = {Gps}
  Gps = Gps
  PacketIds = {1}
  Msgs = {m1, m2}
  NoMsg = NoMsg
  Garbage = Garbage
  Malformed = {m2}
  Oversize = {m2}
  Environments <- SubscribePeers
  StartsAfter <- NobodyWaits
  MaxRetained = 1
  MaxWire = 4
SPECIFICATION Spec
SYMMETRY Symmetry
CHECK_DEADLOCK FALSE
INVARIANTS TypeOK SessionsAlive OnlySubscribers SampleAtMostOnce SubackBeforePublish
