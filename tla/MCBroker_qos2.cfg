\* QoS 2 publishers whose handlers run on two io threads: one repeats its packets,
\* two use the same identifier, one reconnects.
CONSTANTS
  t1 = t1
  t2 = t2
  w1 = w1
  a = a
  b = b
  m1 = m1
  m2 = m2
  Sessions = {1, 2}
  IoThreads = {t1, t2}
  Writers = {w1}
  Listener = Listener
  Clients = {a, b}
  NoClient = NoClient
  Broadcast = Broadcast
  Topics = {Gps}
  Gps = Gps
  PacketIds = {1}
  Msgs = {m1, m2}
  NoMsg = NoMsg
  Garbage = Garbage
  Malformed = {}
  Oversize = {}
  Environments <- QoS2Peers
  StartsAfter <- NobodyWaits
  MaxRetained = 1
  MaxWire = 6
SPECIFICATION Spec
SYMMETRY Symmetry
CHECK_DEADLOCK FALSE
INVARIANTS AnsweredOnce ForwardedOnce
