\* One io thread; the subscriber is there before the publisher and the sample.
CONSTANTS
  t1 = t1
  w1 = w1
  a = a
  b = b
  m1 = m1
  m2 = m2
  Sessions = {1, 2}
  IoThreads = {t1}
  Writers = {w1}
  Listener = Listener
  Clients = {a, b}
  NoClient = NoClient
  Broadcast = Broadcast
  Topics = {Gps}
  Gps = Gps
  PacketIds = {1}
  Msgs = {m1, m2}
  NoMsg = NoMsg
  Garbage = Garbage
  Malformed = {}
  Oversize = {}
  Environments <- OrderPeers
  StartsAfter <- SubscriberFirst
  MaxRetained = 1
  MaxWire = 6
SPECIFICATION FairSpec
CHECK_DEADLOCK FALSE
PROPERTIES Answered Delivered
