CONSTANTS
  ta = ta tb = tb tc = tc td = td
  Free = Free
  Reusable = Reusable
  Threads <- MCThreads
  Hash <- MCHash
  Workloads <- MCWorkloads
  BulkSize = 3
  BlockSize = 2
  PoolSize = 2
  HeapBlocks = 1
  IndexSize = 2
  MaxIndexes = 2
  IndexMod = 16
  HashSize = 4
  MaxTables = 3
  MaxProducers = 4
  MaxSpins = 1
SPECIFICATION FairSpec
INVARIANTS
  TypeOK PermitsAreElements WakeupsMatchSleepers BlockInOnePlace NothingLeaks BlocksStayUsable
  LookupsFind ElementsIndexed OneProducerPerThread TablesKeepRoom
PROPERTIES
  ImplementsQueue NoElementLeftBehind
