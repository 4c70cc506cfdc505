\* Two writers and one reader: more contention than the one writer and one
\* reader BrokerParticipant.cpp's copy of the lock has.
CONSTANTS
  w1 = w1
  w2 = w2
  r1 = r1
  Free = Free
  Writers = {w1, w2}
  Readers = {r1}
  MaxCalls = 2
SPECIFICATION Spec
SYMMETRY Symmetry
CHECK_DEADLOCK FALSE
INVARIANTS TypeOK WriterExclusion ReaderWriterExclusion UniqueNumbers
PROPERTIES OwnerStep ImplementsLock
