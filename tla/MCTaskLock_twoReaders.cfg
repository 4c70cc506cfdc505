\* One writer and two readers.
CONSTANTS
  w1 = w1
  r1 = r1
  r2 = r2
  Free = Free
  Writers = {w1}
  Readers = {r1, r2}
  MaxCalls = 1
SPECIFICATION Spec
CHECK_DEADLOCK FALSE
INVARIANT ReaderWriterExclusion
