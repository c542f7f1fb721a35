\* Two threads, three calls, two keys in the second of two rows, a failure and two losses of power.
SPECIFICATION Spec
CONSTANTS
  Threads = {t1, t2}
  Keys = {k1, k2}
  Vals = {v1, v2}
  Hash <- MCHash
  TABLE_COL_SIZE = 2
  TABLE_ROW_SIZE = 2
  MaxCalls = 3
  MaxFaults = 1
  MaxCrashes = 2
SYMMETRY Symmetry
INVARIANTS TypeOK MapKept OneItemEach
CHECK_DEADLOCK FALSE
