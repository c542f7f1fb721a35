\* One thread, no failures: set two keys of a row, delete the first.
SPECIFICATION Spec
CONSTANTS
  Threads = {t1}
  Keys = {k1, k2}
  Vals = {v1, v2}
  Hash <- MCHash
  TABLE_COL_SIZE = 2
  TABLE_ROW_SIZE = 2
  MaxCalls = 3
  MaxFaults = 0
  MaxCrashes = 0
INVARIANT StoreIsMap
CHECK_DEADLOCK FALSE
