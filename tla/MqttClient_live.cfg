\* One yielder, one publish, four failures: the back-off reaches its limit.
SPECIFICATION FairSpec
CONSTANTS
  Yielders = {y1}
  Publishers = {p1}
  Msgs = {m1}
  Qos = {1}
  None = None
  REPUB_NUM_MAX = 1
  PACKET_ID_MAX = 5
  PROBE_MAX = 1
  INTERVAL_MIN = 1
  INTERVAL_MAX = 3
  CONN_TRIES = 2
  MaxFaults = 4
  MaxWire = 0
PROPERTIES EventuallyReconnects HalfOpenNoticed EventuallyDelivered BackoffMonotone
