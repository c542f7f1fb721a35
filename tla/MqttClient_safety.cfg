\* Two publishers and a socket that can die.
SPECIFICATION Spec
CONSTANTS
  Yielders = {y1}
  Publishers = {p1, p2}
  Msgs = {m1, m2}
  Qos = {1}
  None = None
  REPUB_NUM_MAX = 2
  PACKET_ID_MAX = 3
  PROBE_MAX = 1
  INTERVAL_MIN = 1
  INTERVAL_MAX = 3
  CONN_TRIES = 1
  MaxFaults = 1
  MaxWire = 1
SYMMETRY Symmetry
INVARIANTS TypeOK NoSilentLoss
PROPERTY ImplementsAtLeastOnce
