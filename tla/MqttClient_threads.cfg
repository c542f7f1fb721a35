\* Two yielding threads and one publisher that asks for every qos: lock_yield,
\* the probe counter, the events.
SPECIFICATION Spec
CONSTANTS
  Yielders = {y1, y2}
  Publishers = {p1}
  Msgs = {m1, m2}
  Qos = {0, 1, 2}
  None = None
  REPUB_NUM_MAX = 1
  PACKET_ID_MAX = 2
  PROBE_MAX = 1
  INTERVAL_MIN = 1
  INTERVAL_MAX = 3
  CONN_TRIES = 1
  MaxFaults = 2
  MaxWire = 0
SYMMETRY ThreadSymmetry
INVARIANTS YieldExclusion ProbesBounded ConnectedHasSession
PROPERTY ReconnectAfterDisconnect
