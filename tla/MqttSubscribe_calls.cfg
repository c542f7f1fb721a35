\* Two callers and callbacks that call, two calls, a message of either qos, one failure.
SPECIFICATION Spec
CONSTANTS
  Callers = {c1, c2}
  Yielder = y
  Filters <- MCWild
  Topics <- MCTopics
  Fns = {"f"}
  Before <- MCBefore
  Ops = {"sync", "unsub"}
  CallsFrom = {"message"}
  MaxCalls = 2
  MaxMsgs = 1
  MaxFaults = 1
SYMMETRY CallerSymmetry
INVARIANTS TypeOK DeliveredToAll ConfirmedMeansGranted NoStrayWaiters
CHECK_DEADLOCK FALSE
