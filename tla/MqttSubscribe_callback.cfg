\* A callback for a lost or recovered connection that subscribes synchronously.
SPECIFICATION LiveSpec
CONSTANTS
  Callers = {}
  Yielder = y
  Filters <- MCWild
  Topics <- MCTopics
  Fns = {"f"}
  Before <- MCBefore
  Ops = {"sync"}
  CallsFrom = {"lost", "back"}
  MaxCalls = 1
  MaxMsgs = 0
  MaxFaults = 1
PROPERTY CallsReturn
CHECK_DEADLOCK FALSE
