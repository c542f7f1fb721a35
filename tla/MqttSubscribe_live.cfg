\* One caller and callbacks that call, two calls, a message of either qos that may
\* find no handler, one failure.
SPECIFICATION LiveSpec
CONSTANTS
  Callers = {c1}
  Yielder = y
  Filters <- MCWild
  Topics <- MCTopics
  Fns = {"f"}
  Before <- MCBeforeWild
  Ops = {"sync", "local", "unsub"}
  CallsFrom = {"message", "default", "event"}
  MaxCalls = 2
  MaxMsgs = 1
  MaxFaults = 1
PROPERTIES CallsReturn 
CHECK_DEADLOCK FALSE
