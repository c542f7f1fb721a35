\* Two sessions, two commands, two threads that reply, one of each other kind, one fault.
SPECIFICATION Spec
CONSTANTS
  Repliers = {r1, r2}
  Callers = {c1}
  CmThreads = {t1, t2}
  Addrs = {a1, a2}
  COMMAND_LIST_MAXLEN = 1
  MaxCommands = 2
  MaxFaults = 1
  MaxOpens = 2
INVARIANTS
  TypeOK
  CountExact
  RepliedInTime
  ClosedUnderNobody
  ClosedMeansReleased
  MutexExclusion
  SomebodyLeaves
SYMMETRY Symmetry
CHECK_DEADLOCK FALSE
