\* Two requests, waited for or not, one failure, one repeated reply, a cache and a queue of one.
SPECIFICATION Spec
CONSTANTS
  Kinds = {"THING", "TOPO_GET", "TOPO", "LOGIN", "LOGOUT"}
  thing_reply_opt = TRUE
  MSGCACHE_MAXLEN = 1
  DISPATCH_MAXLEN = 1
  MaxRequests = 2
  MaxFaults = 1
  MaxDups = 1
INVARIANTS TypeOK OwnAnswer AnsweredInTime LoginedMeansGranted CacheBounded AnsweredNotCached
