\* An unanswered and an answered request, waited for or not.
SPECIFICATION FairSpec
CONSTANTS
  Kinds = {"THING", "LOGIN_BATCH"}
  thing_reply_opt = TRUE
  MSGCACHE_MAXLEN = 1
  DISPATCH_MAXLEN = 1
  MaxRequests = 2
  MaxFaults = 0
  MaxDups = 0
PROPERTIES EventuallyReturns EventuallySettled ReplyHeard
