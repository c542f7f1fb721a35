---------------------------- MODULE EnosRequest ----------------------------
(***************************************************************************)
(* Requests from the device model to the cloud and the way back of their   *)
(* replies (src/dev_model): IOT_EnOS_Report and the synchronous sub-device *)
(* calls of impl_enos.c, the cache of open requests (dm_message_cache.c),  *)
(* the replies of dm_msg_process.c and dm_message.c, the queue to the      *)
(* application (dm_ipc.c) and iotx_dm_dispatch (dm_api.c).                 *)
(*                                                                         *)
(* Threads.  One caller is inside IOT_EnOS_Report: ctx->mutex is held from *)
(* its first step to its last.  The cm_yield thread of a gateway build     *)
(* handles replies.  The thread in IOT_EnOS_Yield dispatches.  The mutexes *)
(* of the cache, of the queue and of the synchronous list are each held    *)
(* within one step, except while dm_msg_cache_tick walks the cache.        *)
(*                                                                         *)
(* Time is abstract: the life time of a cache node and the semaphore wait  *)
(* run out at any moment.                                                  *)
(***************************************************************************)
EXTENDS Integers, Sequences, FiniteSets

CONSTANTS
  Kinds,                 \* the kinds of request the application makes
  thing_reply_opt,       \* DM_OPT_DOWNSTREAM_THING_REPLY
  MSGCACHE_MAXLEN,       \* CONFIG_MSGCACHE_QUEUE_MAXLEN
  DISPATCH_MAXLEN,       \* CONFIG_DISPATCH_QUEUE_MAXLEN
  MaxRequests,           \* bound: requests made
  MaxFaults,             \* bound: allocations and writes that fail
  MaxDups                \* bound: replies delivered once more

\* THING: iotx_dm_upstream_common; TOPO: topo add and delete; the others as named.
AllKinds == {"THING", "TOPO_GET", "TOPO", "LOGIN", "LOGOUT", "LOGIN_BATCH"}

ASSUME KindsAssumption == Kinds \subseteq AllKinds /\ thing_reply_opt \in BOOLEAN

ASSUME BoundsAssumption ==
  /\ MSGCACHE_MAXLEN \in Nat \ {0}
  /\ DISPATCH_MAXLEN \in Nat \ {0}
  /\ MaxRequests \in Nat
  /\ MaxFaults \in Nat
  /\ MaxDups \in Nat

VARIABLES
  \* the SDK
  g_report_id,           \* the next message id
  dmc_list,              \* cached open requests
  dmc_list_size,         \* their number, as the code counts it
  msg_list,              \* events on their way to the application
  sync_list,             \* upstream_sync_callback_list
  dev_status,            \* of the sub-device, as dm_manager keeps it
  \* the threads
  call,                  \* the IOT_EnOS_Report in progress
  rx,                    \* cm_yield: the reply it handles and how far it is
  dpc, count,            \* IOT_EnOS_Yield: where it is in iotx_dm_dispatch
  \* the cloud
  asked,                 \* requests that reached it
  replies,               \* its replies that are on their way
  faults, dups,          \* failures and repetitions injected so far
  \* history
  answers,               \* what the cloud answered
  results,               \* what the synchronous calls returned
  told,                  \* events of asynchronous calls given to the event callback
  dropped,               \* asynchronous calls with an event that the queue did not take
  served,                \* events dispatched while their call waited
  processed              \* requests whose reply was handled to the end

cache   == <<dmc_list, dmc_list_size>>
cloud   == <<asked, replies, dups>>
history == <<answers, results, told, dropped, served, processed>>
vars    == <<g_report_id, cache, msg_list, sync_list, dev_status, call, rx, dpc,
             count, cloud, faults, history>>

-----------------------------------------------------------------------------
(* Types *)

Id   == 0..MaxRequests
Code == {"SUCCESS", "REFUSED", "TIMEOUT"}

\* Calls that wait for their reply, in _iotx_enos_subdev_*.
Sync(k) == k \in {"TOPO", "LOGIN", "LOGOUT", "LOGIN_BATCH"}

\* Replies that are forwarded only if dm_msg_cache_search finds the request.
Searches(k) == k \in {"THING", "TOPO"}

Cached(k) == k = "THING" => thing_reply_opt

\* clean: the data of the reply has the form its handler needs.  For THING it
\* survives being put, unquoted, into the JSON string DM_MSG_THING_REPLY_FMT and
\* its buffer, for TOPO_GET it is an array, for LOGIN, LOGOUT and LOGIN_BATCH it
\* names known devices.
Event == [id : Id, kind : AllKinds, code : Code, clean : BOOLEAN]
Node  == [id : Id, kind : AllKinds, expired : BOOLEAN]
NoReply  == [id |-> 0, kind |-> "THING", code |-> "SUCCESS", clean |-> TRUE]
IdleCall == [pc |-> "idle", id |-> 0, kind |-> "THING"]

\* The type invariant; a node of sync_list never holds the timeout code itself.
TypeOK ==
  /\ g_report_id \in Id
  /\ dmc_list \subseteq Node /\ dmc_list_size \in Int
  /\ msg_list \in Seq(Event)
  /\ sync_list \subseteq [id : Id, code : Code \ {"TIMEOUT"}, posted : BOOLEAN]
  /\ dev_status \in {"AUTHORIZED", "ATTACHED", "LOGINED"}
  /\ call \in [pc : {"idle", "request", "sent", "wait", "woken", "expired"},
               id : Id, kind : AllKinds]
  /\ rx \in [pc : {"idle", "found", "done"}, reply : Event]
  /\ dpc \in {"idle", "tick", "drain"} /\ count \in 0..DISPATCH_MAXLEN
  /\ asked \subseteq [id : Id, kind : AllKinds]
  /\ replies \subseteq Event
  /\ faults \in 0..MaxFaults /\ dups \in 0..MaxDups
  /\ answers \subseteq [id : Id, kind : AllKinds, code : Code]
  /\ results \subseteq [id : Id, kind : AllKinds, code : Code]
  /\ told \subseteq [id : Id, code : Code, heard : BOOLEAN]
  /\ dropped \subseteq Id /\ processed \subseteq Id
  /\ served \subseteq [id : Id, code : Code]

Fault == faults < MaxFaults /\ faults' = faults + 1

-----------------------------------------------------------------------------
(* The cache *)

\* Held by dm_msg_cache_tick from its first node to its last.
cache_unlocked == dpc # "tick"

cache_full_late == dmc_list_size > MSGCACHE_MAXLEN

cache_full == dmc_list_size >= MSGCACHE_MAXLEN

\* The size is read before the mutex is taken; ctx->mutex keeps other
\* insertions away.  The callers do not look at the result.
dm_msg_cache_insert(n) ==
  /\ cache_unlocked
  /\ \/ /\ Cached(n.kind) /\ ~cache_full
        /\ dmc_list' = dmc_list \cup {n}
        /\ dmc_list_size' = dmc_list_size + 1
        /\ UNCHANGED faults
     \/ /\ ~Cached(n.kind) \/ cache_full
        /\ UNCHANGED <<cache, faults>>
     \/ Fault /\ UNCHANGED cache

nodes_of_none(id) == {}

\* The nodes dm_msg_cache_remove takes out; ids are handed out once.
nodes_of(id) == {n \in dmc_list : n.id = id}

dm_msg_cache_remove(id) ==
  /\ cache_unlocked
  /\ dmc_list' = dmc_list \ nodes_of(id)
  /\ dmc_list_size' = dmc_list_size - Cardinality(nodes_of(id))

-----------------------------------------------------------------------------
(* The queue to the application *)

queue_full == Len(msg_list) >= DISPATCH_MAXLEN

dm_ipc_msg_insert(e) == ~queue_full /\ msg_list' = Append(msg_list, e)

\* _dm_msg_send_to_user: a full queue or a failed allocation drops the event.
dm_msg_send_to_user(e) ==
  \/ dm_ipc_msg_insert(e) /\ UNCHANGED <<faults, dropped>>
  \/ /\ (queue_full /\ UNCHANGED faults) \/ Fault
     /\ dropped' = IF Sync(e.kind) THEN dropped ELSE dropped \cup {e.id}
     /\ UNCHANGED msg_list

-----------------------------------------------------------------------------
(* The caller: IOT_EnOS_Report *)

\* What dm_mgr_upstream_* puts into the cache before it sends.
open_request(k) == [id |-> g_report_id, kind |-> k, expired |-> FALSE]

\* A sub-device that is not logged in cannot log out.
upstream_allowed(k) == k = "LOGOUT" => dev_status = "LOGINED"

\* A message id, then a cache node.
IOT_EnOS_Report(k) ==
  /\ call.pc = "idle" /\ g_report_id < MaxRequests
  /\ upstream_allowed(k)
  /\ g_report_id' = g_report_id + 1
  /\ dm_msg_cache_insert(open_request(k))
  /\ call' = [pc |-> "request", id |-> g_report_id, kind |-> k]
  /\ UNCHANGED <<msg_list, sync_list, dev_status, rx, dpc, count, cloud, history>>

\* dm_msg_request publishes; an asynchronous call returns the message id.
dm_msg_request_sent ==
  /\ call.pc = "request"
  /\ asked' = asked \cup {[id |-> call.id, kind |-> call.kind]}
  /\ call' = IF Sync(call.kind) THEN [call EXCEPT !.pc = "sent"] ELSE IdleCall
  /\ UNCHANGED <<g_report_id, cache, msg_list, sync_list, dev_status, rx, dpc,
                 count, replies, dups, faults, history>>

\* ... or fails, and the request leaves the cache again.
dm_msg_request_fails ==
  /\ call.pc = "request" /\ Fault
  /\ dm_msg_cache_remove(call.id)
  /\ call' = IdleCall
  /\ UNCHANGED <<g_report_id, msg_list, sync_list, dev_status, rx, dpc, count,
                 cloud, history>>

\* _iotx_enos_upstream_sync_callback_list_insert, only now that the request
\* is out; without a semaphore or a node the call fails.
sync_callback_list_insert ==
  /\ call.pc = "sent"
  /\ \/ /\ sync_list' = sync_list \cup {[id |-> call.id, code |-> "SUCCESS", posted |-> FALSE]}
        /\ call' = [call EXCEPT !.pc = "wait"]
        /\ UNCHANGED faults
     \/ Fault /\ call' = IdleCall /\ UNCHANGED sync_list
  /\ UNCHANGED <<g_report_id, cache, msg_list, dev_status, rx, dpc, count, cloud, history>>

posted(id) == \E s \in sync_list : s.id = id /\ s.posted

\* HAL_SemaphoreWait comes back with the semaphore, or when the time is up.
HAL_SemaphoreWait_posted ==
  /\ call.pc = "wait" /\ posted(call.id)
  /\ call' = [call EXCEPT !.pc = "woken"]
  /\ UNCHANGED <<g_report_id, cache, msg_list, sync_list, dev_status, rx, dpc,
                 count, cloud, faults, history>>

HAL_SemaphoreWait_infinite == FALSE /\ UNCHANGED vars

HAL_SemaphoreWait_timeout ==
  /\ call.pc = "wait" /\ ~posted(call.id)
  /\ call' = [call EXCEPT !.pc = "expired"]
  /\ UNCHANGED <<g_report_id, cache, msg_list, sync_list, dev_status, rx, dpc,
                 count, cloud, faults, history>>

\* The node is read and freed under upstream_mutex.  (A successful login goes
\* on to subscribe the topics of the sub-device.)
sync_callback_list_remove ==
  /\ call.pc \in {"woken", "expired"}
  /\ \E s \in sync_list :
       /\ s.id = call.id
       /\ sync_list' = sync_list \ {s}
       /\ results' = results \cup {[id |-> call.id, kind |-> call.kind,
                                    code |-> IF call.pc = "woken" THEN s.code ELSE "TIMEOUT"]}
  /\ call' = IdleCall
  /\ UNCHANGED <<g_report_id, cache, msg_list, dev_status, rx, dpc, count, cloud,
                 faults, answers, told, dropped, served, processed>>

-----------------------------------------------------------------------------
(* The cm_yield thread: dm_msg_proc_*_reply *)

\* A reply is taken off the wire, and its request looked up if need be.
dm_msg_proc_reply(r) ==
  /\ rx.pc = "idle"
  /\ \/ replies' = replies \ {r} /\ UNCHANGED dups
     \/ dups < MaxDups /\ dups' = dups + 1 /\ UNCHANGED replies
  /\ Searches(r.kind) => cache_unlocked
  /\ rx' = [pc |-> IF Searches(r.kind) /\ nodes_of(r.id) = {} THEN "done" ELSE "found",
            reply |-> r]
  /\ UNCHANGED <<g_report_id, cache, msg_list, sync_list, dev_status, call, dpc,
                 count, asked, faults, history>>

grants_login(k)  == k \in {"LOGIN", "LOGIN_BATCH"}
grants_attach(k) == k \in {"TOPO", "LOGOUT"}

StatusAfter_unchecked(r) ==
  IF grants_login(r.kind) THEN "LOGINED"
  ELSE IF grants_attach(r.kind) THEN "ATTACHED" ELSE dev_status

\* What a granted request makes of the sub-device.
StatusAfter(r) ==
  IF r.code # "SUCCESS" THEN dev_status
  ELSE IF grants_login(r.kind) THEN "LOGINED"
  ELSE IF grants_attach(r.kind) THEN "ATTACHED" ELSE dev_status

\* Whose status the handler of a reply sets may not be clear: LOGIN_BATCH names
\* the devices that are logged in; TOPO reads the device id through the node that
\* the search found, and once the tick has freed that node it may be any device's.
other_device(r) == r.kind = "LOGIN_BATCH" \/ (r.kind = "TOPO" /\ nodes_of(r.id) = {})

\* A session reply that names no device of ours is given up.
device_unknown(r) == ~r.clean /\ r.kind \in {"LOGIN", "LOGOUT", "LOGIN_BATCH"}

\* dm_msg_*_reply updates the status and tells the application.
dm_msg_reply ==
  /\ rx.pc = "found"
  /\ \/ /\ device_unknown(rx.reply)
        /\ UNCHANGED <<dev_status, msg_list, dropped, faults>>
     \/ /\ ~device_unknown(rx.reply)
        /\ \/ dev_status' = StatusAfter(rx.reply)
           \/ other_device(rx.reply) /\ UNCHANGED dev_status
        /\ dm_msg_send_to_user(rx.reply)
  /\ rx' = [rx EXCEPT !.pc = "done"]
  /\ UNCHANGED <<g_report_id, cache, sync_list, call, dpc, count, cloud,
                 answers, results, told, served, processed>>

\* The request leaves the cache, whatever came of the reply.
dm_msg_proc_remove ==
  /\ rx.pc = "done"
  /\ dm_msg_cache_remove(rx.reply.id)
  /\ processed' = processed \cup {rx.reply.id}
  /\ rx' = [pc |-> "idle", reply |-> NoReply]
  /\ UNCHANGED <<g_report_id, msg_list, sync_list, dev_status, call, dpc, count,
                 cloud, faults, answers, results, told, dropped, served>>

-----------------------------------------------------------------------------
(* The dispatching thread: iotx_dm_dispatch *)

iotx_dm_dispatch ==
  /\ dpc = "idle"
  /\ dpc' = "tick" /\ count' = 0
  /\ UNCHANGED <<g_report_id, cache, msg_list, sync_list, dev_status, call, rx,
                 cloud, faults, history>>

life_over_never(n) == FALSE

life_over(n) == n.expired

\* dm_msg_send_msg_timeout_to_user
timeout_event(n) == [id |-> n.id, kind |-> n.kind, code |-> "TIMEOUT", clean |-> TRUE]

\* dm_msg_cache_tick: a node whose life time is over is reported and freed.
\* dmc_list_size is not touched.
dm_msg_cache_tick ==
  /\ dpc = "tick"
  /\ \E n \in dmc_list :
       /\ life_over(n)
       /\ dmc_list' = dmc_list \ {n}
       /\ dm_msg_send_to_user(timeout_event(n))
  /\ UNCHANGED <<g_report_id, dmc_list_size, sync_list, dev_status, call, rx, dpc,
                 count, cloud, answers, results, told, served, processed>>

dm_msg_cache_tick_done ==
  /\ dpc = "tick" /\ \A n \in dmc_list : ~life_over(n)
  /\ dpc' = "drain"
  /\ UNCHANGED <<g_report_id, cache, msg_list, sync_list, dev_status, call, rx,
                 count, cloud, faults, history>>

callback_runs_granted(e) == e.kind \in {"THING", "TOPO_GET"} /\ e.code = "SUCCESS" /\ e.clean

\* _iotx_enos_event_callback looks for fields that a timeout message
\* ("id", "code", "devid") and an unclean reply do not have.
callback_runs(e) == e.kind \in {"THING", "TOPO_GET"} /\ e.code # "TIMEOUT" /\ e.clean

posts_any(e, s) == e.kind \in {"TOPO", "LOGIN", "LOGOUT"}

posts_sessions(e, s) == e.kind \in {"LOGIN", "LOGOUT"} /\ s.id = e.id

\* _iotx_enos_upstream_callback_remove: a waiting call is posted; there is no
\* case for COMBINE_LOGIN_BATCH_REPLY.
posts(e, s) == e.kind \in {"TOPO", "LOGIN", "LOGOUT"} /\ s.id = e.id

event_code_raw(e) == e.code

event_code(e) == IF e.code = "SUCCESS" THEN "SUCCESS" ELSE "REFUSED"

event_callback(e) ==
  /\ sync_list' = {IF posts(e, s) THEN [s EXCEPT !.code = event_code(e), !.posted = TRUE]
                                  ELSE s : s \in sync_list}
  /\ told' = IF Sync(e.kind) THEN told
             ELSE told \cup {[id |-> e.id, code |-> e.code, heard |-> callback_runs(e)]}
  /\ served' = IF call.pc = "wait" /\ call.id = e.id
               THEN served \cup {[id |-> e.id, code |-> e.code]} ELSE served

dm_ipc_msg_next ==
  /\ dpc = "drain" /\ count < DISPATCH_MAXLEN
  /\ msg_list # <<>>
  /\ msg_list' = Tail(msg_list)
  /\ count' = count + 1
  /\ event_callback(Head(msg_list))
  /\ UNCHANGED <<g_report_id, cache, dev_status, call, rx, dpc, cloud, faults,
                 answers, results, dropped, processed>>

dispatch_done ==
  /\ dpc = "drain"
  /\ msg_list = <<>> \/ count = DISPATCH_MAXLEN
  /\ dpc' = "idle" /\ count' = 0
  /\ UNCHANGED <<g_report_id, cache, msg_list, sync_list, dev_status, call, rx,
                 cloud, faults, history>>

-----------------------------------------------------------------------------
(* The clock and the cloud *)

cache_timer ==
  /\ \E n \in dmc_list :
       /\ ~n.expired
       /\ dmc_list' = (dmc_list \ {n}) \cup {[n EXCEPT !.expired = TRUE]}
  /\ cache_unlocked
  /\ UNCHANGED <<g_report_id, dmc_list_size, msg_list, sync_list, dev_status, call,
                 rx, dpc, count, cloud, faults, history>>

\* The cloud grants or refuses; requests and replies may be lost, which is
\* never answering.
cloud_answers ==
  /\ \E a \in asked, code \in {"SUCCESS", "REFUSED"}, clean \in BOOLEAN :
       /\ clean \/ a.kind # "TOPO"
       /\ asked' = asked \ {a}
       /\ replies' = replies \cup {[id |-> a.id, kind |-> a.kind, code |-> code, clean |-> clean]}
       /\ answers' = answers \cup {[id |-> a.id, kind |-> a.kind, code |-> code]}
  /\ UNCHANGED <<g_report_id, cache, msg_list, sync_list, dev_status, call, rx, dpc,
                 count, dups, faults, results, told, dropped, served, processed>>

-----------------------------------------------------------------------------
(* Specification *)

Init ==
  /\ g_report_id = 0
  /\ dmc_list = {} /\ dmc_list_size = 0
  /\ msg_list = <<>> /\ sync_list = {}
  /\ dev_status = "AUTHORIZED"
  /\ call = IdleCall
  /\ rx = [pc |-> "idle", reply |-> NoReply]
  /\ dpc = "idle" /\ count = 0
  /\ asked = {} /\ replies = {} /\ faults = 0 /\ dups = 0
  /\ answers = {} /\ results = {} /\ told = {} /\ dropped = {}
  /\ served = {} /\ processed = {}

CallStep ==
  \/ dm_msg_request_sent
  \/ dm_msg_request_fails
  \/ sync_callback_list_insert
  \/ HAL_SemaphoreWait_posted
  \/ HAL_SemaphoreWait_timeout
  \/ sync_callback_list_remove

ReplyStep ==
  \/ \E r \in replies : dm_msg_proc_reply(r)
  \/ dm_msg_reply
  \/ dm_msg_proc_remove

Dispatch ==
  \/ iotx_dm_dispatch
  \/ dm_msg_cache_tick
  \/ dm_msg_cache_tick_done
  \/ dm_ipc_msg_next
  \/ dispatch_done

Next ==
  \/ \E k \in Kinds : IOT_EnOS_Report(k)
  \/ CallStep
  \/ ReplyStep
  \/ Dispatch
  \/ cache_timer
  \/ cloud_answers

Spec == Init /\ [][Next]_vars

\* A call goes on, the cm_yield thread and the thread in IOT_EnOS_Yield run,
\* and time passes (strong fairness where another thread's step disables the
\* mutex or the clock now and then).  The cloud owes nothing.
FairSpec ==
  /\ Spec
  /\ WF_vars(CallStep)
  /\ SF_vars(ReplyStep)
  /\ WF_vars(Dispatch)
  /\ SF_vars(cache_timer)

-----------------------------------------------------------------------------
(* Properties *)

\* A synchronous call reports success only if the cloud granted this very
\* request, whatever late or repeated replies to earlier calls come in while
\* it waits.
OwnAnswer ==
  \A r \in results :
    r.code = "SUCCESS" => [id |-> r.id, kind |-> r.kind, code |-> "SUCCESS"] \in answers

\* A waiting topology, login or logout call whose event is dispatched before
\* its time is up does not time out.  A batch login is the exception: its
\* event has no case in _iotx_enos_event_callback, so that it always times
\* out.
AnsweredInTime ==
  \A r \in results, e \in served :
    r.id = e.id /\ r.kind # "LOGIN_BATCH" => r.code # "TIMEOUT"

\* The sub-device counts as logged in only if the cloud granted a login.
LoginedMeansGranted ==
  dev_status = "LOGINED" =>
    \E a \in answers : grants_login(a.kind) /\ a.code = "SUCCESS"

\* The cache keeps to its capacity although its counter and its list drift
\* apart.
CacheBounded == Cardinality(dmc_list) <= MSGCACHE_MAXLEN

\* A request whose reply was handled is no longer cached, so that it cannot
\* time out any more.
AnsweredNotCached == \A n \in dmc_list : n.id \notin processed

\* A synchronous call returns, whether or not anything comes back.
EventuallyReturns == (call.pc # "idle") ~> (call.pc = "idle")

\* A cached request is settled: by its reply or by its life time.
EventuallySettled ==
  \A i \in Id : (\E n \in dmc_list : n.id = i) ~> (\A n \in dmc_list : n.id # i)

\* A reply that finds its request is heard by the application, or dropped
\* because the queue was full.
ReplyHeard ==
  \A i \in Id :
    (rx.pc = "found" /\ rx.reply.id = i /\ rx.reply.kind \in {"THING", "TOPO_GET"} /\ rx.reply.clean)
      ~> (i \in dropped \/ \E t \in told : t.id = i /\ t.heard)

=============================================================================
