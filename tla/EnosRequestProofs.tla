------------------------- MODULE EnosRequestProofs -------------------------
(***************************************************************************)
(* What holds of EnosRequest for every set of kinds, every capacity, every *)
(* number of requests, failures and repetitions: the cache and the queue   *)
(* keep to their limits, and what a call returns, what the sub-device's    *)
(* status says and what is left in the cache agree with the cloud.         *)
(***************************************************************************)
EXTENDS EnosRequest, FiniteSetTheorems, TLAPS

\* CacheBounded is not inductive: the code compares dmc_list_size, which the
\* tick leaves too large, never too small.
CacheCounted ==
  /\ IsFiniteSet(dmc_list)
  /\ dmc_list_size \in Int
  /\ Cardinality(dmc_list) <= dmc_list_size
  /\ dmc_list_size <= MSGCACHE_MAXLEN

-----------------------------------------------------------------------------
(* What the cache's operations do to the list and its counter *)

\* dm_msg_cache_insert adds one node and counts it, or leaves both.
LEMMA InsertCounted ==
  ASSUME CacheCounted, NEW n, dm_msg_cache_insert(n)
  PROVE  CacheCounted'
<1>1. CASE UNCHANGED cache
  BY <1>1 DEF CacheCounted, cache
<1>2. CASE /\ ~cache_full
           /\ dmc_list' = dmc_list \cup {n}
           /\ dmc_list_size' = dmc_list_size + 1
  <2>1. /\ IsFiniteSet(dmc_list \cup {n})
        /\ Cardinality(dmc_list \cup {n}) = IF n \in dmc_list THEN Cardinality(dmc_list)
                                            ELSE Cardinality(dmc_list) + 1
    BY FS_AddElement DEF CacheCounted
  <2>2. Cardinality(dmc_list) \in Nat
    BY FS_CardinalityType DEF CacheCounted
  <2> QED BY <1>2, <2>1, <2>2, BoundsAssumption DEF CacheCounted, cache_full
<1> QED BY <1>1, <1>2 DEF dm_msg_cache_insert

\* dm_msg_cache_remove counts down what it takes out.
LEMMA RemoveCounted ==
  ASSUME CacheCounted, NEW id, dm_msg_cache_remove(id)
  PROVE  CacheCounted'
<1>1. nodes_of(id) \subseteq dmc_list
  BY DEF nodes_of
<1>2. /\ IsFiniteSet(dmc_list \ nodes_of(id))
      /\ Cardinality(dmc_list \ nodes_of(id))
           = Cardinality(dmc_list) - Cardinality(dmc_list \cap nodes_of(id))
  BY FS_Difference DEF CacheCounted
<1>3. dmc_list \cap nodes_of(id) = nodes_of(id)
  BY <1>1
<1>4. Cardinality(nodes_of(id)) \in Nat /\ Cardinality(dmc_list) \in Nat
  BY <1>1, FS_Subset, FS_CardinalityType DEF CacheCounted
<1> QED BY <1>2, <1>3, <1>4, BoundsAssumption DEF CacheCounted, dm_msg_cache_remove

\* The tick shortens the list only.
LEMMA TickCounted ==
  ASSUME CacheCounted, dm_msg_cache_tick
  PROVE  CacheCounted'
<1>1. PICK n \in dmc_list : dmc_list' = dmc_list \ {n}
  BY DEF dm_msg_cache_tick
<1>2. /\ IsFiniteSet(dmc_list \ {n})
      /\ Cardinality(dmc_list \ {n}) = Cardinality(dmc_list) - 1
  BY FS_RemoveElement DEF CacheCounted
<1>3. Cardinality(dmc_list) \in Nat
  BY FS_CardinalityType DEF CacheCounted
<1>4. dmc_list_size' = dmc_list_size
  BY DEF dm_msg_cache_tick
<1> QED BY <1>1, <1>2, <1>3, <1>4, BoundsAssumption DEF CacheCounted

\* The life time of a node runs out in place.
LEMMA TimerCounted ==
  ASSUME CacheCounted, cache_timer
  PROVE  CacheCounted'
<1>1. PICK n \in dmc_list :
        dmc_list' = (dmc_list \ {n}) \cup {[n EXCEPT !.expired = TRUE]}
  BY DEF cache_timer
<1> DEFINE rest == dmc_list \ {n}
           late == [n EXCEPT !.expired = TRUE]
<1>2. IsFiniteSet(rest) /\ Cardinality(rest) = Cardinality(dmc_list) - 1
  BY FS_RemoveElement DEF CacheCounted
<1>3. Cardinality(dmc_list) \in Nat
  BY FS_CardinalityType DEF CacheCounted
<1> HIDE DEF rest, late
<1>4. /\ IsFiniteSet(rest \cup {late})
      /\ Cardinality(rest \cup {late}) = IF late \in rest THEN Cardinality(rest)
                                         ELSE Cardinality(rest) + 1
  BY <1>2, FS_AddElement
<1>5. dmc_list' = rest \cup {late}
  BY <1>1 DEF rest, late
<1>6. dmc_list_size' = dmc_list_size
  BY DEF cache_timer
<1> QED BY <1>2, <1>3, <1>4, <1>5, <1>6, BoundsAssumption DEF CacheCounted

-----------------------------------------------------------------------------
(* The cache *)

\* The cache is empty at the start.
LEMMA CacheInit == Init => CacheCounted
<1>1. IsFiniteSet({}) /\ Cardinality({}) = 0
  BY FS_EmptySet
<1> QED BY <1>1, BoundsAssumption DEF Init, CacheCounted

\* Insertions, removals and the tick keep the counter above the list.
LEMMA CacheStep == CacheCounted /\ [Next]_vars => CacheCounted'
<1> SUFFICES ASSUME CacheCounted, [Next]_vars
             PROVE  CacheCounted'
  OBVIOUS
<1>1. CASE UNCHANGED cache
  BY <1>1 DEF CacheCounted, cache
<1>2. ASSUME NEW k \in Kinds, IOT_EnOS_Report(k)
      PROVE  CacheCounted'
  BY <1>2, InsertCounted DEF IOT_EnOS_Report
<1>3. CASE dm_msg_request_fails
  BY <1>3, RemoveCounted DEF dm_msg_request_fails
<1>4. CASE dm_msg_proc_remove
  BY <1>4, RemoveCounted DEF dm_msg_proc_remove
<1>5. CASE dm_msg_cache_tick
  BY <1>5, TickCounted
<1>6. CASE cache_timer
  BY <1>6, TimerCounted
<1>7. CASE \/ dm_msg_request_sent \/ sync_callback_list_insert
           \/ HAL_SemaphoreWait_posted \/ HAL_SemaphoreWait_timeout
           \/ sync_callback_list_remove
  BY <1>1, <1>7 DEF dm_msg_request_sent, sync_callback_list_insert, cache,
     HAL_SemaphoreWait_posted, HAL_SemaphoreWait_timeout, sync_callback_list_remove
<1>8. CASE (\E r \in replies : dm_msg_proc_reply(r)) \/ dm_msg_reply
  BY <1>1, <1>8 DEF dm_msg_proc_reply, dm_msg_reply, cache
<1>9. CASE \/ iotx_dm_dispatch \/ dm_msg_cache_tick_done
           \/ dm_ipc_msg_next \/ dispatch_done \/ cloud_answers
  BY <1>1, <1>9 DEF iotx_dm_dispatch, dm_msg_cache_tick_done, dm_ipc_msg_next,
     dispatch_done, cloud_answers, cache
<1>10. CASE UNCHANGED vars
  BY <1>1, <1>10 DEF vars, cache
<1> QED BY <1>2, <1>3, <1>4, <1>5, <1>6, <1>7, <1>8, <1>9, <1>10
        DEF Next, CallStep, ReplyStep, Dispatch

\* The cache keeps to its capacity: the counter that dm_msg_cache_insert
\* compares is never smaller than the list, although dm_msg_cache_tick does not
\* count down.
THEOREM CacheKeepsCapacity == Spec => []CacheBounded
<1>1. CacheCounted => CacheBounded
  <2> SUFFICES ASSUME CacheCounted PROVE CacheBounded
    OBVIOUS
  <2>1. Cardinality(dmc_list) \in Nat
    BY FS_CardinalityType DEF CacheCounted
  <2> QED BY <2>1, BoundsAssumption DEF CacheCounted, CacheBounded
<1> QED BY <1>1, CacheInit, CacheStep, PTL DEF Spec

-----------------------------------------------------------------------------
(* Types *)

\* A fault stays within its bound.
LEMMA FaultType ==
  ASSUME TypeOK, Fault PROVE faults' \in 0..MaxFaults
BY BoundsAssumption DEF Fault, TypeOK

\* _dm_msg_send_to_user keeps the queue a queue of events, whether it takes
\* the event or drops it.
LEMMA SendType ==
  ASSUME TypeOK, NEW e \in Event, dm_msg_send_to_user(e)
  PROVE  msg_list' \in Seq(Event) /\ faults' \in 0..MaxFaults /\ dropped' \subseteq Id
<1>1. msg_list' \in Seq(Event)
  <2>1. msg_list \in Seq(Event)
    BY DEF TypeOK
  <2>2. Append(msg_list, e) \in Seq(Event)
    BY <2>1
  <2> QED  BY <2>1, <2>2 DEF dm_msg_send_to_user, dm_ipc_msg_insert
<1>2. faults' \in 0..MaxFaults
  BY FaultType DEF dm_msg_send_to_user, TypeOK
<1>3. dropped' \subseteq Id
  BY DEF dm_msg_send_to_user, TypeOK, Event
<1> QED  BY <1>1, <1>2, <1>3

\* The steps of the caller keep the types.
LEMMA CallType ==
  ASSUME TypeOK, CacheCounted', CallStep \/ \E k \in Kinds : IOT_EnOS_Report(k)
  PROVE  TypeOK'
<1>0. /\ call.pc \in {"idle", "request", "sent", "wait", "woken", "expired"}
      /\ call.id \in Id /\ call.kind \in AllKinds /\ dmc_list_size' \in Int
      /\ IdleCall \in [pc : {"idle", "request", "sent", "wait", "woken", "expired"},
                       id : Id, kind : AllKinds]
  BY BoundsAssumption DEF TypeOK, CacheCounted, IdleCall, Id, AllKinds
<1>1. ASSUME NEW k \in Kinds, IOT_EnOS_Report(k) PROVE TypeOK'
  <2>1. k \in AllKinds /\ g_report_id \in Id /\ g_report_id' \in Id
    BY <1>1, KindsAssumption, BoundsAssumption DEF IOT_EnOS_Report, TypeOK, Id
  <2>2. open_request(k) \in Node
    BY <2>1 DEF open_request, Node
  <2>3. dmc_list' \subseteq Node /\ faults' \in 0..MaxFaults
    BY <1>1, <2>2, FaultType DEF IOT_EnOS_Report, dm_msg_cache_insert, cache, TypeOK
  <2>4. call' \in [pc : {"idle", "request", "sent", "wait", "woken", "expired"},
                   id : Id, kind : AllKinds]
    BY <1>1, <2>1 DEF IOT_EnOS_Report
  <2> QED  BY <1>0, <1>1, <2>1, <2>3, <2>4 DEF IOT_EnOS_Report, TypeOK, cloud, history
<1>2. CASE dm_msg_request_sent
  <2>1. call' \in [pc : {"idle", "request", "sent", "wait", "woken", "expired"},
                   id : Id, kind : AllKinds]
    BY <1>0, <1>2 DEF dm_msg_request_sent, TypeOK
  <2>2. asked' \subseteq [id : Id, kind : AllKinds]
    BY <1>0, <1>2 DEF dm_msg_request_sent, TypeOK
  <2> QED  BY <1>2, <2>1, <2>2 DEF dm_msg_request_sent, TypeOK, cache, history
<1>3. CASE dm_msg_request_fails
  <2>1. dmc_list' \subseteq Node /\ faults' \in 0..MaxFaults
    BY <1>3, FaultType DEF dm_msg_request_fails, dm_msg_cache_remove, TypeOK
  <2> QED  BY <1>0, <1>3, <2>1 DEF dm_msg_request_fails, TypeOK, cloud, history
<1>4. CASE sync_callback_list_insert
  <2>1. faults' \in 0..MaxFaults
    BY <1>4, FaultType DEF sync_callback_list_insert, TypeOK
  <2>2. sync_list' \subseteq [id : Id, code : Code \ {"TIMEOUT"}, posted : BOOLEAN]
    <3>1. [id |-> call.id, code |-> "SUCCESS", posted |-> FALSE]
            \in [id : Id, code : Code \ {"TIMEOUT"}, posted : BOOLEAN]
      BY <1>0 DEF Code
    <3>2. sync_list \subseteq [id : Id, code : Code \ {"TIMEOUT"}, posted : BOOLEAN]
      BY DEF TypeOK
    <3> QED  BY <1>4, <3>1, <3>2, Zenon DEF sync_callback_list_insert
  <2>3. call' \in [pc : {"idle", "request", "sent", "wait", "woken", "expired"},
                   id : Id, kind : AllKinds]
    BY <1>0, <1>4 DEF sync_callback_list_insert, TypeOK
  <2> QED  BY <1>4, <2>1, <2>2, <2>3 DEF sync_callback_list_insert, TypeOK, cache, cloud, history
<1>5. CASE HAL_SemaphoreWait_posted \/ HAL_SemaphoreWait_timeout
  <2>1. call' \in [pc : {"idle", "request", "sent", "wait", "woken", "expired"},
                   id : Id, kind : AllKinds]
    BY <1>0, <1>5 DEF HAL_SemaphoreWait_posted, HAL_SemaphoreWait_timeout, TypeOK
  <2> QED  BY <1>5, <2>1 DEF HAL_SemaphoreWait_posted, HAL_SemaphoreWait_timeout, TypeOK, cache,
                             cloud, history
<1>6. CASE sync_callback_list_remove
  <2>1. results' \subseteq [id : Id, kind : AllKinds, code : Code] /\ sync_list' \subseteq sync_list
    BY <1>0, <1>6 DEF sync_callback_list_remove, TypeOK, Code
  <2> QED  BY <1>0, <1>6, <2>1 DEF sync_callback_list_remove, TypeOK, cache, cloud
<1> QED  BY <1>1, <1>2, <1>3, <1>4, <1>5, <1>6 DEF CallStep

\* The steps of the cm_yield thread keep the types.
LEMMA ReplyType ==
  ASSUME TypeOK, CacheCounted', ReplyStep
  PROVE  TypeOK'
<1>0. rx.reply \in Event /\ rx.reply.id \in Id /\ dmc_list_size' \in Int /\ NoReply \in Event
  BY BoundsAssumption DEF TypeOK, CacheCounted, Event, NoReply, Id, AllKinds, Code
<1>1. ASSUME NEW r \in replies, dm_msg_proc_reply(r) PROVE TypeOK'
  <2>1. rx' \in [pc : {"idle", "found", "done"}, reply : Event]
    BY <1>1 DEF dm_msg_proc_reply, TypeOK
  <2>2. replies' \subseteq replies /\ dups' \in 0..MaxDups
    BY <1>1, BoundsAssumption DEF dm_msg_proc_reply, TypeOK
  <2> QED  BY <1>1, <2>1, <2>2 DEF dm_msg_proc_reply, TypeOK, cache, history
<1>2. CASE dm_msg_reply
  <2>1. msg_list' \in Seq(Event) /\ faults' \in 0..MaxFaults /\ dropped' \subseteq Id
    BY <1>0, <1>2, SendType DEF dm_msg_reply, TypeOK
  <2>2. dev_status' \in {"AUTHORIZED", "ATTACHED", "LOGINED"}
    BY <1>2 DEF dm_msg_reply, StatusAfter, TypeOK
  <2>3. rx' \in [pc : {"idle", "found", "done"}, reply : Event]
    BY <1>2 DEF dm_msg_reply, TypeOK
  <2> QED  BY <1>2, <2>1, <2>2, <2>3 DEF dm_msg_reply, TypeOK, cache, cloud
<1>3. CASE dm_msg_proc_remove
  <2>1. rx' \in [pc : {"idle", "found", "done"}, reply : Event]
    BY <1>0, <1>3 DEF dm_msg_proc_remove
  <2>2. dmc_list' \subseteq Node /\ processed' \subseteq Id
    BY <1>0, <1>3 DEF dm_msg_proc_remove, dm_msg_cache_remove, TypeOK
  <2> QED  BY <1>0, <1>3, <2>1, <2>2 DEF dm_msg_proc_remove, TypeOK, cloud
<1> QED  BY <1>1, <1>2, <1>3 DEF ReplyStep

\* So do those of the dispatching thread, the clock and the cloud.
LEMMA DispatchType ==
  ASSUME TypeOK, CacheCounted', Dispatch \/ cache_timer \/ cloud_answers
  PROVE  TypeOK'
<1>1. CASE iotx_dm_dispatch \/ dm_msg_cache_tick_done \/ dispatch_done
  BY <1>1, BoundsAssumption DEF iotx_dm_dispatch, dm_msg_cache_tick_done, dispatch_done, TypeOK,
                                cache, cloud, history
<1>2. CASE dm_msg_cache_tick
  <2>1. PICK n \in dmc_list : dmc_list' = dmc_list \ {n} /\ dm_msg_send_to_user(timeout_event(n))
    BY <1>2 DEF dm_msg_cache_tick
  <2>2. timeout_event(n) \in Event
    BY DEF timeout_event, TypeOK, Node, Event, Code
  <2>3. msg_list' \in Seq(Event) /\ faults' \in 0..MaxFaults /\ dropped' \subseteq Id
    BY <2>1, <2>2, SendType
  <2> QED  BY <1>2, <2>1, <2>3 DEF dm_msg_cache_tick, TypeOK, cloud
<1>3. CASE dm_ipc_msg_next
  <2> DEFINE e == Head(msg_list)
  <2>1. e \in Event /\ msg_list' \in Seq(Event)
    BY <1>3 DEF dm_ipc_msg_next, TypeOK
  <2>2. e.id \in Id /\ e.code \in Code
    BY <2>1 DEF Event
  <2>3. count' \in 0..DISPATCH_MAXLEN
    BY <1>3, BoundsAssumption DEF dm_ipc_msg_next, TypeOK
  <2>4. event_callback(e)
    BY <1>3 DEF dm_ipc_msg_next
  <2> HIDE DEF e
  <2>5. sync_list' \subseteq [id : Id, code : Code \ {"TIMEOUT"}, posted : BOOLEAN]
    <3>1. event_code(e) \in Code \ {"TIMEOUT"}
      BY DEF event_code, Code
    <3> DEFINE S == [id : Id, code : Code \ {"TIMEOUT"}, posted : BOOLEAN]
    <3>2. \A s \in S : [s EXCEPT !.code = event_code(e), !.posted = TRUE] \in S
      BY <3>1
    <3>3. sync_list \subseteq S
      BY DEF TypeOK
    <3> HIDE DEF S
    <3>4. sync_list' \subseteq S
      BY <2>4, <3>2, <3>3 DEF event_callback
    <3> QED  BY <3>4 DEF S
  <2>6. callback_runs(e) \in BOOLEAN
    BY DEF callback_runs
  <2>7. told' \subseteq [id : Id, code : Code, heard : BOOLEAN]
    <3>1. [id |-> e.id, code |-> e.code, heard |-> callback_runs(e)]
            \in [id : Id, code : Code, heard : BOOLEAN]
      BY <2>2, <2>6
    <3>2. told \subseteq [id : Id, code : Code, heard : BOOLEAN]
      BY DEF TypeOK
    <3> QED  BY <2>4, <3>1, <3>2, Zenon DEF event_callback
  <2>8. served' \subseteq [id : Id, code : Code]
    <3>1. [id |-> e.id, code |-> e.code] \in [id : Id, code : Code]
      BY <2>2
    <3>2. served \subseteq [id : Id, code : Code]
      BY DEF TypeOK
    <3> QED  BY <2>4, <3>1, <3>2, Zenon DEF event_callback
  <2> QED  BY <1>3, <2>1, <2>3, <2>5, <2>7, <2>8 DEF dm_ipc_msg_next, TypeOK, cache, cloud
<1>4. CASE cache_timer
  <2>1. dmc_list' \subseteq Node
    BY <1>4 DEF cache_timer, TypeOK, Node
  <2> QED  BY <1>4, <2>1 DEF cache_timer, TypeOK, cloud, history
<1>5. CASE cloud_answers
  <2>1. PICK a \in asked, code \in {"SUCCESS", "REFUSED"}, clean \in BOOLEAN :
          /\ asked' = asked \ {a}
          /\ replies' = replies \cup {[id |-> a.id, kind |-> a.kind, code |-> code, clean |-> clean]}
          /\ answers' = answers \cup {[id |-> a.id, kind |-> a.kind, code |-> code]}
    BY <1>5 DEF cloud_answers
  <2>2. a.id \in Id /\ a.kind \in AllKinds /\ code \in Code
    BY DEF TypeOK, Code
  <2>3. replies' \subseteq Event /\ answers' \subseteq [id : Id, kind : AllKinds, code : Code]
    BY <2>1, <2>2 DEF TypeOK, Event
  <2> QED  BY <1>5, <2>1, <2>3 DEF cloud_answers, TypeOK, cache
<1> QED  BY <1>1, <1>2, <1>3, <1>4, <1>5 DEF Dispatch

\* Every variable of requests, cache and queue keeps its type.
LEMMA TypeStep == TypeOK /\ CacheCounted /\ [Next]_vars => TypeOK'
<1> SUFFICES ASSUME TypeOK, CacheCounted, [Next]_vars PROVE TypeOK'
  OBVIOUS
<1>1. CacheCounted'
  BY CacheStep
<1>2. CASE UNCHANGED vars
  BY <1>2 DEF vars, cache, cloud, history, TypeOK
<1> QED  BY <1>1, <1>2, CallType, ReplyType, DispatchType DEF Next

-----------------------------------------------------------------------------
(* The inductive invariant behind the answers.                              *)

\* The events in the queue.
Queued == {msg_list[i] : i \in 1..Len(msg_list)}

\* What the cm_yield thread and the caller work on.
Handled == IF rx.pc = "idle" THEN {} ELSE {rx.reply}
Calling == IF call.pc = "idle" THEN {} ELSE {call}

\* Everything under way that carries the id and the kind of a request.
Open == dmc_list \cup asked \cup replies \cup Queued \cup Handled \cup Calling

\* An id was handed out before it is used, and stands for one request.
OpenInv ==
  /\ \A x \in Open : x.id < g_report_id
  /\ \A x, y \in Open : x.id = y.id => x.kind = y.kind

\* An event is a timeout, or the cloud answered so.
Genuine(e) == e.code = "TIMEOUT" \/ [id |-> e.id, kind |-> e.kind, code |-> e.code] \in answers

GenuineInv == \A e \in replies \cup Queued \cup Handled : Genuine(e)

\* The list of waiting calls has the node of the one call that waits.
SyncInv ==
  /\ call.pc \in {"sent", "wait", "woken", "expired"} => Sync(call.kind)
  /\ sync_list # {} <=> call.pc \in {"wait", "woken", "expired"}
  /\ \A s, t \in sync_list : s = t
  /\ \A s \in sync_list :
       /\ s.id = call.id
       /\ s.posted /\ s.code = "SUCCESS"
            => [id |-> call.id, kind |-> call.kind, code |-> "SUCCESS"] \in answers
       /\ call.pc = "woken" => s.posted
       /\ call.kind # "LOGIN_BATCH" /\ ~s.posted => \A e \in served : e.id # call.id
  /\ \/ call.pc \in {"request", "sent"}
     \/ call.pc = "expired" /\ call.kind # "LOGIN_BATCH"
     => \A e \in served : e.id # call.id

\* What is over was begun, and a call in progress has no result yet.
DoneInv ==
  /\ \A r \in results : r.id < g_report_id
  /\ \A e \in served : e.id < g_report_id
  /\ \A i \in processed : i < g_report_id
  /\ call.pc # "idle" => \A r \in results : r.id # call.id

RequestInv ==
  /\ TypeOK /\ CacheCounted /\ OpenInv /\ GenuineInv /\ SyncInv /\ DoneInv
  /\ OwnAnswer /\ AnsweredInTime /\ LoginedMeansGranted /\ AnsweredNotCached


\* What the queue holds after an event is put in or taken out.
LEMMA QueueFacts ==
  ASSUME TypeOK
  PROVE  /\ \A e \in Event : msg_list' = Append(msg_list, e) => Queued' = Queued \cup {e}
         /\ msg_list # <<>> /\ msg_list' = Tail(msg_list)
              => Head(msg_list) \in Queued /\ Queued' \subseteq Queued
         /\ msg_list' = msg_list => Queued' = Queued
         /\ Queued \subseteq Event
<1>0. msg_list \in Seq(Event)
  BY DEF TypeOK
<1>1. ASSUME NEW e \in Event, msg_list' = Append(msg_list, e) PROVE Queued' = Queued \cup {e}
  BY <1>0, <1>1 DEF Queued
<1>2. ASSUME msg_list # <<>>, msg_list' = Tail(msg_list)
      PROVE  Head(msg_list) \in Queued /\ Queued' \subseteq Queued
  <2>1. Len(msg_list) \in Nat \ {0}
    BY <1>0, <1>2
  <2>2. Head(msg_list) = msg_list[1] /\ 1 \in 1..Len(msg_list)
    BY <2>1
  <2>3. /\ Len(msg_list') = Len(msg_list) - 1
        /\ \A i \in 1..Len(msg_list) - 1 : msg_list'[i] = msg_list[i + 1]
    BY <1>0, <1>2, <2>1
  <2>4. \A i \in 1..Len(msg_list) - 1 : i + 1 \in 1..Len(msg_list)
    BY <2>1
  <2> QED  BY <2>2, <2>3, <2>4 DEF Queued
<1>3. Queued \subseteq Event
  BY <1>0 DEF Queued
<1> QED  BY <1>1, <1>2, <1>3 DEF Queued

\* _dm_msg_send_to_user adds at most the event it is given.
LEMMA SendQueue ==
  ASSUME TypeOK, NEW e \in Event, dm_msg_send_to_user(e)
  PROVE  Queued' \subseteq Queued \cup {e}
<1>1. CASE msg_list' = msg_list
  BY <1>1, QueueFacts
<1>2. CASE dm_ipc_msg_insert(e)
  BY <1>2, QueueFacts DEF dm_ipc_msg_insert
<1> QED  BY <1>1, <1>2 DEF dm_msg_send_to_user

\* A step that carries only what was carried before keeps OpenInv.
LEMMA OpenKept ==
  ASSUME OpenInv, g_report_id' = g_report_id,
         \A x \in Open' : \E y \in Open : x.id = y.id /\ x.kind = y.kind
  PROVE  OpenInv'
<1>1. \A x \in Open' : x.id < g_report_id'
  BY DEF OpenInv
<1>2. ASSUME NEW x \in Open', NEW y \in Open', x.id = y.id PROVE x.kind = y.kind
  <2>1. PICK v \in Open : x.id = v.id /\ x.kind = v.kind
    OBVIOUS
  <2>2. PICK w \in Open : y.id = w.id /\ y.kind = w.kind
    OBVIOUS
  <2> QED  BY <1>2, <2>1, <2>2 DEF OpenInv
<1> QED  BY <1>1, <1>2 DEF OpenInv

\* Every step keeps what is known of the requests that are open.
LEMMA OpenStep == TypeOK /\ OpenInv /\ [Next]_vars => OpenInv'
<1> SUFFICES ASSUME TypeOK, OpenInv, [Next]_vars PROVE OpenInv'
  OBVIOUS
<1>1. ASSUME NEW k \in Kinds, IOT_EnOS_Report(k) PROVE OpenInv'
  <2>1. /\ dmc_list' \subseteq dmc_list \cup {open_request(k)}
        /\ UNCHANGED <<asked, replies, msg_list, rx>>
        /\ call' = [pc |-> "request", id |-> g_report_id, kind |-> k]
        /\ g_report_id' = g_report_id + 1
    BY <1>1 DEF IOT_EnOS_Report, dm_msg_cache_insert, cache, cloud
  <2>2. g_report_id \in Int
    BY BoundsAssumption DEF TypeOK, Id
  <2>3. Calling' = {call'}
    BY <2>1 DEF Calling
  <2>4. Queued' = Queued /\ Handled' = Handled
    BY <2>1 DEF Queued, Handled
  <2>5. \A x \in Open' : x \in Open \/ (x.id = g_report_id /\ x.kind = k)
    BY <2>1, <2>3, <2>4 DEF Open, open_request
  <2>6. \A x \in Open : x.id \in Int
    <3>1. Queued \subseteq Event
      BY QueueFacts
    <3>2. \A i \in Id : i \in Int
      BY BoundsAssumption DEF Id
    <3> QED  BY <3>1, <3>2 DEF Open, TypeOK, Node, Event, Handled, Calling
  <2>7. \A x \in Open : x.id < g_report_id
    BY DEF OpenInv
  <2>8. \A x \in Open' : x.id < g_report_id'
    BY <2>1, <2>2, <2>5, <2>6, <2>7
  <2>9. \A x, y \in Open' : x.id = y.id => x.kind = y.kind
    <3>1. \A x \in Open : x.id # g_report_id
      BY <2>2, <2>6, <2>7
    <3> QED  BY <2>5, <3>1 DEF OpenInv
  <2> QED  BY <2>8, <2>9 DEF OpenInv
<1>2. CASE dm_msg_request_sent
  <2>1. /\ UNCHANGED <<g_report_id, dmc_list, replies, msg_list, rx>>
        /\ asked' = asked \cup {[id |-> call.id, kind |-> call.kind]}
        /\ call.pc # "idle"
        /\ call'.pc = "idle" \/ (call'.id = call.id /\ call'.kind = call.kind)
    BY <1>2 DEF dm_msg_request_sent, cache, IdleCall, TypeOK
  <2>2. Queued' = Queued /\ Handled' = Handled /\ call \in Open
    BY <2>1 DEF Queued, Handled, Open, Calling
  <2>3. \A x \in Open' : \E y \in Open : x.id = y.id /\ x.kind = y.kind
    BY <2>1, <2>2 DEF Open, Calling
  <2> QED  BY <2>1, <2>3, OpenKept
<1>3. CASE dm_msg_request_fails \/ sync_callback_list_insert \/ HAL_SemaphoreWait_posted
           \/ HAL_SemaphoreWait_timeout \/ sync_callback_list_remove
  <2>1. /\ UNCHANGED <<g_report_id, asked, replies, msg_list, rx>>
        /\ dmc_list' \subseteq dmc_list
        /\ call.pc # "idle"
        /\ call'.pc = "idle" \/ (call'.id = call.id /\ call'.kind = call.kind)
    BY <1>3 DEF dm_msg_request_fails, sync_callback_list_insert, HAL_SemaphoreWait_posted,
         HAL_SemaphoreWait_timeout, sync_callback_list_remove, dm_msg_cache_remove,
         cache, cloud, IdleCall, TypeOK
  <2>2. Queued' = Queued /\ Handled' = Handled /\ call \in Open
    BY <2>1 DEF Queued, Handled, Open, Calling
  <2>3. \A x \in Open' : \E y \in Open : x.id = y.id /\ x.kind = y.kind
    BY <2>1, <2>2 DEF Open, Calling
  <2> QED  BY <2>1, <2>3, OpenKept
<1>4. CASE ReplyStep
  <2>1. /\ UNCHANGED <<g_report_id, asked, call>>
        /\ dmc_list' \subseteq dmc_list /\ replies' \subseteq replies
    BY <1>4 DEF ReplyStep, dm_msg_proc_reply, dm_msg_reply, dm_msg_proc_remove,
                dm_msg_cache_remove, cache, cloud
  <2>2. Calling' = Calling
    BY <2>1 DEF Calling
  <2>3. Queued' \subseteq Queued \cup Handled
    <3>1. CASE dm_msg_reply
      <4>1. rx.reply \in Event /\ rx.reply \in Handled
        BY <3>1 DEF TypeOK, dm_msg_reply, Handled
      <4> QED  BY <3>1, <4>1, SendQueue, QueueFacts DEF dm_msg_reply
    <3>2. CASE msg_list' = msg_list
      BY <3>2, QueueFacts
    <3> QED  BY <1>4, <3>1, <3>2 DEF ReplyStep, dm_msg_proc_reply, dm_msg_proc_remove
  <2>4. Handled' \subseteq Handled \cup replies
    BY <1>4 DEF ReplyStep, dm_msg_proc_reply, dm_msg_reply, dm_msg_proc_remove, Handled, TypeOK
  <2>5. Open' \subseteq Open
    BY <2>1, <2>2, <2>3, <2>4 DEF Open
  <2> QED  BY <2>1, <2>5, OpenKept
<1>5. CASE dm_msg_cache_tick
  <2>1. PICK n \in dmc_list : dmc_list' = dmc_list \ {n} /\ dm_msg_send_to_user(timeout_event(n))
    BY <1>5 DEF dm_msg_cache_tick
  <2>2. UNCHANGED <<g_report_id, asked, replies, call, rx>>
    BY <1>5 DEF dm_msg_cache_tick, cloud
  <2>3. /\ timeout_event(n) \in Event
        /\ timeout_event(n).id = n.id /\ timeout_event(n).kind = n.kind
    BY DEF timeout_event, TypeOK, Node, Event, Code
  <2>4. Queued' \subseteq Queued \cup {timeout_event(n)} /\ Handled' = Handled /\ Calling' = Calling
    BY <2>1, <2>2, <2>3, SendQueue DEF Handled, Calling
  <2>5. \A x \in Open' : \E y \in Open : x.id = y.id /\ x.kind = y.kind
    BY <2>1, <2>2, <2>3, <2>4 DEF Open
  <2> QED  BY <2>2, <2>5, OpenKept
<1>6. CASE dm_ipc_msg_next
  <2>1. UNCHANGED <<g_report_id, dmc_list, asked, replies, call, rx>> /\ Queued' \subseteq Queued
    BY <1>6, QueueFacts DEF dm_ipc_msg_next, cache, cloud
  <2>2. Open' \subseteq Open
    BY <2>1 DEF Open, Handled, Calling
  <2> QED  BY <2>1, <2>2, OpenKept
<1>7. CASE cache_timer
  <2>1. PICK n \in dmc_list : dmc_list' = (dmc_list \ {n}) \cup {[n EXCEPT !.expired = TRUE]}
    BY <1>7 DEF cache_timer
  <2>2. UNCHANGED <<g_report_id, asked, replies, call, rx, msg_list>>
    BY <1>7 DEF cache_timer, cloud
  <2>3. [n EXCEPT !.expired = TRUE].id = n.id /\ [n EXCEPT !.expired = TRUE].kind = n.kind
    BY DEF TypeOK, Node
  <2>4. Queued' = Queued /\ Handled' = Handled /\ Calling' = Calling
    BY <2>2 DEF Queued, Handled, Calling
  <2>5. \A x \in Open' : \E y \in Open : x.id = y.id /\ x.kind = y.kind
    BY <2>1, <2>2, <2>3, <2>4 DEF Open
  <2> QED  BY <2>2, <2>5, OpenKept
<1>8. CASE cloud_answers
  <2>1. PICK a \in asked, code \in {"SUCCESS", "REFUSED"}, clean \in BOOLEAN :
          replies' = replies \cup {[id |-> a.id, kind |-> a.kind, code |-> code, clean |-> clean]}
    BY <1>8 DEF cloud_answers
  <2>2. UNCHANGED <<g_report_id, dmc_list, call, rx, msg_list>> /\ asked' \subseteq asked
    BY <1>8 DEF cloud_answers, cache
  <2>3. Queued' = Queued /\ Handled' = Handled /\ Calling' = Calling
    BY <2>2 DEF Queued, Handled, Calling
  <2>4. \A x \in Open' : \E y \in Open : x.id = y.id /\ x.kind = y.kind
    BY <2>1, <2>2, <2>3 DEF Open
  <2> QED  BY <2>2, <2>4, OpenKept
<1>9. CASE iotx_dm_dispatch \/ dm_msg_cache_tick_done \/ dispatch_done \/ UNCHANGED vars
  <2>1. UNCHANGED <<g_report_id, dmc_list, asked, replies, call, rx, msg_list>>
    BY <1>9 DEF iotx_dm_dispatch, dm_msg_cache_tick_done, dispatch_done, vars, cache, cloud
  <2> QED  BY <2>1 DEF OpenInv, Open, Queued, Handled, Calling
<1> QED  BY <1>1, <1>2, <1>3, <1>4, <1>5, <1>6, <1>7, <1>8, <1>9 DEF Next, CallStep, Dispatch

-----------------------------------------------------------------------------
(* Events *)

\* What the cloud answered stays answered.
LEMMA AnswersGrow == [Next]_vars => answers \subseteq answers'
<1> SUFFICES ASSUME [Next]_vars PROVE answers \subseteq answers'
  OBVIOUS
<1>1. CASE cloud_answers
  BY <1>1 DEF cloud_answers
<1>2. CASE CallStep \/ \E k \in Kinds : IOT_EnOS_Report(k)
  BY <1>2 DEF IOT_EnOS_Report, CallStep, dm_msg_request_sent, dm_msg_request_fails,
       sync_callback_list_insert, HAL_SemaphoreWait_posted, HAL_SemaphoreWait_timeout,
       sync_callback_list_remove, history
<1>3. CASE ReplyStep \/ Dispatch \/ cache_timer \/ UNCHANGED vars
  BY <1>3 DEF ReplyStep, dm_msg_proc_reply, dm_msg_reply, dm_msg_proc_remove, Dispatch,
       iotx_dm_dispatch, dm_msg_cache_tick, dm_msg_cache_tick_done, dm_ipc_msg_next,
       dispatch_done, cache_timer, history, vars
<1> QED  BY <1>1, <1>2, <1>3 DEF Next

\* Replies come from the cloud, and the queue gets replies and timeouts only.
LEMMA GenuineStep == TypeOK /\ GenuineInv /\ [Next]_vars => GenuineInv'
<1> SUFFICES ASSUME TypeOK, GenuineInv, [Next]_vars PROVE GenuineInv'
  OBVIOUS
<1>1. ASSUME NEW e, Genuine(e) PROVE Genuine(e)'
  BY <1>1, AnswersGrow DEF Genuine
<1>2. CASE replies' \cup Queued' \cup Handled' \subseteq replies \cup Queued \cup Handled
  BY <1>1, <1>2 DEF GenuineInv
<1>3. CASE UNCHANGED <<replies, msg_list, rx>>
  BY <1>2, <1>3 DEF Queued, Handled
<1>4. CASE (\E k \in Kinds : IOT_EnOS_Report(k)) \/ CallStep \/ cache_timer \/ UNCHANGED vars
  BY <1>3, <1>4 DEF IOT_EnOS_Report, CallStep, dm_msg_request_sent, dm_msg_request_fails,
       sync_callback_list_insert, HAL_SemaphoreWait_posted, HAL_SemaphoreWait_timeout,
       sync_callback_list_remove, cache_timer, vars, cloud
<1>5. CASE iotx_dm_dispatch \/ dm_msg_cache_tick_done \/ dispatch_done
  BY <1>3, <1>5 DEF iotx_dm_dispatch, dm_msg_cache_tick_done, dispatch_done, cloud
<1>6. CASE ReplyStep
  <2>1. replies' \subseteq replies
    BY <1>6 DEF ReplyStep, dm_msg_proc_reply, dm_msg_reply, dm_msg_proc_remove, cloud
  <2>2. Queued' \subseteq Queued \cup Handled
    <3>1. CASE dm_msg_reply
      <4>1. rx.reply \in Event /\ rx.reply \in Handled
        BY <3>1 DEF TypeOK, dm_msg_reply, Handled
      <4> QED  BY <3>1, <4>1, SendQueue, QueueFacts DEF dm_msg_reply
    <3>2. CASE msg_list' = msg_list
      BY <3>2, QueueFacts
    <3> QED  BY <1>6, <3>1, <3>2 DEF ReplyStep, dm_msg_proc_reply, dm_msg_proc_remove
  <2>3. Handled' \subseteq Handled \cup replies
    BY <1>6 DEF ReplyStep, dm_msg_proc_reply, dm_msg_reply, dm_msg_proc_remove, Handled, TypeOK
  <2> QED  BY <1>2, <2>1, <2>2, <2>3
<1>7. CASE dm_msg_cache_tick
  <2>1. PICK n \in dmc_list : dm_msg_send_to_user(timeout_event(n))
    BY <1>7 DEF dm_msg_cache_tick
  <2>2. timeout_event(n) \in Event /\ Genuine(timeout_event(n))'
    BY DEF timeout_event, TypeOK, Node, Event, Code, Genuine
  <2>3. Queued' \subseteq Queued \cup {timeout_event(n)} /\ Handled' = Handled /\ replies' = replies
    BY <1>7, <2>1, <2>2, SendQueue DEF Handled, dm_msg_cache_tick, cloud
  <2> QED  BY <1>1, <2>2, <2>3 DEF GenuineInv
<1>8. CASE dm_ipc_msg_next
  <2>1. Queued' \subseteq Queued /\ Handled' = Handled /\ replies' = replies
    BY <1>8, QueueFacts DEF dm_ipc_msg_next, Handled, cloud
  <2> QED  BY <1>2, <2>1
<1>9. CASE cloud_answers
  <2>1. PICK a \in asked, code \in {"SUCCESS", "REFUSED"}, clean \in BOOLEAN :
          /\ replies' = replies \cup {[id |-> a.id, kind |-> a.kind, code |-> code, clean |-> clean]}
          /\ answers' = answers \cup {[id |-> a.id, kind |-> a.kind, code |-> code]}
    BY <1>9 DEF cloud_answers
  <2>2. Queued' = Queued /\ Handled' = Handled
    BY <1>9 DEF cloud_answers, Queued, Handled
  <2>3. Genuine([id |-> a.id, kind |-> a.kind, code |-> code, clean |-> clean])'
    BY <2>1 DEF Genuine
  <2> QED  BY <1>1, <2>1, <2>2, <2>3 DEF GenuineInv
<1> QED  BY <1>4, <1>5, <1>6, <1>7, <1>8, <1>9 DEF Next, Dispatch

\* The status of the sub-device follows what the cloud granted.
LEMMA LoginStep == TypeOK /\ GenuineInv /\ LoginedMeansGranted /\ [Next]_vars => LoginedMeansGranted'
<1> SUFFICES ASSUME TypeOK, GenuineInv, LoginedMeansGranted, [Next]_vars PROVE LoginedMeansGranted'
  OBVIOUS
<1>1. CASE dev_status' = dev_status
  BY <1>1, AnswersGrow DEF LoginedMeansGranted
<1>2. CASE dm_msg_reply
  <2>1. CASE dev_status' = "LOGINED" /\ dev_status # "LOGINED"
    <3>1. rx.reply.code = "SUCCESS" /\ grants_login(rx.reply.kind) /\ rx.pc # "idle"
      BY <1>2, <2>1 DEF dm_msg_reply, StatusAfter
    <3>2. Genuine(rx.reply)
      BY <3>1 DEF GenuineInv, Handled
    <3>3. [id |-> rx.reply.id, kind |-> rx.reply.kind, code |-> "SUCCESS"] \in answers'
      BY <3>1, <3>2, AnswersGrow DEF Genuine
    <3> DEFINE a == [id |-> rx.reply.id, kind |-> rx.reply.kind, code |-> "SUCCESS"]
    <3>4. grants_login(a.kind) /\ a.code = "SUCCESS"
      BY <3>1
    <3> QED  BY <3>3, <3>4 DEF LoginedMeansGranted
  <2>2. CASE dev_status' # "LOGINED"
    BY <2>2 DEF LoginedMeansGranted
  <2> QED  BY <1>1, <2>1, <2>2
<1>3. CASE ~dm_msg_reply
  BY <1>1, <1>3 DEF Next, IOT_EnOS_Report, CallStep, dm_msg_request_sent, dm_msg_request_fails,
       sync_callback_list_insert, HAL_SemaphoreWait_posted, HAL_SemaphoreWait_timeout,
       sync_callback_list_remove, ReplyStep, dm_msg_proc_reply, dm_msg_proc_remove, Dispatch,
       iotx_dm_dispatch, dm_msg_cache_tick, dm_msg_cache_tick_done, dm_ipc_msg_next,
       dispatch_done, cache_timer, cloud_answers, vars
<1> QED  BY <1>2, <1>3

\* A handled reply leaves no node behind, and a new node has a new id.
LEMMA CachedStep ==
  TypeOK /\ DoneInv /\ AnsweredNotCached /\ [Next]_vars => AnsweredNotCached'
<1> SUFFICES ASSUME TypeOK, DoneInv, AnsweredNotCached, [Next]_vars PROVE AnsweredNotCached'
  OBVIOUS
<1>1. CASE processed' = processed /\ dmc_list' \subseteq dmc_list
  BY <1>1 DEF AnsweredNotCached
<1>2. ASSUME NEW k \in Kinds, IOT_EnOS_Report(k) PROVE AnsweredNotCached'
  <2>1. dmc_list' \subseteq dmc_list \cup {open_request(k)} /\ processed' = processed
    BY <1>2 DEF IOT_EnOS_Report, dm_msg_cache_insert, cache, history
  <2>2. open_request(k).id = g_report_id /\ g_report_id \notin processed
    BY BoundsAssumption DEF open_request, DoneInv, TypeOK, Id
  <2> QED  BY <2>1, <2>2 DEF AnsweredNotCached
<1>3. CASE dm_msg_proc_remove
  <2>1. dmc_list' = dmc_list \ nodes_of(rx.reply.id) /\ processed' = processed \cup {rx.reply.id}
    BY <1>3 DEF dm_msg_proc_remove, dm_msg_cache_remove
  <2> QED  BY <2>1 DEF AnsweredNotCached, nodes_of
<1>4. CASE cache_timer
  <2>1. PICK n \in dmc_list : dmc_list' = (dmc_list \ {n}) \cup {[n EXCEPT !.expired = TRUE]}
    BY <1>4 DEF cache_timer
  <2>2. [n EXCEPT !.expired = TRUE].id = n.id /\ processed' = processed
    BY <1>4 DEF TypeOK, Node, cache_timer, history
  <2> QED  BY <2>1, <2>2 DEF AnsweredNotCached
<1>5. CASE CallStep \/ (\E r \in replies : dm_msg_proc_reply(r)) \/ dm_msg_reply
  BY <1>1, <1>5 DEF CallStep, dm_msg_request_sent, dm_msg_request_fails,
       sync_callback_list_insert, HAL_SemaphoreWait_posted, HAL_SemaphoreWait_timeout,
       sync_callback_list_remove, dm_msg_proc_reply, dm_msg_reply, dm_msg_cache_remove,
       cache, history
<1>6. CASE Dispatch \/ cloud_answers \/ UNCHANGED vars
  BY <1>1, <1>6 DEF Dispatch, iotx_dm_dispatch, dm_msg_cache_tick, dm_msg_cache_tick_done,
       dm_ipc_msg_next, dispatch_done, cloud_answers, vars, cache, history
<1> QED  BY <1>2, <1>3, <1>4, <1>5, <1>6 DEF Next, ReplyStep

-----------------------------------------------------------------------------
(* The waiting call *)

\* The call in progress has an id that was handed out.
LEMMA CallBegun ==
  ASSUME TypeOK, OpenInv, call.pc # "idle" PROVE call.id < g_report_id
BY DEF OpenInv, Open, Calling

\* An event counts as served only for the call that waits for it.
LEMMA ServedGrows ==
  ASSUME NEW e, event_callback(e)
  PROVE  \A f \in served' : f \in served \/ (f.id = call.id /\ e.id = call.id /\ call.pc = "wait")
<1> DEFINE g == [id |-> e.id, code |-> e.code]
<1>1. served' = IF call.pc = "wait" /\ call.id = e.id THEN served \cup {g} ELSE served
  BY DEF event_callback
<1>2. g.id = e.id
  OBVIOUS
<1> HIDE DEF g
<1> QED  BY <1>1, <1>2

\* Only an event that carries the id and the kind of the waiting call posts it.
LEMMA SyncStep ==
  TypeOK /\ OpenInv /\ GenuineInv /\ DoneInv /\ SyncInv /\ [Next]_vars => SyncInv'
<1> SUFFICES ASSUME TypeOK, OpenInv, GenuineInv, DoneInv, SyncInv, [Next]_vars PROVE SyncInv'
  OBVIOUS
<1>1. CASE UNCHANGED <<call, sync_list, served>>
  BY <1>1, AnswersGrow DEF SyncInv
<1>2. ASSUME NEW k \in Kinds, IOT_EnOS_Report(k) PROVE SyncInv'
  <2>1. /\ call.pc = "idle" /\ call'.pc = "request" /\ call'.id = g_report_id
        /\ UNCHANGED <<sync_list, served>>
    BY <1>2 DEF IOT_EnOS_Report, history
  <2>2. \A e \in served : e.id # g_report_id
    BY BoundsAssumption DEF DoneInv, TypeOK, Id
  <2> QED  BY <2>1, <2>2 DEF SyncInv
<1>3. CASE dm_msg_request_sent
  <2>1. /\ call.pc = "request" /\ UNCHANGED <<sync_list, served>>
        /\ \/ call'.pc = "idle"
           \/ call'.pc = "sent" /\ Sync(call'.kind) /\ call'.id = call.id
    BY <1>3 DEF dm_msg_request_sent, IdleCall, TypeOK, history
  <2> QED  BY <2>1 DEF SyncInv
<1>4. CASE dm_msg_request_fails
  BY <1>4 DEF SyncInv, dm_msg_request_fails, IdleCall
<1>5. CASE sync_callback_list_insert
  <2>1. CASE call' = IdleCall
    BY <1>5, <2>1 DEF sync_callback_list_insert, SyncInv, IdleCall
  <2>2. CASE call' = [call EXCEPT !.pc = "wait"]
    <3>1. /\ sync_list' = {[id |-> call.id, code |-> "SUCCESS", posted |-> FALSE]}
          /\ served' = served
      BY <1>5, <2>2 DEF sync_callback_list_insert, SyncInv, history, IdleCall, TypeOK
    <3>2. call'.pc = "wait" /\ call'.id = call.id /\ call'.kind = call.kind /\ Sync(call.kind)
      BY <1>5, <2>2 DEF sync_callback_list_insert, SyncInv, TypeOK
    <3>3. \A e \in served : e.id # call.id
      BY <1>5 DEF sync_callback_list_insert, SyncInv
    <3> QED  BY <3>1, <3>2, <3>3 DEF SyncInv
  <2> QED  BY <1>5, <2>1, <2>2 DEF sync_callback_list_insert
<1>6. CASE HAL_SemaphoreWait_posted \/ HAL_SemaphoreWait_timeout
  <2>1. /\ call.pc = "wait" /\ call'.id = call.id /\ call'.kind = call.kind
        /\ UNCHANGED <<sync_list, served, answers>>
        /\ \/ call'.pc = "woken" /\ posted(call.id)
           \/ call'.pc = "expired" /\ ~posted(call.id)
    BY <1>6 DEF HAL_SemaphoreWait_posted, HAL_SemaphoreWait_timeout, TypeOK, history
  <2> QED  BY <2>1 DEF SyncInv, posted
<1>7. CASE sync_callback_list_remove
  <2>1. call'.pc = "idle"
    BY <1>7 DEF sync_callback_list_remove, IdleCall
  <2>2. sync_list' = {}
    BY <1>7 DEF sync_callback_list_remove, SyncInv
  <2> QED  BY <2>1, <2>2 DEF SyncInv
<1>8. CASE dm_ipc_msg_next
  <2> DEFINE e == Head(msg_list)
             upd(s) == IF posts(e, s) THEN [s EXCEPT !.code = event_code(e), !.posted = TRUE]
                                      ELSE s
  <2>1. e \in Queued /\ UNCHANGED <<call, answers>> /\ event_callback(e)
    BY <1>8, QueueFacts DEF dm_ipc_msg_next
  <2>2. Genuine(e) /\ (call.pc # "idle" /\ e.id = call.id => e.kind = call.kind)
    BY <2>1 DEF GenuineInv, OpenInv, Open, Calling
  <2>3. sync_list' = {upd(s) : s \in sync_list}
    BY <2>1 DEF event_callback
  <2>4. \A f \in served' : f \in served \/ (f.id = call.id /\ e.id = call.id /\ call.pc = "wait")
    BY <2>1, ServedGrows
  <2> HIDE DEF e
  <2>5. ASSUME NEW s \in sync_list
        PROVE  /\ upd(s).id = s.id /\ (s.posted => upd(s).posted)
               /\ posts(e, s) => upd(s).posted /\ upd(s).code = event_code(e)
               /\ ~posts(e, s) => upd(s) = s
    BY DEF TypeOK
  <2>6. ASSUME NEW s \in sync_list
        PROVE  /\ upd(s).posted /\ upd(s).code = "SUCCESS"
                    => [id |-> call.id, kind |-> call.kind, code |-> "SUCCESS"] \in answers
               /\ call.kind # "LOGIN_BATCH" /\ ~upd(s).posted => \A f \in served' : f.id # call.id
    <3>1. call.pc \in {"wait", "woken", "expired"} /\ s.id = call.id /\ Sync(call.kind)
      BY DEF SyncInv
    <3>2. CASE posts(e, s)
      <4>1. e.id = call.id /\ e.kind = call.kind
        BY <2>2, <3>1, <3>2 DEF posts
      <4>2. event_code(e) = "SUCCESS" => e.code = "SUCCESS"
        BY DEF event_code
      <4> QED  BY <2>2, <2>5, <3>2, <4>1, <4>2 DEF Genuine
    <3>3. CASE ~posts(e, s)
      <4>1. e.id = call.id => call.kind = "LOGIN_BATCH"
        BY <2>2, <3>1, <3>3 DEF posts, Sync
      <4> QED  BY <2>4, <2>5, <3>3, <4>1 DEF SyncInv
    <3> QED  BY <3>2, <3>3
  <2>7. \A s, t \in sync_list' : s = t
    <3> HIDE DEF upd
    <3> QED  BY <2>3 DEF SyncInv
  <2>8. sync_list' # {} <=> sync_list # {}
    BY <2>3
  <2>9. call.pc # "wait" => \A f \in served' : f \in served
    BY <2>4
  <2>10. \A s \in sync_list' :
           /\ s.id = call.id
           /\ s.posted /\ s.code = "SUCCESS"
                => [id |-> call.id, kind |-> call.kind, code |-> "SUCCESS"] \in answers
           /\ call.pc = "woken" => s.posted
           /\ call.kind # "LOGIN_BATCH" /\ ~s.posted => \A f \in served' : f.id # call.id
    <3> HIDE DEF upd
    <3> QED  BY <2>3, <2>5, <2>6 DEF SyncInv
  <2> QED  BY <2>1, <2>7, <2>8, <2>9, <2>10 DEF SyncInv
<1>9. CASE ReplyStep \/ cache_timer \/ cloud_answers \/ UNCHANGED vars
  BY <1>1, <1>9 DEF ReplyStep, dm_msg_proc_reply, dm_msg_reply, dm_msg_proc_remove,
       cache_timer, cloud_answers, vars, history
<1>10. CASE Dispatch /\ ~dm_ipc_msg_next
  BY <1>1, <1>10 DEF Dispatch, iotx_dm_dispatch, dm_msg_cache_tick, dm_msg_cache_tick_done,
       dispatch_done, history
<1> QED  BY <1>2, <1>3, <1>4, <1>5, <1>6, <1>7, <1>8, <1>9, <1>10 DEF Next, CallStep

\* Results, served events and handled replies belong to ids handed out, and
\* a call has its result only when it returns.
LEMMA DoneStep == TypeOK /\ OpenInv /\ DoneInv /\ [Next]_vars => DoneInv'
<1> SUFFICES ASSUME TypeOK, OpenInv, DoneInv, [Next]_vars PROVE DoneInv'
  OBVIOUS
<1>0. /\ g_report_id \in Int /\ call.id \in Int /\ rx.reply.id \in Int
      /\ \A r \in results : r.id \in Int
      /\ \A e \in served : e.id \in Int
      /\ \A i \in processed : i \in Int
  <2>1. \A i \in Id : i \in Int
    BY BoundsAssumption DEF Id
  <2> QED  BY <2>1 DEF TypeOK, Event
<1>1. CASE UNCHANGED <<g_report_id, call, results, served, processed>>
  BY <1>1 DEF DoneInv
<1>2. ASSUME NEW k \in Kinds, IOT_EnOS_Report(k) PROVE DoneInv'
  <2>1. /\ call'.id = g_report_id /\ g_report_id' = g_report_id + 1
        /\ UNCHANGED <<results, served, processed>>
    BY <1>2 DEF IOT_EnOS_Report, history
  <2> QED  BY <1>0, <2>1 DEF DoneInv
<1>3. CASE CallStep /\ ~sync_callback_list_remove
  <2>1. /\ call.pc # "idle" /\ (call'.pc = "idle" \/ call'.id = call.id)
        /\ UNCHANGED <<g_report_id, results, served, processed>>
    BY <1>3 DEF CallStep, dm_msg_request_sent, dm_msg_request_fails,
         sync_callback_list_insert, HAL_SemaphoreWait_posted, HAL_SemaphoreWait_timeout,
         IdleCall, TypeOK, history
  <2> QED  BY <2>1 DEF DoneInv
<1>4. CASE sync_callback_list_remove
  <2>1. /\ call.pc # "idle" /\ call'.pc = "idle"
        /\ \A r \in results' : r \in results \/ r.id = call.id
        /\ UNCHANGED <<g_report_id, served, processed>>
    BY <1>4 DEF sync_callback_list_remove, IdleCall
  <2>2. call.id < g_report_id
    BY <2>1, CallBegun
  <2> QED  BY <2>1, <2>2 DEF DoneInv
<1>5. CASE dm_msg_proc_remove
  <2>1. processed' = processed \cup {rx.reply.id} /\ UNCHANGED <<g_report_id, call, results, served>>
    BY <1>5 DEF dm_msg_proc_remove
  <2>2. rx.reply.id < g_report_id
    BY <1>5 DEF dm_msg_proc_remove, OpenInv, Open, Handled
  <2> QED  BY <2>1, <2>2 DEF DoneInv
<1>6. CASE dm_ipc_msg_next
  <2>1. /\ \A e \in served' : e \in served \/ (call.pc # "idle" /\ e.id = call.id)
        /\ UNCHANGED <<g_report_id, call, results, processed>>
    BY <1>6, ServedGrows DEF dm_ipc_msg_next
  <2>2. \A e \in served' : e.id < g_report_id
    BY <2>1, CallBegun DEF DoneInv
  <2> QED  BY <2>1, <2>2 DEF DoneInv
<1>7. CASE (ReplyStep /\ ~dm_msg_proc_remove) \/ cache_timer \/ cloud_answers \/ UNCHANGED vars
  BY <1>1, <1>7 DEF ReplyStep, dm_msg_proc_reply, dm_msg_reply,
       cache_timer, cloud_answers, vars, history
<1>8. CASE Dispatch /\ ~dm_ipc_msg_next
  BY <1>1, <1>8 DEF Dispatch, iotx_dm_dispatch, dm_msg_cache_tick, dm_msg_cache_tick_done,
       dispatch_done, history
<1> QED  BY <1>2, <1>3, <1>4, <1>5, <1>6, <1>7, <1>8 DEF Next

\* A result of a returning call is the answer to it, and not a timeout once
\* its event was served.
LEMMA ResultStep ==
  TypeOK /\ SyncInv /\ DoneInv /\ OwnAnswer /\ AnsweredInTime /\ [Next]_vars
    => OwnAnswer' /\ AnsweredInTime'
<1> SUFFICES ASSUME TypeOK, SyncInv, DoneInv, OwnAnswer, AnsweredInTime, [Next]_vars
             PROVE  OwnAnswer' /\ AnsweredInTime'
  OBVIOUS
<1>1. CASE UNCHANGED <<results, served>>
  BY <1>1, AnswersGrow DEF OwnAnswer, AnsweredInTime
<1>2. CASE sync_callback_list_remove
  <2>1. PICK s \in sync_list :
          /\ s.id = call.id
          /\ results' = results \cup {[id |-> call.id, kind |-> call.kind,
                            code |-> IF call.pc = "woken" THEN s.code ELSE "TIMEOUT"]}
    BY <1>2 DEF sync_callback_list_remove
  <2>2. UNCHANGED <<served, answers>> /\ call.pc \in {"woken", "expired"}
    BY <1>2 DEF sync_callback_list_remove
  <2> DEFINE r == [id |-> call.id, kind |-> call.kind,
                   code |-> IF call.pc = "woken" THEN s.code ELSE "TIMEOUT"]
  <2>3. r.code = "SUCCESS" => [id |-> r.id, kind |-> r.kind, code |-> "SUCCESS"] \in answers
    BY <2>2 DEF SyncInv
  <2>4. r.kind # "LOGIN_BATCH" /\ r.code = "TIMEOUT" => \A e \in served : e.id # r.id
    <3>1. s.code # "TIMEOUT"
      BY DEF TypeOK
    <3> QED  BY <2>2, <3>1 DEF SyncInv
  <2>5. results' = results \cup {r}
    BY <2>1
  <2> HIDE DEF r
  <2> QED  BY <2>2, <2>3, <2>4, <2>5 DEF OwnAnswer, AnsweredInTime
<1>3. CASE dm_ipc_msg_next
  <2>1. /\ \A e \in served' : e \in served \/ (call.pc # "idle" /\ e.id = call.id)
        /\ UNCHANGED <<results, answers>>
    BY <1>3, ServedGrows DEF dm_ipc_msg_next
  <2> QED  BY <2>1 DEF OwnAnswer, AnsweredInTime, DoneInv
<1>4. CASE (CallStep /\ ~sync_callback_list_remove) \/ \E k \in Kinds : IOT_EnOS_Report(k)
  BY <1>1, <1>4 DEF CallStep, dm_msg_request_sent, dm_msg_request_fails, IOT_EnOS_Report,
         sync_callback_list_insert, HAL_SemaphoreWait_posted, HAL_SemaphoreWait_timeout, history
<1>5. CASE ReplyStep \/ cache_timer \/ cloud_answers \/ UNCHANGED vars
  BY <1>1, <1>5 DEF ReplyStep, dm_msg_proc_reply, dm_msg_reply, dm_msg_proc_remove,
       cache_timer, cloud_answers, vars, history
<1>6. CASE Dispatch /\ ~dm_ipc_msg_next
  BY <1>1, <1>6 DEF Dispatch, iotx_dm_dispatch, dm_msg_cache_tick, dm_msg_cache_tick_done,
       dispatch_done, history
<1> QED  BY <1>2, <1>3, <1>4, <1>5, <1>6 DEF Next

-----------------------------------------------------------------------------
(* The theorems *)

\* Nothing was asked, answered or queued yet.
LEMMA RequestInit == Init => RequestInv
<1> SUFFICES ASSUME Init PROVE RequestInv
  OBVIOUS
<1>1. CacheCounted
  BY CacheInit
<1>2. TypeOK
  <2>1. 0 \in Id /\ "THING" \in AllKinds /\ "SUCCESS" \in Code
    BY BoundsAssumption DEF Id, AllKinds, Code
  <2>2. rx \in [pc : {"idle", "found", "done"}, reply : Event]
    BY <2>1 DEF Init, NoReply, Event
  <2>3. call \in [pc : {"idle", "request", "sent", "wait", "woken", "expired"},
                  id : Id, kind : AllKinds]
    BY <2>1 DEF Init, IdleCall
  <2>4. msg_list \in Seq(Event) /\ dmc_list_size \in Int
    BY DEF Init
  <2>5. count \in 0..DISPATCH_MAXLEN /\ faults \in 0..MaxFaults /\ dups \in 0..MaxDups
    BY BoundsAssumption DEF Init
  <2> QED  BY <2>1, <2>2, <2>3, <2>4, <2>5 DEF Init, TypeOK
<1>3. Queued = {} /\ Handled = {} /\ Calling = {}
  BY DEF Init, Queued, Handled, Calling, IdleCall
<1>4. OpenInv /\ GenuineInv
  BY <1>3 DEF Init, OpenInv, Open, GenuineInv
<1>5. SyncInv /\ DoneInv
  BY DEF Init, SyncInv, DoneInv, IdleCall
<1>6. OwnAnswer /\ AnsweredInTime /\ LoginedMeansGranted /\ AnsweredNotCached
  BY DEF Init, OwnAnswer, AnsweredInTime, LoginedMeansGranted, AnsweredNotCached
<1> QED  BY <1>1, <1>2, <1>4, <1>5, <1>6 DEF RequestInv

\* The inductive invariant holds in every reachable state.
THEOREM RequestInvariance == Spec => []RequestInv
<1>1. RequestInv /\ [Next]_vars => RequestInv'
  BY TypeStep, CacheStep, OpenStep, GenuineStep, SyncStep, DoneStep, ResultStep, LoginStep,
     CachedStep DEF RequestInv
<1> QED  BY <1>1, RequestInit, PTL DEF Spec

\* TypeOK, for any set of kinds and any limits.
THEOREM RequestTypes == Spec => []TypeOK
<1>1. RequestInv => TypeOK
  BY DEF RequestInv
<1> QED  BY <1>1, RequestInvariance, PTL

\* OwnAnswer, for any number of requests, losses and repeated replies: a
\* synchronous sub-device call returns success only if the cloud granted it.
THEOREM AnswersAreOwn == Spec => []OwnAnswer
<1>1. RequestInv => OwnAnswer
  BY DEF RequestInv
<1> QED  BY <1>1, RequestInvariance, PTL

\* AnsweredInTime: a topology, login or logout call whose event is dispatched
\* while it waits does not return a timeout.  Nothing of the kind holds for a
\* batch login, for whose event _iotx_enos_event_callback has no case.
THEOREM ServedInTime == Spec => []AnsweredInTime
<1>1. RequestInv => AnsweredInTime
  BY DEF RequestInv
<1> QED  BY <1>1, RequestInvariance, PTL

\* LoginedMeansGranted: dm_manager holds a sub-device as logged in only after
\* a login that the cloud granted.
THEOREM LoginsAreGranted == Spec => []LoginedMeansGranted
<1>1. RequestInv => LoginedMeansGranted
  BY DEF RequestInv
<1> QED  BY <1>1, RequestInvariance, PTL

\* AnsweredNotCached: once dm_msg_proc_*_reply is through with a reply, no
\* node of its request is left to time out.
THEOREM AnsweredLeavesCache == Spec => []AnsweredNotCached
<1>1. RequestInv => AnsweredNotCached
  BY DEF RequestInv
<1> QED  BY <1>1, RequestInvariance, PTL

=============================================================================
