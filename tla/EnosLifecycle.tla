--------------------------- MODULE EnosLifecycle ---------------------------
(***************************************************************************)
(* The life of a device: IOT_EnOS_Open, Connect, Yield and Close           *)
(* (src/dev_model/impl_enos.c) over the connection manager (iotx_cm.c,     *)
(* iotx_cm_mqtt.c) and its thread, composed with the commands of the cloud *)
(* (EnosCommand).  One thread of the application opens, connects and       *)
(* closes; one calls Yield; Callers report; Repliers answer commands.      *)
(*                                                                         *)
(* The flags of the context are read and written without a lock.  misuse   *)
(* records a thread that uses what Close has released: nothing is defined  *)
(* after that, and the model stops.                                        *)
(***************************************************************************)
EXTENDS EnosCommand

CONSTANTS
  Callers,               \* threads in calls that lock ctx->mutex
  CmThreads,             \* bound: cm_yield threads alive at a time
  MaxOpens               \* bound: successful and failed calls of Open

Main    == "main"
Yielder == "yielder"
None    == "none"

ASSUME LifecycleAssumption ==
  /\ MaxOpens \in Nat
  /\ {Main, Yielder, None} \cap (Callers \cup CmThreads \cup Repliers) = {}
  /\ Callers \cap CmThreads = {} /\ Callers \cap Repliers = {} /\ CmThreads \cap Repliers = {}

VARIABLES
  is_opened, is_connected, yield_running, is_yield_running,
  mutex,                 \* ctx->mutex: NULL, a mutex, or one that was destroyed
  owner,                 \* who has locked it
  dm,                    \* the modules of the device model are initialised
  connection,            \* _mqtt_conncection, registered in _cm_fd
  client,                \* g_mqtt_client
  inited_conn_num, yield_task_leave,
  cm,                    \* the cm_yield threads
  mpc, ypc, cpc,         \* where main, the yielder and the callers are
  opens,                 \* calls of Open so far
  \* history
  raced,                 \* threads that were in a window when Close went past it
  misuse                 \* threads that used something released

ctx_flags == <<is_opened, is_connected, yield_running, is_yield_running>>
cm_vars   == <<connection, client, inited_conn_num, yield_task_leave, cm>>
life_vars == <<ctx_flags, mutex, owner, dm, cm_vars, mpc, ypc, cpc, opens, raced, misuse>>
vars      == <<life_vars, command_vars>>

Threads == Callers \cup Repliers \cup CmThreads \cup {Main, Yielder}

LifeTypeOK ==
  /\ is_opened \in BOOLEAN /\ is_connected \in BOOLEAN
  /\ yield_running \in BOOLEAN /\ is_yield_running \in BOOLEAN
  /\ dm \in BOOLEAN /\ connection \in BOOLEAN /\ client \in BOOLEAN
  /\ yield_task_leave \in BOOLEAN
  /\ mutex \in {"null", "alive", "destroyed"}
  /\ owner \in Callers \cup {None, Main}
  /\ inited_conn_num \in 0..1
  /\ cm \in [CmThreads -> {"none", "created", "early", "loop", "yield"}]
  /\ mpc \in {"idle", "connect", "connecting", "subscribing", "close", "close_lock",
              "cm_close", "cm_wait", "release", "unlock", "destroy", "memset"}
  /\ ypc \in {"idle", "tested", "marked", "dispatch", "done"}
  /\ cpc \in [Callers -> {"idle", "passed", "using"}]
  /\ opens \in 0..MaxOpens
  /\ raced \subseteq Threads /\ misuse \subseteq Threads

TypeOK == CommandTypeOK /\ LifeTypeOK

\* Calls that have tested is_opened and not returned.
Inside == {c \in Callers : cpc[c] # "idle"} \cup {r \in Repliers : reply[r].pc # "idle"}

-----------------------------------------------------------------------------
(* IOT_EnOS_Open *)

master_open ==
  /\ mpc = "idle" /\ ~is_opened
  /\ is_opened' = TRUE /\ mutex' = "alive" /\ owner' = None
  /\ dm' = TRUE /\ connection' = TRUE
  /\ command_list_num' = 0 /\ command_list' = {} /\ queue' = <<>>
  /\ raced' = raced \ {Main}
  /\ UNCHANGED faults

\* Without its own mutex, or without something after it: then ctx->mutex keeps
\* the address of the destroyed one.
master_open_fails ==
  /\ mpc = "idle" /\ ~is_opened
  /\ Fault
  /\ \/ mutex' = "null" /\ UNCHANGED raced
     \/ mutex' = "destroyed" /\ raced' = raced \cup {Main}
  /\ UNCHANGED <<is_opened, owner, dm, connection, command_list_num, command_list, queue>>

Open ==
  /\ opens < MaxOpens /\ opens' = opens + 1
  /\ master_open \/ master_open_fails
  /\ UNCHANGED <<is_connected, yield_running, is_yield_running, client, inited_conn_num,
                 yield_task_leave, cm, mpc, ypc, cpc, misuse, heap, dpc, reply, commands,
                 held, responses, late, expired>>

-----------------------------------------------------------------------------
(* IOT_EnOS_Connect *)

Connect ==
  /\ mpc = "idle" /\ is_opened
  /\ mpc' = "connect"
  /\ UNCHANGED <<ctx_flags, mutex, owner, dm, cm_vars, ypc, cpc, opens, raced, misuse,
                 command_vars>>

\* is_connected is set before there is a connection.
master_connect ==
  /\ mpc = "connect" /\ owner = None
  /\ \/ is_connected /\ mpc' = "idle" /\ UNCHANGED <<owner, is_connected>>
     \/ /\ ~is_connected
        /\ is_connected' = TRUE /\ owner' = Main
        /\ mpc' = "connecting"
  /\ UNCHANGED <<is_opened, yield_running, is_yield_running, mutex, dm, cm_vars, ypc, cpc,
                 opens, raced, misuse, command_vars>>

Live == {t \in CmThreads : cm[t] # "none"}

create_counted(n) == n

\* inited_conn_num after HAL_ThreadCreate failed.
create_undone(n) == n - 1

\* _mqtt_connect finds the client of an earlier attempt or makes one; the first
\* connection starts the thread.  When either fails, Connect fails.
cm_connect ==
  /\ mpc = "connecting"
  /\ \/ /\ client' = TRUE
        /\ inited_conn_num' = inited_conn_num + 1
        /\ \E t \in CmThreads :
             /\ cm[t] = "none"
             /\ cm' = [cm EXCEPT ![t] = "created"]
             /\ raced' = raced \cup (IF Live = {} THEN {} ELSE Live \cup {t})
        /\ mpc' = "subscribing"
        /\ UNCHANGED <<is_connected, owner, faults>>
     \/ /\ Fault
        /\ \/ ~client /\ UNCHANGED <<client, inited_conn_num>>
           \/ client' = TRUE /\ inited_conn_num' = create_undone(inited_conn_num + 1)
        /\ is_connected' = FALSE /\ owner' = None /\ mpc' = "idle"
        /\ UNCHANGED <<cm, raced>>
  /\ UNCHANGED <<is_opened, yield_running, is_yield_running, mutex, dm, connection,
                 yield_task_leave, ypc, cpc, opens, misuse, list, dpc, reply, commands, queue,
                 held, responses, late, expired>>

\* dm_client_subscribe_all retries the topics that fail and then goes on.
connected ==
  /\ mpc = "subscribing"
  /\ yield_running' = TRUE
  /\ owner' = None /\ mpc' = "idle"
  /\ UNCHANGED <<is_opened, is_connected, is_yield_running, mutex, dm, cm_vars, ypc, cpc,
                 opens, raced, misuse, command_vars>>

-----------------------------------------------------------------------------
(* IOT_EnOS_Close *)

Close ==
  /\ mpc = "idle"
  /\ yield_running' = FALSE
  /\ mpc' = "close"
  /\ UNCHANGED <<is_opened, is_connected, is_yield_running, mutex, owner, dm, cm_vars, ypc,
                 cpc, opens, raced, misuse, command_vars>>

\* STATE_DEV_MODEL_YIELD_RUNNING when refused.  A Yield between its test of
\* yield_running and its setting of is_yield_running is not seen.
close_test ==
  /\ mpc = "close"
  /\ \/ is_yield_running /\ mpc' = "idle" /\ UNCHANGED raced
     \/ /\ ~is_yield_running /\ mpc' = "close_lock"
        /\ raced' = raced \cup (IF ypc = "tested" THEN {Yielder} ELSE {})
  /\ UNCHANGED <<ctx_flags, mutex, owner, dm, cm_vars, ypc, cpc, opens, misuse, command_vars>>

close_lock ==
  /\ mpc = "close_lock"
  /\ \/ /\ mutex = "null" /\ mpc' = "idle"
        /\ UNCHANGED <<is_opened, owner, raced, misuse>>
     \/ /\ mutex = "destroyed" /\ misuse' = misuse \cup {Main}
        /\ UNCHANGED <<is_opened, owner, raced, mpc>>
     \/ /\ mutex = "alive" /\ owner = None
        /\ owner' = Main /\ is_opened' = FALSE
        /\ raced' = raced \cup Inside
        /\ mpc' = "cm_close"
        /\ UNCHANGED misuse
  /\ UNCHANGED <<is_connected, yield_running, is_yield_running, mutex, dm, cm_vars, ypc, cpc,
                 opens, command_vars>>

\* iotx_cm_close, first part.
cm_close ==
  /\ mpc = "cm_close"
  /\ inited_conn_num' = IF inited_conn_num > 0 THEN inited_conn_num - 1 ELSE 0
  /\ mpc' = "cm_wait"
  /\ UNCHANGED <<ctx_flags, mutex, owner, dm, connection, client, yield_task_leave, cm, ypc,
                 cpc, opens, raced, misuse, command_vars>>

may_leave_now == TRUE

may_leave == inited_conn_num = 0 => yield_task_leave

client_kept == client

client_released == FALSE

cm_wait ==
  /\ mpc = "cm_wait"
  /\ may_leave
  /\ raced' = raced \cup {t \in CmThreads : cm[t] = "early"}
  /\ mpc' = "release"
  /\ UNCHANGED <<ctx_flags, mutex, owner, dm, cm_vars, ypc, cpc, opens, misuse, command_vars>>

\* The threads that use the device model or the client while they are released.
UsersAtRelease ==
  {t \in CmThreads : cm[t] = "yield"}
  \cup (IF ypc = "dispatch" THEN {Yielder} ELSE {})
  \cup {c \in Callers : cpc[c] = "using"}
  \cup InProgress

\* The rest of iotx_cm_close, then iotx_dm_close.
release ==
  /\ mpc = "release"
  /\ client' = client_released /\ connection' = FALSE /\ dm' = FALSE
  /\ queue' = <<>>
  /\ misuse' = misuse \cup UsersAtRelease
  /\ mpc' = "unlock"
  /\ UNCHANGED <<ctx_flags, mutex, owner, inited_conn_num, yield_task_leave, cm, ypc, cpc,
                 opens, raced, list, dpc, reply, commands, held, faults, responses, late, expired>>

close_unlock ==
  /\ mpc = "unlock"
  /\ owner' = None /\ mpc' = "destroy"
  /\ UNCHANGED <<ctx_flags, mutex, dm, cm_vars, ypc, cpc, opens, raced, misuse, command_vars>>

close_destroy ==
  /\ mpc = "destroy"
  /\ mutex' = "destroyed"
  /\ misuse' = misuse \cup ({owner} \ {None})
  /\ service_list_destroy
  /\ mpc' = "memset"
  /\ UNCHANGED <<ctx_flags, owner, dm, cm_vars, ypc, cpc, opens, raced, dpc, reply, commands,
                 queue, held, faults, responses>>

close_memset ==
  /\ mpc = "memset"
  /\ is_opened' = FALSE /\ is_connected' = FALSE
  /\ yield_running' = FALSE /\ is_yield_running' = FALSE
  /\ mutex' = "null" /\ owner' = None
  /\ mpc' = "idle"
  /\ UNCHANGED <<dm, cm_vars, ypc, cpc, opens, raced, misuse, command_vars>>

MainStep ==
  \/ master_connect \/ cm_connect \/ connected
  \/ close_test \/ close_lock \/ cm_close \/ cm_wait \/ release \/ close_unlock
  \/ close_destroy \/ close_memset

-----------------------------------------------------------------------------
(* _iotx_cm_yield_thread_func *)

\* The store to yield_task_leave may become visible after the loop's first load
\* of inited_conn_num: neither is atomic.
cm_start(t) ==
  /\ \/ /\ cm[t] = "created"
        /\ yield_task_leave' = FALSE
        /\ cm' = [cm EXCEPT ![t] = "loop"]
     \/ /\ cm[t] = "created" /\ inited_conn_num > 0
        /\ cm' = [cm EXCEPT ![t] = "early"]
        /\ UNCHANGED yield_task_leave
     \/ /\ cm[t] = "early"
        /\ yield_task_leave' = FALSE
        /\ cm' = [cm EXCEPT ![t] = IF connection THEN "yield" ELSE "loop"]
  /\ UNCHANGED raced

\* A fd that is not registered is passed over.
cm_yield(t) ==
  /\ cm[t] = "loop" /\ inited_conn_num > 0
  /\ cm' = [cm EXCEPT ![t] = IF connection THEN "yield" ELSE "loop"]
  /\ UNCHANGED <<yield_task_leave, raced>>

cm_yielded(t) ==
  /\ cm[t] = "yield"
  /\ cm' = [cm EXCEPT ![t] = "loop"]
  /\ UNCHANGED <<yield_task_leave, raced>>

left_unset == yield_task_leave

left == TRUE

cm_leave(t) ==
  /\ cm[t] = "loop" /\ inited_conn_num = 0
  /\ yield_task_leave' = left
  /\ cm' = [cm EXCEPT ![t] = "none"]
  /\ raced' = raced \ {t}

CmStep(t) ==
  /\ cm_start(t) \/ cm_yield(t) \/ cm_yielded(t) \/ cm_leave(t)
  /\ UNCHANGED <<ctx_flags, mutex, owner, dm, connection, client, inited_conn_num, mpc, ypc,
                 cpc, opens, misuse, command_vars>>

\* A command arrives while the thread yields.
cm_receives ==
  /\ \E t \in CmThreads : cm[t] = "yield"
  /\ cloud_commands
  /\ UNCHANGED life_vars

-----------------------------------------------------------------------------
(* IOT_EnOS_Yield *)

Yield ==
  /\ ypc = "idle" /\ yield_running
  /\ ypc' = "tested"
  /\ UNCHANGED <<ctx_flags, raced, misuse, command_vars>>

yield_mark ==
  /\ ypc = "tested"
  /\ is_yield_running' = TRUE
  /\ ypc' = "marked"
  /\ UNCHANGED <<is_opened, is_connected, yield_running, raced, misuse, command_vars>>

yield_enters ==
  /\ ypc = "marked"
  /\ \/ /\ ~(is_opened /\ is_connected)
        /\ is_yield_running' = FALSE
        /\ raced' = raced \ {Yielder}
        /\ ypc' = "idle"
        /\ UNCHANGED misuse
     \/ /\ is_opened /\ is_connected
        /\ misuse' = misuse \cup (IF dm THEN {} ELSE {Yielder})
        /\ ypc' = "dispatch"
        /\ UNCHANGED <<is_yield_running, raced>>
  /\ UNCHANGED <<is_opened, is_connected, yield_running, command_vars>>

\* iotx_dm_dispatch; iotx_dm_yield does nothing, the thread does it.
yield_dispatch ==
  /\ ypc = "dispatch"
  /\ \/ (overtime_handle \/ event_callback) /\ UNCHANGED ypc
     \/ dispatch_done /\ ypc' = "done"
  /\ UNCHANGED <<ctx_flags, raced, misuse>>

yield_returns ==
  /\ ypc = "done"
  /\ is_yield_running' = FALSE
  /\ raced' = raced \ {Yielder}
  /\ ypc' = "idle"
  /\ UNCHANGED <<is_opened, is_connected, yield_running, misuse, command_vars>>

YieldStep ==
  /\ yield_mark \/ yield_enters \/ yield_dispatch \/ yield_returns
  /\ UNCHANGED <<mutex, owner, dm, cm_vars, mpc, cpc, opens>>

-----------------------------------------------------------------------------
(* The other calls *)

\* IOT_EnOS_Report and the like, past the test of the flags.
Call(c) ==
  /\ cpc[c] = "idle" /\ is_opened /\ is_connected
  /\ cpc' = [cpc EXCEPT ![c] = "passed"]
  /\ UNCHANGED <<owner, raced, misuse>>

locked_by_none(c) == owner

locked_by(c) == IF mutex = "alive" THEN c ELSE owner

\* _iotx_enos_mutex_lock does nothing without a mutex.
call_lock(c) ==
  /\ cpc[c] = "passed"
  /\ mutex = "alive" => owner = None
  /\ owner' = locked_by(c)
  /\ misuse' = misuse \cup (IF mutex = "destroyed" \/ ~dm THEN {c} ELSE {})
  /\ cpc' = [cpc EXCEPT ![c] = "using"]
  /\ UNCHANGED raced

call_returns(c) ==
  /\ cpc[c] = "using"
  /\ owner' = IF mutex = "alive" THEN None ELSE owner
  /\ misuse' = misuse \cup (IF mutex = "destroyed" THEN {c} ELSE {})
  /\ cpc' = [cpc EXCEPT ![c] = "idle"]
  /\ raced' = raced \ {c}

CallStep(c) ==
  /\ call_lock(c) \/ call_returns(c)
  /\ UNCHANGED <<ctx_flags, mutex, dm, cm_vars, mpc, ypc, opens, command_vars>>

\* IOT_EnOS_CommandReply locks command_list_mutex only.
Reply(r) ==
  /\ is_opened /\ is_connected
  /\ \E ctx \in held : command_reply(r, ctx)
  /\ UNCHANGED life_vars

\* From Open to the end of service_list_destroy.  Then the list's lock is
\* destroyed and memset makes the links of its head NULL, until the next Open
\* that succeeds.
list_usable == dm \/ mpc \in {"unlock", "destroy"}

\* A reply sends through the device model and walks the list.
uses_released(r) ==
  \/ ~dm /\ reply[r].pc \in {"found", "sent"}
  \/ ~list_usable /\ reply[r].pc = "search"

LifeReplyStep(r) ==
  /\ ReplyStep(r)
  /\ misuse' = misuse \cup (IF uses_released(r) THEN {r} ELSE {})
  /\ raced' = IF reply'[r].pc = "idle" /\ ~uses_released(r) THEN raced \ {r} ELSE raced
  /\ UNCHANGED <<ctx_flags, mutex, owner, dm, cm_vars, mpc, ypc, cpc, opens>>

-----------------------------------------------------------------------------
(* The specification *)

Init ==
  /\ CommandInit
  /\ is_opened = FALSE /\ is_connected = FALSE
  /\ yield_running = FALSE /\ is_yield_running = FALSE
  /\ mutex = "null" /\ owner = None /\ dm = FALSE
  /\ connection = FALSE /\ client = FALSE
  /\ inited_conn_num = 0 /\ yield_task_leave = TRUE
  /\ cm = [t \in CmThreads |-> "none"]
  /\ mpc = "idle" /\ ypc = "idle" /\ cpc = [c \in Callers |-> "idle"]
  /\ opens = 0 /\ raced = {} /\ misuse = {}

Next ==
  /\ misuse = {}
  /\ \/ Open \/ Connect \/ Close \/ MainStep
     \/ \E t \in CmThreads : CmStep(t)
     \/ cm_receives
     \/ Yield /\ UNCHANGED <<mutex, owner, dm, cm_vars, mpc, cpc, opens>>
     \/ YieldStep
     \/ \E c \in Callers :
          \/ Call(c) /\ UNCHANGED <<ctx_flags, mutex, dm, cm_vars, mpc, ypc, opens,
                                    command_vars>>
          \/ CallStep(c)
     \/ \E r \in Repliers : Reply(r) \/ LifeReplyStep(r)

Spec == Init /\ [][Next]_vars

-----------------------------------------------------------------------------
(* Properties *)

\* Close never releases the device model, the client or a lock under a thread
\* that uses it, but for the windows the flags leave open: a Yield that had
\* tested yield_running and not yet set is_yield_running when Close looked, a
\* call that had tested is_opened when Close cleared it, a cm_yield thread
\* that starts late or beside another one; and Close after an Open that failed.
ClosedUnderNobody == misuse \subseteq raced

\* When the device is not open, and Open, Connect or Close is not running,
\* everything is released and counted out, whichever step failed before.
ClosedMeansReleased ==
  mpc = "idle" /\ ~is_opened =>
    /\ ~dm /\ ~connection /\ ~client /\ inited_conn_num = 0
    /\ command_list = {} /\ ~is_connected /\ ~yield_running

\* One thread at a time is within a call that locks ctx->mutex, Connect and Close
\* included, also when a call that Close overtook goes on in the next session.
MutexExclusion ==
  misuse = {} =>
    Cardinality({c \in Callers : cpc[c] = "using"}
                \cup {m \in {Main} : mpc \in {"connecting", "subscribing", "cm_close", "cm_wait",
                                               "release", "unlock"}}) <= 1

\* Close, which holds ctx->mutex and sleeps until yield_task_leave, never waits
\* for a cm_yield thread that has gone: one is left that will set it, whatever
\* failed before and however the threads of two sessions overlap.
SomebodyLeaves ==
  mpc = "cm_wait" /\ ~may_leave => Live # {}

=============================================================================
