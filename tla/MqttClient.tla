----------------------------- MODULE MqttClient -----------------------------
(***************************************************************************)
(* The MQTT client of the SDK (src/mqtt/impl/iotx_mqtt_client.c): the      *)
(* client state, the socket under it, the packet-id counter, the list of   *)
(* QoS1 publishes that wait for a PUBACK, the keepalive probes and the     *)
(* reconnect back-off, as the threads that call it interleave.             *)
(*                                                                         *)
(* Threads.  A yielder runs wrapper_mqtt_yield in a loop: keepalive and    *)
(* reconnect under lock_yield, then a cycle under lock_yield that reads    *)
(* one packet and walks the wait list.  A publisher runs                   *)
(* wrapper_mqtt_publish.  A step is the code between two points where      *)
(* another thread can interfere: lock_list_pub and lock_write_buf make     *)
(* MQTTPublish one step, client_state is read and written without          *)
(* relying on them.                                                        *)
(*                                                                         *)
(* Time is abstract: a timer of the code (next_ping_time,                  *)
(* reconnect_next_time, pub_start_time) is a flag that a timer action      *)
(* raises and the code lowers when it restarts the timer.                  *)
(***************************************************************************)
EXTENDS Integers, Sequences, FiniteSets

CONSTANTS
  Yielders,              \* threads that call wrapper_mqtt_yield
  Publishers,            \* threads that call wrapper_mqtt_publish
  Msgs,                  \* payloads the application publishes with QoS1
  Qos,                   \* the qos values the application asks for, within 0..2
  None,                  \* no thread, no payload
  REPUB_NUM_MAX,         \* IOTX_MC_REPUB_NUM_MAX, capacity of the wait list
  PACKET_ID_MAX,         \* IOTX_MC_PACKET_ID_MAX, 65535 in the code
  PROBE_MAX,             \* IOTX_MC_KEEPALIVE_PROBE_MAX
  INTERVAL_MIN,          \* IOTX_MC_RECONNECT_INTERVAL_MIN_MS
  INTERVAL_MAX,          \* IOTX_MC_RECONNECT_INTERVAL_MAX_MS
  CONN_TRIES,            \* RETRY_TIME_LIMIT - 1, CONNECTs of one _mqtt_connect
  MaxFaults,             \* bound: failures the network and the allocator inject
  MaxWire                \* bound: packets in flight when a timer or a new call adds one

ASSUME ThreadsAssumption ==
  /\ Yielders # {}
  /\ IsFiniteSet(Yielders)
  /\ Yielders \cap Publishers = {}
  /\ None \notin Yielders

ASSUME PayloadAssumption == None \notin Msgs /\ Qos \subseteq {0, 1, 2}

ASSUME LimitsAssumption ==
  /\ REPUB_NUM_MAX \in Nat \ {0}
  /\ PACKET_ID_MAX \in Nat \ {0}
  /\ PROBE_MAX \in Nat
  /\ INTERVAL_MIN \in Nat \ {0}
  /\ INTERVAL_MAX \in Nat /\ INTERVAL_MIN <= INTERVAL_MAX
  /\ CONN_TRIES \in Nat \ {0}
  /\ MaxFaults \in Nat
  /\ MaxWire \in Nat

VARIABLES
  \* the client structure
  client_state,          \* iotx_mc_state_t
  packet_id,             \* last packet id handed out
  list_pub_wait_ack,     \* QoS1 publishes without PUBACK (set: order is not used)
  keepalive_probes,      \* PINGREQs since a packet was last received
  reconnect_time_interval_ms,
  ping_due,              \* next_ping_time is expired
  reconnect_due,         \* reconnect_next_time is expired
  lock_yield,            \* the thread that holds lock_yield
  \* the threads
  ypc,                   \* where each yielder is
  boot,                  \* the first connection, inside IOT_MQTT_Construct
  try_count,             \* of _mqtt_connect
  pub,                   \* where each publisher is, and what it publishes
  \* the socket and the broker
  link,                  \* "closed": no socket; "up"; "dead": open, but nothing gets through
  session,               \* the broker accepted a CONNECT on this socket
  uplink, downlink,      \* packets in flight
  received,              \* payloads the broker has taken
  faults,                \* failures injected so far
  \* history
  accepted,              \* payloads whose QoS1 publish returned a packet id
  mistaken,              \* a packet id was handed out while it was still in use,
                         \* or a node was masked by bytes that were no packet
  event                  \* last connection event given to the application

client  == <<client_state, packet_id, list_pub_wait_ack, keepalive_probes,
             reconnect_time_interval_ms, ping_due, reconnect_due>>
threads == <<lock_yield, ypc, boot, try_count, pub>>
network == <<link, session, uplink, downlink, received, faults>>
history == <<accepted, mistaken, event>>
vars    == <<client, threads, network, history>>

-----------------------------------------------------------------------------
(* Types *)

State == {"INITIALIZED", "CONNECTED", "DISCONNECTED", "RECONNECTING"}

Node == [msg_id     : 1..PACKET_ID_MAX,
         msg        : Msgs,
         node_state : {"NORMANL", "INVALID"},
         expired    : BOOLEAN]    \* pub_start_time is older than 2 * request_timeout_ms

Packet == [type : {"CONNECT", "PUBLISH", "PINGREQ",
                   "CONNACK", "REFUSED", "PUBACK", "PINGRESP",
                   "REST"},       \* what is left of a packet that was read in part
           id   : 0..PACKET_ID_MAX,
           msg  : Msgs \cup {None}]

YieldPc == {"idle", "keepalive", "nwk", "connect", "connack", "connected",
            "failed", "cycle", "proc", "pubinfo"}

PubPc == {"idle", "checked", "numbered", "lost"}

Idle == [pc |-> "idle", qos |-> 0, id |-> 0, msg |-> None]

Pkt(t)            == [type |-> t, id |-> 0, msg |-> None]
PublishPkt(id, m) == [type |-> "PUBLISH", id |-> id, msg |-> m]
PubackPkt(id, m)  == [type |-> "PUBACK", id |-> id, msg |-> m]

ClientTypeOK ==
  /\ client_state \in State
  /\ packet_id \in 0..PACKET_ID_MAX
  /\ list_pub_wait_ack \subseteq Node
  /\ keepalive_probes \in Nat
  /\ reconnect_time_interval_ms \in Nat
  /\ ping_due \in BOOLEAN /\ reconnect_due \in BOOLEAN

ThreadTypeOK ==
  /\ lock_yield \in Yielders \cup {None}
  /\ ypc \in [Yielders -> YieldPc]
  /\ boot \in BOOLEAN
  /\ try_count \in 1..CONN_TRIES
  /\ pub \in [Publishers -> [pc : PubPc, qos : Qos \cup {0},
                             id : 0..PACKET_ID_MAX, msg : Msgs \cup {None}]]

\* The payload a PUBACK answers is history: the client reads only its id.
NetworkTypeOK ==
  /\ link \in {"closed", "up", "dead"}
  /\ session \in BOOLEAN
  /\ uplink \in Seq(Packet)
  /\ downlink \in Seq(Packet)
  /\ received \subseteq Msgs
  /\ faults \in 0..MaxFaults

HistoryTypeOK ==
  /\ accepted \subseteq Msgs
  /\ mistaken \in BOOLEAN
  /\ event \in {"none", "DISCONNECT", "RECONNECT"}

\* The type invariant.  Not all of it follows from the types alone: what the
\* broker takes off the wire is a payload because what went on it was one.
TypeOK == ClientTypeOK /\ ThreadTypeOK /\ NetworkTypeOK /\ HistoryTypeOK

-----------------------------------------------------------------------------
(* The socket.  A write on an open socket either is taken whole, or stops  *)
(* half way: the stream is then useless and the socket is "dead".  A dead  *)
(* socket may swallow a write or refuse it; a closed one refuses it.       *)

Fault == faults < MaxFaults /\ faults' = faults + 1

send_packet_ok(p) ==
  /\ \/ link = "up" /\ uplink' = Append(uplink, p)
     \/ link = "dead" /\ UNCHANGED uplink
  /\ UNCHANGED <<link, faults>>

send_packet_fails ==
  \/ link = "up" /\ Fault /\ link' = "dead" /\ uplink' = <<>>
  \/ link # "up" /\ UNCHANGED <<link, uplink, faults>>

\* ipstack.disconnect
disconnect == link' = "closed" /\ uplink' = <<>> /\ downlink' = <<>> /\ session' = FALSE

\* ipstack.disconnect, then ipstack.connect
reopen ==
  /\ \/ link' = "up" /\ UNCHANGED faults
     \/ link' = "closed" /\ Fault
  /\ uplink' = <<>> /\ downlink' = <<>> /\ session' = FALSE

\* Bound: timers and new calls wait while more packets than this are in flight.
WireQuiet == Len(uplink) + Len(downlink) <= MaxWire

-----------------------------------------------------------------------------
(* Publishers: wrapper_mqtt_publish and MQTTPublish *)

\* Ids that a wait-list node, a publisher or a packet in flight still carries.
InFlight(s) == {s[i] : i \in 1..Len(s)}

IdsInUse ==
  {n.msg_id : n \in list_pub_wait_ack}
    \cup {pub[p].id : p \in Publishers}
    \cup {k.id : k \in InFlight(uplink)}
    \cup {k.id : k \in InFlight(downlink)}

\* The call, up to wrapper_mqtt_check_state: offline clients refuse it.
wrapper_mqtt_publish(p, qos, m) ==
  /\ pub[p].pc = "idle" /\ ~boot /\ WireQuiet
  /\ IF qos = 1
     THEN m \in Msgs \ accepted /\ \A q \in Publishers : pub[q].msg # m
     ELSE m = None
  /\ client_state = "CONNECTED"
  /\ pub' = [pub EXCEPT ![p] = [pc  |-> IF qos = 0 THEN "numbered" ELSE "checked",
                                qos |-> qos, id |-> 0, msg |-> m]]
  /\ UNCHANGED <<client, lock_yield, ypc, boot, try_count, network, history>>

next_packetid_nowrap == packet_id + 1

next_packetid == IF packet_id = PACKET_ID_MAX THEN 1 ELSE packet_id + 1

\* iotx_mc_get_next_packetid under lock_generic.  QoS2 takes an id and is
\* then refused.
get_next_packetid(p) ==
  /\ pub[p].pc = "checked"
  /\ packet_id' = next_packetid
  /\ mistaken' = (mistaken \/ next_packetid \in IdsInUse)
  /\ pub' = [pub EXCEPT ![p] = IF pub[p].qos = 2 THEN Idle
                               ELSE [@ EXCEPT !.pc = "numbered", !.id = next_packetid]]
  /\ UNCHANGED <<client_state, list_pub_wait_ack, keepalive_probes,
                 reconnect_time_interval_ms, ping_due, reconnect_due,
                 lock_yield, ypc, boot, try_count, network, accepted, event>>

\* lock_list_pub is held by a yielder that walks the wait list.
lock_list_pub_free == \A y \in Yielders : ypc[y] # "pubinfo"

WaitListFull == Cardinality(list_pub_wait_ack) >= REPUB_NUM_MAX

\* MQTTPublish returns before it sends: the wait list is full, or the send
\* buffer cannot be had (a fault).
MQTTPublish_refused(p) ==
  /\ pub[p].pc = "numbered" /\ lock_list_pub_free
  /\ \/ pub[p].qos = 1 /\ WaitListFull /\ UNCHANGED faults
     \/ Fault
  /\ pub' = [pub EXCEPT ![p] = Idle]
  /\ UNCHANGED <<client, lock_yield, ypc, boot, try_count,
                 link, session, uplink, downlink, received, history>>

\* iotx_mc_push_pubInfo_to: the node a QoS1 publish leaves in the wait list.
push_pubInfo_to(r) ==
  list_pub_wait_ack \cup
    (IF r.qos = 1
     THEN {[msg_id |-> r.id, msg |-> r.msg, node_state |-> "NORMANL", expired |-> FALSE]}
     ELSE {})

\* The packet is in the socket; a QoS1 node stays in the wait list.
MQTTPublish_sent(p) ==
  /\ pub[p].pc = "numbered" /\ lock_list_pub_free
  /\ ~(pub[p].qos = 1 /\ WaitListFull)
  /\ send_packet_ok(PublishPkt(pub[p].id, pub[p].msg))
  /\ list_pub_wait_ack' = push_pubInfo_to(pub[p])
  /\ accepted' = accepted \cup ({pub[p].msg} \ {None})
  /\ pub' = [pub EXCEPT ![p] = Idle]
  /\ UNCHANGED <<client_state, packet_id, keepalive_probes,
                 reconnect_time_interval_ms, ping_due, reconnect_due,
                 lock_yield, ypc, boot, try_count, session, downlink, received,
                 mistaken, event>>

\* The write fails: the node is taken out of the list again, the caller
\* still has to mark the client disconnected.
MQTTPublish_fails(p) ==
  /\ pub[p].pc = "numbered" /\ lock_list_pub_free
  /\ ~(pub[p].qos = 1 /\ WaitListFull)
  /\ send_packet_fails
  /\ pub' = [pub EXCEPT ![p] = [Idle EXCEPT !.pc = "lost"]]
  /\ UNCHANGED <<client, lock_yield, ypc, boot, try_count,
                 session, downlink, received, history>>

\* ... which it does without any lock held across, so possibly late.
publish_set_disconnected(p) ==
  /\ pub[p].pc = "lost"
  /\ client_state' = "DISCONNECTED"
  /\ pub' = [pub EXCEPT ![p] = Idle]
  /\ UNCHANGED <<packet_id, list_pub_wait_ack, keepalive_probes,
                 reconnect_time_interval_ms, ping_due, reconnect_due,
                 lock_yield, ypc, boot, try_count, network, history>>

-----------------------------------------------------------------------------
(* Yielders: wrapper_mqtt_yield takes lock_yield and runs iotx_mc_keepalive *)

Lock_unchecked(y) == lock_yield' = y

Lock(y)   == lock_yield = None /\ lock_yield' = y
Unlock(y) == lock_yield' = None

Goto(y, pc) == ypc' = [ypc EXCEPT ![y] = pc]

\* The last two steps of iotx_mc_keepalive: unlock, go on with _mqtt_cycle.
LeaveKeepalive(y) == Unlock(y) /\ Goto(y, "cycle")

\* iotx_mc_keepalive_sub with nothing to do.
keepalive_sub_skip(y) ==
  /\ ypc[y] = "idle" /\ ~boot /\ Lock(y) /\ Goto(y, "keepalive")
  /\ client_state # "CONNECTED" \/ ~ping_due
  /\ UNCHANGED <<client, boot, try_count, pub, network, history>>

probe_uncounted == keepalive_probes

probe_counted == keepalive_probes + 1

\* iotx_mc_keepalive_sub with the ping timer expired: restart it and send a
\* PINGREQ, which counts as a probe; a failed write disconnects; a failed
\* allocation does neither.
keepalive_sub_ping(y) ==
  /\ ypc[y] = "idle" /\ ~boot /\ Lock(y) /\ Goto(y, "keepalive")
  /\ client_state = "CONNECTED" /\ ping_due
  /\ ping_due' = FALSE
  /\ \/ /\ send_packet_ok(Pkt("PINGREQ"))
        /\ keepalive_probes' = probe_counted
        /\ UNCHANGED client_state
     \/ /\ send_packet_fails
        /\ client_state' = "DISCONNECTED"
        /\ UNCHANGED keepalive_probes
     \/ /\ Fault
        /\ UNCHANGED <<client_state, keepalive_probes, link, uplink>>
  /\ UNCHANGED <<packet_id, list_pub_wait_ack, reconnect_time_interval_ms,
                 reconnect_due, boot, try_count, pub, session, downlink,
                 received, history>>

\* iotx_mc_keepalive with no branch for currentState, or RECONNECTING before
\* its time.
keepalive_wait(y) ==
  /\ ypc[y] = "keepalive"
  /\ \/ client_state \notin {"DISCONNECTED", "RECONNECTING"}
     \/ client_state = "RECONNECTING" /\ ~reconnect_due
  /\ LeaveKeepalive(y)
  /\ UNCHANGED <<client, boot, try_count, pub, network, history>>

offline_state_wrong == "INITIALIZED"

\* The state in which iotx_mc_keepalive leaves a client that lost its socket.
offline_state == "RECONNECTING"

\* iotx_mc_keepalive with currentState DISCONNECTED: tell the application,
\* restart the back-off, close the socket.
keepalive_disconnected(y) ==
  /\ ypc[y] = "keepalive"
  /\ client_state = "DISCONNECTED"
  /\ event' = "DISCONNECT"
  /\ reconnect_time_interval_ms' = INTERVAL_MIN
  /\ reconnect_due' = FALSE
  /\ disconnect
  /\ client_state' = offline_state
  /\ LeaveKeepalive(y)
  /\ UNCHANGED <<packet_id, list_pub_wait_ack, keepalive_probes, ping_due,
                 boot, try_count, pub, received, faults, accepted, mistaken>>

handle_reconnect_eager(y) ==
  /\ ypc[y] = "keepalive"
  /\ client_state \in {"DISCONNECTED", "RECONNECTING"} /\ reconnect_due
  /\ Goto(y, "nwk")
  /\ UNCHANGED <<client, lock_yield, boot, try_count, pub, network, history>>

\* iotx_mc_handle_reconnect with its timer expired.
handle_reconnect(y) ==
  /\ ypc[y] = "keepalive"
  /\ client_state = "RECONNECTING" /\ reconnect_due
  /\ Goto(y, "nwk")
  /\ UNCHANGED <<client, lock_yield, boot, try_count, pub, network, history>>

\* _mqtt_nwk_connect: up to three attempts end with a socket or without one;
\* the result is not looked at when reconnecting.
mqtt_nwk_connect(y) ==
  /\ ypc[y] = "nwk"
  /\ reopen
  /\ try_count' = 1
  /\ Goto(y, IF boot /\ link' = "closed" THEN "failed" ELSE "connect")
  /\ UNCHANGED <<client, lock_yield, boot, pub, received, history>>

\* MQTTConnect in _mqtt_connect: a failed write gives up at once.
MQTTConnect(y) ==
  /\ ypc[y] = "connect"
  /\ \/ /\ send_packet_ok(Pkt("CONNECT"))
        /\ Goto(y, "connack")
        /\ UNCHANGED <<session, downlink>>
     \/ /\ (link # "up" /\ UNCHANGED faults) \/ Fault
        /\ disconnect
        /\ Goto(y, "failed")
  /\ UNCHANGED <<client, lock_yield, boot, try_count, pub, received, history>>

connack_accepts_any(t) == t \in {"CONNACK", "REFUSED"}

\* iotx_mc_handle_recv_CONNACK: the return code decides.
connack_accepts(t) == t = "CONNACK"

\* iotx_mc_wait_CONNACK reads an accepting CONNACK.
wait_CONNACK_accepted(y) ==
  /\ ypc[y] = "connack"
  /\ downlink # <<>> /\ connack_accepts(Head(downlink).type)
  /\ downlink' = Tail(downlink)
  /\ keepalive_probes' = 0
  /\ client_state' = "CONNECTED"
  /\ ping_due' = FALSE
  /\ Goto(y, "connected")
  /\ UNCHANGED <<packet_id, list_pub_wait_ack, reconnect_time_interval_ms,
                 reconnect_due, lock_yield, boot, try_count, pub,
                 link, session, uplink, received, faults, history>>

\* ... or a refusal: _mqtt_connect gives up.
wait_CONNACK_refused(y) ==
  /\ ypc[y] = "connack"
  /\ downlink # <<>> /\ ~connack_accepts(Head(downlink).type)
  /\ disconnect
  /\ Goto(y, "failed")
  /\ UNCHANGED <<client, lock_yield, boot, try_count, pub, received, faults, history>>

\* ... or nothing, or the socket fails: reopen the socket and send CONNECT
\* again, CONN_TRIES times in all.
wait_CONNACK_timeout(y) ==
  /\ ypc[y] = "connack"
  /\ link # "up" \/ faults < MaxFaults
  /\ \/ link # "up" /\ reopen
     \/ link = "up" /\ Fault /\ link' \in {"up", "closed"}
        /\ uplink' = <<>> /\ downlink' = <<>> /\ session' = FALSE
  /\ IF try_count < CONN_TRIES
     THEN try_count' = try_count + 1 /\ Goto(y, "connect")
     ELSE UNCHANGED try_count /\ Goto(y, "failed")
  /\ UNCHANGED <<client, lock_yield, boot, pub, received, history>>

\* Back in iotx_mc_handle_reconnect after success: the state is set once
\* more, the application is told, the back-off starts afresh.
reconnected(y) ==
  /\ ypc[y] = "connected" /\ ~boot
  /\ client_state' = "CONNECTED"
  /\ event' = "RECONNECT"
  /\ reconnect_time_interval_ms' = INTERVAL_MIN
  /\ LeaveKeepalive(y)
  /\ UNCHANGED <<packet_id, list_pub_wait_ack, keepalive_probes, ping_due,
                 reconnect_due, boot, try_count, pub, network, accepted, mistaken>>

\* The wait iotx_mc_handle_reconnect really sets.
WaitMs(interval) == IF INTERVAL_MAX < interval THEN INTERVAL_MAX ELSE interval

next_interval_restarts ==
  IF INTERVAL_MAX > reconnect_time_interval_ms
  THEN reconnect_time_interval_ms * 2 ELSE INTERVAL_MIN

next_interval ==
  IF INTERVAL_MAX > reconnect_time_interval_ms
  THEN reconnect_time_interval_ms * 2 ELSE INTERVAL_MAX

\* ... and after failure: double the interval, restart the timer.
reconnect_failed(y) ==
  /\ ypc[y] = "failed" /\ ~boot
  /\ reconnect_time_interval_ms' = next_interval
  /\ reconnect_due' = FALSE
  /\ LeaveKeepalive(y)
  /\ UNCHANGED <<client_state, packet_id, list_pub_wait_ack, keepalive_probes,
                 ping_due, boot, try_count, pub, network, history>>

\* wrapper_mqtt_connect returns to IOT_MQTT_Construct with a connected client.
constructed(y) ==
  /\ ypc[y] = "connected" /\ boot
  /\ boot' = FALSE
  /\ LeaveKeepalive(y)
  /\ UNCHANGED <<client, try_count, pub, network, history>>

\* ... or with an error: the client is released and the application
\* constructs a new one.
construct_failed(y) ==
  /\ ypc[y] = "failed" /\ boot
  /\ disconnect
  /\ Goto(y, "nwk")
  /\ UNCHANGED <<client, lock_yield, boot, try_count, pub, received, faults, history>>

-----------------------------------------------------------------------------
(* Yielders: _mqtt_cycle, one iotx_mc_cycle under lock_yield *)

\* iotx_mc_cycle while offline.
cycle_offline(y) ==
  /\ ypc[y] = "cycle" /\ lock_yield = None
  /\ client_state # "CONNECTED"
  /\ Goto(y, "idle")
  /\ UNCHANGED <<client, lock_yield, boot, try_count, pub, network, history>>

TooManyProbes_late == PROBE_MAX + 1 < keepalive_probes

TooManyProbes == PROBE_MAX < keepalive_probes

\* Too many probes without an answer.
cycle_probes_exceeded(y) ==
  /\ ypc[y] = "cycle" /\ lock_yield = None
  /\ client_state = "CONNECTED" /\ TooManyProbes
  /\ client_state' = "DISCONNECTED"
  /\ keepalive_probes' = 0
  /\ Goto(y, "idle")
  /\ UNCHANGED <<packet_id, list_pub_wait_ack, reconnect_time_interval_ms,
                 ping_due, reconnect_due, lock_yield, boot, try_count, pub,
                 network, history>>

CanRead(y) ==
  /\ ypc[y] = "cycle" /\ lock_yield = None
  /\ client_state = "CONNECTED" /\ ~TooManyProbes

\* read_packet finds the socket closed.
cycle_read_closed(y) ==
  /\ CanRead(y)
  /\ link # "up" /\ downlink = <<>>
  /\ client_state' = "DISCONNECTED"
  /\ Goto(y, "idle")
  /\ UNCHANGED <<packet_id, list_pub_wait_ack, keepalive_probes,
                 reconnect_time_interval_ms, ping_due, reconnect_due,
                 lock_yield, boot, try_count, pub, network, history>>

Rest == Pkt("REST")

\* The stream once the length of p is read and its rest is not (a PINGRESP
\* has none).
cut(p) == IF p.type = "PINGRESP" THEN <<>> ELSE <<Rest>>

\* read_packet fails with the socket open: no receive buffer before a byte is
\* read, or, with the type and the length of a packet read, none for the rest
\* or a rest that comes too late.  What was read is gone, the state stays
\* CONNECTED, the wait list is not walked, and the stream is out of step.
cycle_read_error(y) ==
  /\ CanRead(y) /\ Fault
  /\ \/ UNCHANGED downlink
     \/ downlink # <<>> /\ downlink' = cut(Head(downlink)) \o Tail(downlink)
  /\ Goto(y, "idle")
  /\ UNCHANGED <<client, lock_yield, boot, try_count, pub,
                 link, session, uplink, received, history>>

OutOfStep == downlink # <<>> /\ Head(downlink).type = "REST"

\* What read_packet takes for a packet in a stream that is out of step ends
\* with some packet that waits, or inside it: the stream is then out of step
\* still (counted as a fault, so that it happens only so often).
misread ==
  \E n \in 1..Len(downlink) :
    LET after == SubSeq(downlink, n + 1, Len(downlink)) IN
    \/ downlink' = after /\ UNCHANGED faults
    \/ downlink' = <<Rest>> \o after /\ Fault

\* The bytes make no packet: the length or the rest it announces does not
\* come (without a length the socket counts as closed), or the type is
\* unknown (any type clears the probes).
cycle_misread_fails(y) ==
  /\ CanRead(y) /\ OutOfStep /\ misread
  /\ \/ client_state' = "DISCONNECTED" /\ UNCHANGED keepalive_probes
     \/ UNCHANGED client_state /\ keepalive_probes' \in {keepalive_probes, 0}
  /\ Goto(y, "idle")
  /\ UNCHANGED <<packet_id, list_pub_wait_ack, reconnect_time_interval_ms,
                 ping_due, reconnect_due, lock_yield, boot, try_count, pub,
                 link, session, uplink, received, history>>

\* read_packet times out without data.
cycle_no_data(y) ==
  /\ CanRead(y)
  /\ link # "closed" /\ downlink = <<>>
  /\ lock_yield' = y /\ Goto(y, "proc")
  /\ UNCHANGED <<client, boot, try_count, pub, network, history>>

mask_pubInfo_from_all(id) ==
  {[n EXCEPT !.node_state = "INVALID"] : n \in list_pub_wait_ack}

\* iotx_mc_mask_pubInfo_from: every node with this id becomes invalid.
mask_pubInfo_from(id) ==
  {IF n.msg_id = id THEN [n EXCEPT !.node_state = "INVALID"] ELSE n :
      n \in list_pub_wait_ack}

\* A packet: any packet clears the probes, a PUBACK masks its nodes.
cycle_packet(y) ==
  /\ CanRead(y)
  /\ downlink # <<>> /\ ~OutOfStep
  /\ downlink' = Tail(downlink)
  /\ keepalive_probes' = 0
  /\ list_pub_wait_ack' = IF Head(downlink).type = "PUBACK"
                          THEN mask_pubInfo_from(Head(downlink).id)
                          ELSE list_pub_wait_ack
  /\ lock_yield' = y /\ Goto(y, "proc")
  /\ UNCHANGED <<client_state, packet_id, reconnect_time_interval_ms, ping_due,
                 reconnect_due, boot, try_count, pub, link, session, uplink,
                 received, faults, history>>

\* The bytes read as a packet: of type 0, which counts as no data, or of a
\* known type.  Read as a PUBACK they mask the nodes of whatever id they spell.
cycle_misread_packet(y) ==
  /\ CanRead(y) /\ OutOfStep /\ misread
  /\ \/ UNCHANGED <<keepalive_probes, list_pub_wait_ack>>
     \/ /\ keepalive_probes' = 0
        /\ \E id \in 0..PACKET_ID_MAX : list_pub_wait_ack' = mask_pubInfo_from(id)
  /\ mistaken' = (mistaken \/ list_pub_wait_ack' # list_pub_wait_ack)
  /\ lock_yield' = y /\ Goto(y, "proc")
  /\ UNCHANGED <<client_state, packet_id, reconnect_time_interval_ms, ping_due,
                 reconnect_due, boot, try_count, pub, link, session, uplink,
                 received, accepted, event>>

freed_when_expired(n) == n.node_state = "INVALID" \/ n.expired

\* The nodes MQTTPubInfoProc takes out of the list.
freed(n) == n.node_state = "INVALID"

\* MQTTPubInfoProc takes lock_list_pub and walks the list: it frees the
\* invalid nodes,
pubInfoProc_lock(y) ==
  /\ ypc[y] = "proc"
  /\ Goto(y, "pubinfo")
  /\ UNCHANGED <<client, lock_yield, boot, try_count, pub, network, history>>

pubInfoProc_free(y) ==
  /\ ypc[y] = "pubinfo"
  /\ \E n \in list_pub_wait_ack :
       freed(n) /\ list_pub_wait_ack' = list_pub_wait_ack \ {n}
  /\ UNCHANGED <<client_state, packet_id, keepalive_probes,
                 reconnect_time_interval_ms, ping_due, reconnect_due,
                 threads, network, history>>

\* sends every other node again whose time is up, while the client is
\* connected (a write that fails ends the walk where it is),
restart(n) == (list_pub_wait_ack \ {n}) \cup {[n EXCEPT !.expired = FALSE]}

MQTTRePublish(y) ==
  /\ ypc[y] = "pubinfo" /\ client_state = "CONNECTED"
  /\ \E n \in list_pub_wait_ack :
       /\ n.expired /\ ~freed(n)
       /\ list_pub_wait_ack' = restart(n)
       /\ \/ /\ send_packet_ok(PublishPkt(n.msg_id, n.msg))
             /\ UNCHANGED <<client_state, lock_yield, ypc>>
          \/ /\ send_packet_fails
             /\ client_state' = "DISCONNECTED"
             /\ Unlock(y) /\ Goto(y, "idle")
  /\ UNCHANGED <<packet_id, keepalive_probes, reconnect_time_interval_ms,
                 ping_due, reconnect_due, boot, try_count, pub, session,
                 downlink, received, history>>

\* and unlocks.
pubInfoProc_done(y) ==
  /\ ypc[y] = "pubinfo"
  /\ \A n \in list_pub_wait_ack : ~freed(n) /\ (client_state = "CONNECTED" => ~n.expired)
  /\ Unlock(y) /\ Goto(y, "idle")
  /\ UNCHANGED <<client, boot, try_count, pub, network, history>>

-----------------------------------------------------------------------------
(* Timers *)

ping_timer ==
  /\ client_state = "CONNECTED" /\ ~ping_due /\ WireQuiet
  /\ ping_due' = TRUE
  /\ UNCHANGED <<client_state, packet_id, list_pub_wait_ack, keepalive_probes,
                 reconnect_time_interval_ms, reconnect_due, threads, network, history>>

reconnect_timer ==
  /\ client_state = "RECONNECTING" /\ ~reconnect_due
  /\ reconnect_due' = TRUE
  /\ UNCHANGED <<client_state, packet_id, list_pub_wait_ack, keepalive_probes,
                 reconnect_time_interval_ms, ping_due, threads, network, history>>

\* A walk of the wait list visits a node once: a timer that runs out during
\* the walk is seen by the next one.
pub_timer ==
  /\ client_state = "CONNECTED" /\ WireQuiet /\ lock_list_pub_free
  /\ \E n \in list_pub_wait_ack :
       /\ n.node_state = "NORMANL" /\ ~n.expired
       /\ list_pub_wait_ack' = (list_pub_wait_ack \ {n}) \cup {[n EXCEPT !.expired = TRUE]}
  /\ UNCHANGED <<client_state, packet_id, keepalive_probes,
                 reconnect_time_interval_ms, ping_due, reconnect_due,
                 threads, network, history>>

-----------------------------------------------------------------------------
(* The network and an MQTT 3.1.1 broker, as far as the client depends on them *)

\* The peer or the path goes away: what is on its way to the broker is lost,
\* what the client's kernel already holds can still be read.
link_breaks ==
  /\ link = "up" /\ Fault
  /\ link' = "dead" /\ uplink' = <<>>
  /\ UNCHANGED <<client, threads, session, downlink, received, history>>

Answer(p) == downlink' = Append(downlink, p)

\* The broker takes one packet.  It accepts or refuses the CONNECT, answers
\* the rest, and drops a connection that does not begin with CONNECT.
broker_takes ==
  /\ link = "up" /\ uplink # <<>>
  /\ LET p == Head(uplink) IN
     \/ /\ p.type = "CONNECT" /\ ~session
        /\ \/ Answer(Pkt("CONNACK")) /\ session' = TRUE /\ UNCHANGED faults
           \/ Answer(Pkt("REFUSED")) /\ Fault /\ UNCHANGED session
        /\ uplink' = Tail(uplink) /\ UNCHANGED <<link, received>>
     \/ /\ p.type = "PUBLISH" /\ session
        /\ IF p.id = 0
           THEN UNCHANGED <<received, downlink>>
           ELSE received' = received \cup {p.msg} /\ Answer(PubackPkt(p.id, p.msg))
        /\ uplink' = Tail(uplink) /\ UNCHANGED <<link, session, faults>>
     \/ /\ p.type = "PINGREQ" /\ session
        /\ Answer(Pkt("PINGRESP"))
        /\ uplink' = Tail(uplink) /\ UNCHANGED <<link, session, received, faults>>
     \/ /\ (p.type = "CONNECT") = session
        /\ link' = "dead" /\ uplink' = <<>>
        /\ UNCHANGED <<session, downlink, received, faults>>
  /\ UNCHANGED <<client, threads, history>>

-----------------------------------------------------------------------------
(* Specification *)

\* wrapper_mqtt_init has run; one thread is inside IOT_MQTT_Construct.  Nobody
\* else has the handle yet, which is what lock_yield = y says here.
Init ==
  /\ client_state = "INITIALIZED"
  /\ packet_id = 0
  /\ list_pub_wait_ack = {}
  /\ keepalive_probes = 0
  /\ reconnect_time_interval_ms = INTERVAL_MIN
  /\ ping_due = FALSE /\ reconnect_due = FALSE
  /\ \E y \in Yielders :
       /\ lock_yield = y
       /\ ypc = [z \in Yielders |-> IF z = y THEN "nwk" ELSE "idle"]
  /\ boot = TRUE
  /\ try_count = 1
  /\ pub = [p \in Publishers |-> Idle]
  /\ link = "closed" /\ session = FALSE /\ uplink = <<>> /\ downlink = <<>>
  /\ received = {} /\ faults = 0
  /\ accepted = {} /\ mistaken = FALSE /\ event = "none"

Publish(p) ==
  \/ \E qos \in Qos, m \in Msgs \cup {None} : wrapper_mqtt_publish(p, qos, m)
  \/ get_next_packetid(p)
  \/ MQTTPublish_refused(p)
  \/ MQTTPublish_sent(p)
  \/ MQTTPublish_fails(p)
  \/ publish_set_disconnected(p)

Keepalive(y) ==
  \/ keepalive_sub_skip(y)
  \/ keepalive_sub_ping(y)
  \/ keepalive_wait(y)
  \/ keepalive_disconnected(y)
  \/ handle_reconnect(y)

Connect(y) ==
  \/ mqtt_nwk_connect(y)
  \/ MQTTConnect(y)
  \/ wait_CONNACK_accepted(y)
  \/ wait_CONNACK_refused(y)
  \/ wait_CONNACK_timeout(y)
  \/ reconnected(y)
  \/ reconnect_failed(y)
  \/ constructed(y)
  \/ construct_failed(y)

Cycle(y) ==
  \/ cycle_offline(y)
  \/ cycle_probes_exceeded(y)
  \/ cycle_read_closed(y)
  \/ cycle_read_error(y)
  \/ cycle_no_data(y)
  \/ cycle_packet(y)
  \/ cycle_misread_fails(y)
  \/ cycle_misread_packet(y)
  \/ pubInfoProc_lock(y)
  \/ pubInfoProc_free(y)
  \/ MQTTRePublish(y)
  \/ pubInfoProc_done(y)

Yield(y) == Keepalive(y) \/ Connect(y) \/ Cycle(y)

Timers  == ping_timer \/ reconnect_timer \/ pub_timer
Network == link_breaks \/ broker_takes

Next ==
  \/ \E p \in Publishers : Publish(p)
  \/ \E y \in Yielders : Yield(y)
  \/ Timers
  \/ Network

Spec == Init /\ [][Next]_vars

\* A publisher that has begun a call finishes it, a yielder keeps yielding,
\* time passes, and a broker with a connection answers.  Nothing says that
\* a call is made, that a write succeeds or that a socket opens.  (Strong
\* fairness for the two timers whose guards the model lowers now and then:
\* the clock runs whatever the threads do.)
PublishStep(p) ==
  \/ get_next_packetid(p) \/ MQTTPublish_refused(p) \/ MQTTPublish_sent(p)
  \/ MQTTPublish_fails(p) \/ publish_set_disconnected(p)

Fairness ==
  /\ \A p \in Publishers : WF_vars(PublishStep(p))
  /\ \A y \in Yielders : WF_vars(Yield(y))
  /\ SF_vars(ping_timer) /\ WF_vars(reconnect_timer) /\ SF_vars(pub_timer)
  /\ WF_vars(broker_takes)

FairSpec == Spec /\ Fairness

-----------------------------------------------------------------------------
(* Properties *)

Waiting == {n.msg : n \in {k \in list_pub_wait_ack : k.node_state = "NORMANL"}}

\* A QoS1 publish that returned a packet id is never forgotten: the broker
\* has the payload, or the wait list still holds it for republication,
\* whatever the socket, the reconnects and the other publishers do, as long
\* as no packet id was handed out that was still in use and no bytes of a
\* stream out of step were taken for the PUBACK of a node.
NoSilentLoss == ~mistaken => accepted \subseteq received \cup Waiting

\* client_state CONNECTED is never left over from another socket: the
\* broker has accepted a CONNECT on the socket the next write will use.
ConnectedHasSession == client_state = "CONNECTED" => link # "closed" /\ session

\* At most one thread is inside the sections that lock_yield guards.
YieldExclusion ==
  \A y \in Yielders :
    ypc[y] \in {"keepalive", "nwk", "connect", "connack", "connected", "failed",
                "proc", "pubinfo"} => lock_yield = y

\* The uint8_t probe counter stays within one ping per yielder of the limit
\* that iotx_mc_cycle enforces.
ProbesBounded == keepalive_probes <= PROBE_MAX + Cardinality(Yielders)

\* The application sees a RECONNECT event only after a DISCONNECT event,
\* though a publisher can report the same broken socket late and two
\* yielders handle it.
ReconnectAfterDisconnect ==
  [][\A y \in Yielders : reconnected(y) => event = "DISCONNECT"]_vars

\* The waits between connection attempts stay between the two limits, and
\* a wait is shorter than the one before it only after a successful
\* connection or when a loss that some thread reported is handled anew.
BackoffMonotone ==
  [][/\ WaitMs(reconnect_time_interval_ms') \in INTERVAL_MIN..INTERVAL_MAX
     /\ WaitMs(reconnect_time_interval_ms') < WaitMs(reconnect_time_interval_ms)
          => \/ client_state' = "CONNECTED"
             \/ client_state = "DISCONNECTED" /\ client_state' = "RECONNECTING"]_vars

\* A client that is offline gets back online.
EventuallyReconnects == [](client_state # "CONNECTED" => <>(client_state = "CONNECTED"))

\* A socket on which nothing gets through any more is noticed and replaced,
\* even if no read and no write ever reports an error.
HalfOpenNoticed == (link = "dead") ~> (link # "dead")

\* Every accepted QoS1 payload reaches the broker.
EventuallyDelivered ==
  \A m \in Msgs : (m \in accepted) ~> (m \in received \/ mistaken)

-----------------------------------------------------------------------------
(* The inductive invariant behind NoSilentLoss and the refinement *)

\* What a publisher holds between its steps.
PubOK ==
  \A p \in Publishers :
    /\ pub[p].pc = "checked" => pub[p].qos # 0
    /\ pub[p].qos = 1 => pub[p].msg \in Msgs
    /\ pub[p].qos # 1 => pub[p].msg = None /\ pub[p].id = 0
    /\ pub[p].pc = "numbered" /\ pub[p].qos = 1 => pub[p].id # 0

\* A packet with an id carries a payload the client accepted; a PUBACK speaks
\* for a payload the broker has.
WireOK ==
  /\ \A k \in InFlight(uplink) : k.id # 0 => k.msg \in accepted
  /\ \A k \in InFlight(downlink) :
       /\ k.id # 0 => k.msg \in accepted
       /\ k.type = "PUBACK" => k.id # 0 /\ k.msg \in received

\* Everything in the wait list was accepted.
ListOK == \A n \in list_pub_wait_ack : n.msg \in accepted

\* Who carries which id, for which payload.
Carriers ==
  {<<n.msg_id, n.msg>> : n \in list_pub_wait_ack}
    \cup {<<pub[p].id, pub[p].msg>> : p \in {q \in Publishers : pub[q].id # 0}}
    \cup {<<k.id, k.msg>> : k \in {j \in InFlight(uplink) : j.id # 0}}
    \cup {<<k.id, k.msg>> : k \in {j \in InFlight(downlink) : j.id # 0}}

\* Until an id in use is handed out, it means one payload everywhere.
OneMsgPerId == ~mistaken => \A c, d \in Carriers : c[1] = d[1] => c[2] = d[2]

\* What a publisher holds was not accepted before, and nobody else holds it:
\* a payload stands for one call.
PubFresh ==
  \A p \in Publishers :
    pub[p].msg \in Msgs => /\ pub[p].msg \notin accepted
                           /\ \A q \in Publishers : pub[q].msg = pub[p].msg => q = p

Sound == PubOK /\ WireOK /\ ListOK /\ OneMsgPerId /\ NoSilentLoss

IInv == TypeOK /\ Sound /\ PubFresh

-----------------------------------------------------------------------------
(* Refinement *)

ALO == INSTANCE AtLeastOnce WITH
         promised  <- accepted,
         delivered <- received,
         released  <- accepted \ Waiting,
         exhausted <- mistaken

\* The wait list, the republications and the reconnects together keep the
\* at-least-once promise of QoS1.
ImplementsAtLeastOnce == ALO!Spec

=============================================================================
