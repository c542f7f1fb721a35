----------------------- MODULE MqttClientStateProofs -----------------------
(***************************************************************************)
(* Proofs about the client state of MqttClient for every value of its      *)
(* constants: mutual exclusion under lock_yield, CONNECTED only with a     *)
(* session on the socket in use, the order of the connection events, the   *)
(* back-off and the range of the probe counter.                            *)
(***************************************************************************)
EXTENDS MqttClientProofs, FiniteSetTheorems

\* The places inside _mqtt_nwk_connect and _mqtt_connect before an accepting
\* CONNACK has been read.
Connecting == {"nwk", "connect", "connack", "failed"}

\* Only one thread works on the connection, and not on one that is in use;
\* what waits to be read came over the socket that is open now, and a CONNACK
\* among it speaks for its session.
LinkInv ==
  /\ link = "closed" => downlink = <<>>
  /\ \A k \in InFlight(downlink) : k.type = "CONNACK" => session
  /\ \A y \in Yielders : ypc[y] \in Connecting => client_state # "CONNECTED"
  /\ \A y \in Yielders : ypc[y] = "connected" => link # "closed" /\ session

\* What the application was last told while the client is offline.
EventInv ==
  /\ client_state = "RECONNECTING" => event = "DISCONNECT"
  /\ ~boot => \A y \in Yielders :
       ypc[y] \in Connecting \cup {"connected"} => event = "DISCONNECT"

IntervalInv == reconnect_time_interval_ms >= INTERVAL_MIN

\* The yielders that may have pinged since the counter was last compared.
Pinging ==
  {y \in Yielders : ypc[y] \in Connecting \cup {"keepalive", "connected", "cycle"}}

ProbeInv ==
  /\ ProbesBounded
  /\ client_state = "CONNECTED" => keepalive_probes <= PROBE_MAX + Cardinality(Pinging)
  /\ \A y \in Yielders : ypc[y] = "connected" => keepalive_probes = 0

StateInv == YieldExclusion /\ LinkInv /\ ConnectedHasSession /\ EventInv /\ IntervalInv
            /\ ProbeInv

-----------------------------------------------------------------------------
(* Exclusion *)

\* Publishers, timers and the network leave the yielders where they are.
LEMMA OthersStay ==
  ASSUME (\E p \in Publishers : Publish(p)) \/ Timers \/ Network \/ UNCHANGED vars
  PROVE  UNCHANGED <<lock_yield, ypc, boot>>
<1>1. CASE \E p \in Publishers : Publish(p)
  BY <1>1 DEF Publish, wrapper_mqtt_publish, get_next_packetid, MQTTPublish_refused,
              MQTTPublish_sent, MQTTPublish_fails, publish_set_disconnected
<1>2. CASE Timers \/ Network \/ UNCHANGED vars
  BY <1>2 DEF Timers, ping_timer, reconnect_timer, pub_timer, Network, link_breaks,
              broker_takes, threads, vars
<1> QED  BY <1>1, <1>2

\* A step takes lock_yield only when it is free and gives it back only on
\* its way out of the section.
LEMMA ExclusionStep == TypeOK /\ YieldExclusion /\ [Next]_vars => YieldExclusion'
<1> SUFFICES ASSUME TypeOK, YieldExclusion, [Next]_vars PROVE YieldExclusion'
  OBVIOUS
<1>1. ASSUME NEW y \in Yielders, Yield(y) PROVE YieldExclusion'
  <2>0. ypc \in [Yielders -> YieldPc] /\ None \notin Yielders
    BY ThreadsAssumption DEF TypeOK, ThreadTypeOK
  <2>1. CASE Keepalive(y)
    BY <2>0, <2>1 DEF Keepalive, keepalive_sub_skip, keepalive_sub_ping, keepalive_wait,
                keepalive_disconnected, handle_reconnect, Lock, Unlock, Goto, LeaveKeepalive,
                YieldExclusion
  <2>2. CASE Connect(y)
    BY <2>0, <2>2 DEF Connect, mqtt_nwk_connect, MQTTConnect, wait_CONNACK_accepted,
                wait_CONNACK_refused, wait_CONNACK_timeout, reconnected, reconnect_failed,
                constructed, construct_failed, Unlock, Goto, LeaveKeepalive, YieldExclusion
  <2>3. CASE Cycle(y)
    <3>1. \/ ypc[y] = "cycle" /\ lock_yield = None /\ Goto(y, "idle") /\ UNCHANGED lock_yield
          \/ ypc[y] = "cycle" /\ lock_yield = None /\ Goto(y, "proc") /\ lock_yield' = y
          \/ ypc[y] = "proc" /\ Goto(y, "pubinfo") /\ UNCHANGED lock_yield
          \/ ypc[y] = "pubinfo" /\ Goto(y, "idle") /\ Unlock(y)
          \/ UNCHANGED <<lock_yield, ypc>>
      BY <2>3 DEF Cycle, cycle_offline, cycle_probes_exceeded, cycle_read_closed,
                  cycle_read_error, cycle_no_data, cycle_packet, cycle_misread_fails,
                  cycle_misread_packet, pubInfoProc_lock, pubInfoProc_free, MQTTRePublish,
                  pubInfoProc_done, CanRead, threads
    <3> QED  BY <2>0, <3>1 DEF Unlock, Goto, YieldExclusion
  <2> QED  BY <1>1, <2>1, <2>2, <2>3 DEF Yield
<1>2. CASE UNCHANGED <<lock_yield, ypc>>
  BY <1>2 DEF YieldExclusion
<1> QED  BY <1>1, <1>2, OthersStay DEF Next

-----------------------------------------------------------------------------
(* The connection *)

\* Every step keeps the state of the client in line with its connection.
LEMMA LinkStep ==
  ASSUME TypeOK, YieldExclusion, LinkInv, ConnectedHasSession, [Next]_vars
  PROVE  LinkInv' /\ ConnectedHasSession'
<1> USE DEF LinkInv, ConnectedHasSession, Connecting
<1>0. ypc \in [Yielders -> YieldPc] /\ None \notin Yielders /\ downlink \in Seq(Packet)
  BY ThreadsAssumption DEF TypeOK, ThreadTypeOK, NetworkTypeOK
<1>1. InFlight(<<>>) = {}
  BY DEF InFlight
<1>2. downlink # <<>> => Head(downlink) \in InFlight(downlink)
                         /\ InFlight(Tail(downlink)) \subseteq InFlight(downlink)
  BY <1>0, InFlightFacts
<1>3. ASSUME NEW p \in Publishers, Publish(p) PROVE LinkInv' /\ ConnectedHasSession'
  <2>1. UNCHANGED <<ypc, session, downlink>> /\ (link' = "closed" <=> link = "closed")
    BY <1>3 DEF Publish, wrapper_mqtt_publish, get_next_packetid, MQTTPublish_refused,
            MQTTPublish_sent, MQTTPublish_fails, publish_set_disconnected, network,
            send_packet_ok, send_packet_fails
  <2>2. client_state' \in {client_state, "DISCONNECTED"}
    BY <1>3 DEF Publish, wrapper_mqtt_publish, get_next_packetid, MQTTPublish_refused,
            MQTTPublish_sent, MQTTPublish_fails, publish_set_disconnected, client
  <2> QED  BY <2>1, <2>2
<1>4. ASSUME NEW y \in Yielders, Yield(y) PROVE LinkInv' /\ ConnectedHasSession'
  <2>1. CASE Keepalive(y)
    BY <1>0, <1>1, <2>1 DEF Keepalive, keepalive_sub_skip, keepalive_sub_ping, keepalive_wait,
                keepalive_disconnected, handle_reconnect, Lock, Unlock, Goto, LeaveKeepalive,
                YieldExclusion, send_packet_ok, send_packet_fails, disconnect, client, network,
                offline_state
  <2>2. CASE Connect(y)
    BY <1>0, <1>1, <1>2, <2>2 DEF Connect, mqtt_nwk_connect, MQTTConnect, wait_CONNACK_accepted,
                wait_CONNACK_refused, wait_CONNACK_timeout, reconnected, reconnect_failed,
                constructed, construct_failed, Unlock, Goto, LeaveKeepalive, YieldExclusion,
                send_packet_ok, disconnect, reopen, connack_accepts, client, network
  <2>3. CASE Cycle(y) /\ ~cycle_read_error(y) /\ ~cycle_misread_fails(y) /\ ~cycle_misread_packet(y)
    BY <1>0, <1>2, <2>3 DEF Cycle, cycle_offline, cycle_probes_exceeded, cycle_read_closed,
                cycle_no_data, cycle_packet, pubInfoProc_lock, pubInfoProc_free, MQTTRePublish,
                pubInfoProc_done, CanRead, threads, Goto, send_packet_ok, send_packet_fails,
                client, network
  <2>4. CASE cycle_read_error(y) \/ cycle_misread_fails(y) \/ cycle_misread_packet(y)
    <3>1. \A k \in InFlight(downlink)' : k \in InFlight(downlink) \/ k = Rest
      BY <2>4, PartlyRead DEF cycle_misread_fails, cycle_misread_packet, TypeOK
    <3>2. UNCHANGED <<link, session>> /\ client_state = "CONNECTED"
      BY <2>4 DEF cycle_read_error, cycle_misread_fails, cycle_misread_packet, CanRead
    <3>3. \A z \in Yielders : ypc'[z] = ypc[z] \/ ypc'[z] \in {"idle", "proc"}
      BY <1>0, <2>4 DEF cycle_read_error, cycle_misread_fails, cycle_misread_packet, Goto
    <3>4. \A z \in Yielders : ypc[z] \notin Connecting
      BY <3>2
    <3> QED  BY <3>1, <3>2, <3>3, <3>4 DEF Rest, Pkt
  <2> QED  BY <1>4, <2>1, <2>2, <2>3, <2>4 DEF Yield
<1>5. CASE Timers \/ UNCHANGED vars
  BY <1>5 DEF Timers, ping_timer, reconnect_timer, pub_timer, threads, network, vars, client
<1>6. CASE Network
  <2>1. UNCHANGED <<client_state, ypc>>
    BY <1>6 DEF Network, link_breaks, broker_takes, client, threads
  <2>2. CASE link_breaks
    BY <2>1, <2>2 DEF link_breaks
  <2>3. CASE broker_takes
    <3>1. link = "up" /\ link' # "closed" /\ (session => session')
      BY <2>3 DEF broker_takes
    <3>2. \/ downlink' = downlink
          \/ Answer(Pkt("CONNACK")) /\ session'
          \/ \E k \in Packet : Answer(k) /\ k.type # "CONNACK"
      <4>1. uplink \in Seq(Packet) /\ uplink # <<>>
        BY <2>3 DEF broker_takes, TypeOK, NetworkTypeOK
      <4>2. Head(uplink) \in Packet
        BY <4>1
      <4>3. \A t \in {"REFUSED", "PINGRESP"} : Pkt(t) \in Packet /\ Pkt(t).type # "CONNACK"
        BY PacketTypes DEF Pkt
      <4>4. LET a == PubackPkt(Head(uplink).id, Head(uplink).msg)
            IN  a \in Packet /\ a.type # "CONNACK"
        BY <4>2, PacketTypes DEF Packet, PubackPkt
      <4> QED  BY <2>3, <4>3, <4>4 DEF broker_takes
    <3>3. \A k \in InFlight(downlink') : k.type = "CONNACK" => session'
      <4>1. \A k \in Packet : InFlight(Append(downlink, k)) = InFlight(downlink) \cup {k}
        BY <1>0, InFlightFacts
      <4>2. Pkt("CONNACK") \in Packet
        BY PacketTypes
      <4> QED  BY <3>1, <3>2, <4>1, <4>2 DEF Answer
    <3>4. link' # "closed"
      BY <3>1
    <3> QED  BY <2>1, <3>1, <3>3, <3>4 DEF InFlight
  <2> QED  BY <1>6, <2>2, <2>3 DEF Network
<1> QED  BY <1>3, <1>4, <1>5, <1>6 DEF Next

-----------------------------------------------------------------------------
(* The events *)

\* The application hears of the loss before anyone begins to reconnect, and
\* of nothing else until the reconnect is through.
LEMMA EventStep ==
  ASSUME TypeOK, YieldExclusion, EventInv, [Next]_vars
  PROVE  EventInv'
<1> USE DEF EventInv, Connecting
<1>0. ypc \in [Yielders -> YieldPc] /\ None \notin Yielders
  BY ThreadsAssumption DEF TypeOK, ThreadTypeOK
<1>1. ASSUME NEW p \in Publishers, Publish(p) PROVE EventInv'
  BY <1>1 DEF Publish, wrapper_mqtt_publish, get_next_packetid, MQTTPublish_refused,
            MQTTPublish_sent, MQTTPublish_fails, publish_set_disconnected, client, history
<1>2. ASSUME NEW y \in Yielders, Yield(y) PROVE EventInv'
  <2>1. CASE Keepalive(y)
    BY <1>0, <2>1 DEF Keepalive, keepalive_sub_skip, keepalive_sub_ping, keepalive_wait,
                keepalive_disconnected, handle_reconnect, Goto, LeaveKeepalive,
                client, history, offline_state
  <2>2. CASE Connect(y)
    BY <1>0, <2>2 DEF Connect, mqtt_nwk_connect, MQTTConnect, wait_CONNACK_accepted,
                wait_CONNACK_refused, wait_CONNACK_timeout, reconnected, reconnect_failed,
                constructed, construct_failed, Goto, LeaveKeepalive, YieldExclusion,
                client, history
  <2>3. CASE Cycle(y)
    BY <1>0, <2>3 DEF Cycle, cycle_offline, cycle_probes_exceeded, cycle_read_closed,
                cycle_read_error, cycle_no_data, cycle_packet, cycle_misread_fails,
                cycle_misread_packet, pubInfoProc_lock, pubInfoProc_free, MQTTRePublish,
                pubInfoProc_done, CanRead, threads, Goto, client, history
  <2> QED  BY <1>2, <2>1, <2>2, <2>3 DEF Yield
<1>3. CASE Timers \/ Network \/ UNCHANGED vars
  BY <1>3 DEF Timers, ping_timer, reconnect_timer, pub_timer, Network, link_breaks, broker_takes,
              threads, history, vars, client
<1> QED  BY <1>1, <1>2, <1>3 DEF Next

-----------------------------------------------------------------------------
(* The back-off *)

\* How a step may change the interval and the state with it.
LEMMA IntervalMoves ==
  ASSUME [Next]_vars
  PROVE  \/ reconnect_time_interval_ms' = reconnect_time_interval_ms
         \/ reconnect_time_interval_ms' = next_interval
         \/ /\ reconnect_time_interval_ms' = INTERVAL_MIN
            /\ \/ client_state' = "CONNECTED"
               \/ client_state = "DISCONNECTED" /\ client_state' = "RECONNECTING"
<1>1. ASSUME NEW p \in Publishers, Publish(p)
      PROVE  reconnect_time_interval_ms' = reconnect_time_interval_ms
  BY <1>1 DEF Publish, wrapper_mqtt_publish, get_next_packetid, MQTTPublish_refused,
            MQTTPublish_sent, MQTTPublish_fails, publish_set_disconnected, client
<1>2. ASSUME NEW y \in Yielders, Keepalive(y)
      PROVE  \/ reconnect_time_interval_ms' = reconnect_time_interval_ms
             \/ /\ reconnect_time_interval_ms' = INTERVAL_MIN
                /\ client_state = "DISCONNECTED" /\ client_state' = "RECONNECTING"
  BY <1>2 DEF Keepalive, keepalive_sub_skip, keepalive_sub_ping, keepalive_wait,
              keepalive_disconnected, handle_reconnect, client, offline_state
<1>3. ASSUME NEW y \in Yielders, Connect(y)
      PROVE  \/ reconnect_time_interval_ms' = reconnect_time_interval_ms
             \/ reconnect_time_interval_ms' = next_interval
             \/ reconnect_time_interval_ms' = INTERVAL_MIN /\ client_state' = "CONNECTED"
  BY <1>3 DEF Connect, mqtt_nwk_connect, MQTTConnect, wait_CONNACK_accepted,
              wait_CONNACK_refused, wait_CONNACK_timeout, reconnected, reconnect_failed,
              constructed, construct_failed, client
<1>4. ASSUME NEW y \in Yielders, Cycle(y)
      PROVE  reconnect_time_interval_ms' = reconnect_time_interval_ms
  BY <1>4 DEF Cycle, cycle_offline, cycle_probes_exceeded, cycle_read_closed,
              cycle_read_error, cycle_no_data, cycle_packet, cycle_misread_fails,
              cycle_misread_packet, pubInfoProc_lock, pubInfoProc_free, MQTTRePublish,
              pubInfoProc_done, client
<1>5. CASE Timers \/ Network \/ UNCHANGED vars
  BY <1>5 DEF Timers, ping_timer, reconnect_timer, pub_timer, Network, link_breaks, broker_takes,
              vars, client
<1> QED  BY <1>1, <1>2, <1>3, <1>4, <1>5 DEF Next, Yield

\* The interval never falls below its minimum,
LEMMA IntervalStep ==
  ASSUME TypeOK, IntervalInv, [Next]_vars
  PROVE  IntervalInv'
<1>1. reconnect_time_interval_ms \in Nat /\ INTERVAL_MIN \in Nat \ {0}
      /\ INTERVAL_MAX \in Nat /\ INTERVAL_MIN <= INTERVAL_MAX
  BY LimitsAssumption DEF TypeOK, ClientTypeOK
<1> QED  BY <1>1, IntervalMoves DEF IntervalInv, next_interval

\* The wait follows the interval up to the maximum.
LEMMA WaitMsRange ==
  ASSUME NEW i \in Nat, NEW j \in Nat, INTERVAL_MIN <= i, INTERVAL_MIN <= j
  PROVE  /\ WaitMs(i) \in INTERVAL_MIN..INTERVAL_MAX
         /\ i <= j => ~(WaitMs(j) < WaitMs(i))
         /\ INTERVAL_MAX <= i /\ INTERVAL_MAX <= j => ~(WaitMs(j) < WaitMs(i))
BY LimitsAssumption DEF WaitMs

\* ... and the wait it stands for shrinks only where it starts anew.
LEMMA BackoffStep ==
  ASSUME TypeOK, IntervalInv, [Next]_vars
  PROVE  /\ WaitMs(reconnect_time_interval_ms') \in INTERVAL_MIN..INTERVAL_MAX
         /\ WaitMs(reconnect_time_interval_ms') < WaitMs(reconnect_time_interval_ms)
              => \/ client_state' = "CONNECTED"
                 \/ client_state = "DISCONNECTED" /\ client_state' = "RECONNECTING"
<1>1. reconnect_time_interval_ms \in Nat /\ INTERVAL_MIN \in Nat \ {0}
      /\ INTERVAL_MAX \in Nat /\ INTERVAL_MIN <= INTERVAL_MAX
  BY LimitsAssumption DEF TypeOK, ClientTypeOK
<1> DEFINE i == reconnect_time_interval_ms
           j == reconnect_time_interval_ms'
<1>2. i \in Nat /\ INTERVAL_MIN <= i /\ j \in Nat /\ INTERVAL_MIN <= j
  BY <1>1, IntervalMoves DEF IntervalInv, next_interval
<1>3. \/ i <= j
      \/ INTERVAL_MAX <= i /\ INTERVAL_MAX <= j
      \/ client_state' = "CONNECTED"
      \/ client_state = "DISCONNECTED" /\ client_state' = "RECONNECTING"
  BY <1>1, <1>2, IntervalMoves DEF next_interval
<1> HIDE DEF i, j
<1>4. /\ WaitMs(j) \in INTERVAL_MIN..INTERVAL_MAX
      /\ i <= j \/ (INTERVAL_MAX <= i /\ INTERVAL_MAX <= j) => ~(WaitMs(j) < WaitMs(i))
  BY <1>2, WaitMsRange
<1> QED  BY <1>3, <1>4 DEF i, j

-----------------------------------------------------------------------------
(* The probe counter *)

\* What a step of one yielder does to the number of those that may have
\* pinged.
LEMMA PingingMoves ==
  ASSUME TypeOK, NEW y \in Yielders, NEW pc, Goto(y, pc)
  PROVE  /\ Cardinality(Pinging) \in Nat /\ Cardinality(Pinging') \in Nat
         /\ Cardinality(Pinging') <= Cardinality(Yielders)
         /\ (ypc[y] = "idle" /\ pc = "keepalive")
              => Cardinality(Pinging') = Cardinality(Pinging) + 1
         /\ (y \in Pinging => pc \in Connecting \cup {"keepalive", "connected", "cycle"})
              => Cardinality(Pinging) <= Cardinality(Pinging')
<1>0. ypc \in [Yielders -> YieldPc] /\ IsFiniteSet(Yielders)
  BY ThreadsAssumption DEF TypeOK, ThreadTypeOK
<1>1. \A z \in Yielders : ypc'[z] = IF z = y THEN pc ELSE ypc[z]
  BY <1>0 DEF Goto
<1>2. Pinging \subseteq Yielders /\ Pinging' \subseteq Yielders
  BY DEF Pinging
<1>3. /\ IsFiniteSet(Pinging) /\ IsFiniteSet(Pinging')
      /\ Cardinality(Pinging') <= Cardinality(Yielders)
  BY <1>0, <1>2, FS_Subset
<1>4. Cardinality(Pinging) \in Nat /\ Cardinality(Pinging') \in Nat
  BY <1>3, FS_CardinalityType
<1>5. ASSUME ypc[y] = "idle", pc = "keepalive"
      PROVE  Cardinality(Pinging') = Cardinality(Pinging) + 1
  <2>1. Pinging' = Pinging \cup {y} /\ y \notin Pinging
    BY <1>1, <1>5 DEF Pinging, Connecting
  <2> QED  BY <1>3, <2>1, FS_AddElement
<1>6. ASSUME y \in Pinging => pc \in Connecting \cup {"keepalive", "connected", "cycle"}
      PROVE  Cardinality(Pinging) <= Cardinality(Pinging')
  <2>1. Pinging \subseteq Pinging'
    BY <1>1, <1>6 DEF Pinging
  <2> QED  BY <1>3, <2>1, FS_Subset
<1> QED  BY <1>3, <1>4, <1>5, <1>6

\* A yielder pings at most once before it compares the counter with the
\* limit, and it goes on from there only below the limit.
LEMMA ProbeStep ==
  ASSUME TypeOK, YieldExclusion, LinkInv, ProbeInv, [Next]_vars
  PROVE  ProbeInv'
<1> DEFINE c == Cardinality(Pinging)
           Kept == {"nwk", "connect", "connack", "failed", "keepalive", "connected", "cycle"}
<1>0. ypc \in [Yielders -> YieldPc] /\ keepalive_probes \in Nat /\ PROBE_MAX \in Nat
      /\ None \notin Yielders
  BY ThreadsAssumption, LimitsAssumption DEF TypeOK, ThreadTypeOK, ClientTypeOK
<1>1. Cardinality(Yielders) \in Nat
  BY ThreadsAssumption, FS_CardinalityType
<1>2. CASE /\ UNCHANGED <<ypc, keepalive_probes>>
           /\ client_state' = "CONNECTED" => client_state = "CONNECTED"
  BY <1>2 DEF ProbeInv, ProbesBounded, Pinging
<1>3. ASSUME NEW y \in Yielders, NEW pc \in Kept, Goto(y, pc),
             keepalive_probes' = keepalive_probes,
             client_state' = "CONNECTED" => client_state = "CONNECTED",
             pc = "connected" => ypc[y] = "connected"
      PROVE  ProbeInv'
  <2>1. c \in Nat /\ c' \in Nat /\ c <= c'
    BY <1>3, PingingMoves DEF Connecting
  <2>2. ProbesBounded'
    BY <1>3 DEF ProbeInv, ProbesBounded
  <2>3. client_state' = "CONNECTED" => keepalive_probes' <= PROBE_MAX + c'
    <3> HIDE DEF c
    <3> QED  BY <1>0, <1>3, <2>1 DEF ProbeInv, c
  <2>4. \A z \in Yielders : ypc'[z] = "connected" => ypc[z] = "connected"
    BY <1>0, <1>3 DEF Goto
  <2> QED  BY <1>3, <2>2, <2>3, <2>4 DEF ProbeInv
<1>4. ASSUME NEW y \in Yielders, NEW pc, Goto(y, pc), keepalive_probes' \in Nat,
             keepalive_probes' <= PROBE_MAX,
             keepalive_probes' = 0
               \/ (keepalive_probes' = keepalive_probes /\ pc # "connected")
      PROVE  ProbeInv'
  <2>1. c' \in Nat
    BY <1>4, PingingMoves
  <2>2. ProbesBounded'
    BY <1>0, <1>1, <1>4 DEF ProbesBounded
  <2>3. keepalive_probes' <= PROBE_MAX + c'
    BY <1>0, <1>4, <2>1
  <2>4. \A z \in Yielders : ypc'[z] = "connected" => keepalive_probes' = 0
    BY <1>0, <1>4 DEF Goto, ProbeInv
  <2> QED  BY <2>2, <2>3, <2>4 DEF ProbeInv
<1>5. ASSUME NEW y \in Yielders, Goto(y, "idle"), client_state' # "CONNECTED",
             keepalive_probes' = keepalive_probes
      PROVE  ProbeInv'
  BY <1>0, <1>5 DEF ProbeInv, ProbesBounded, Goto
<1>6. ASSUME NEW y \in Yielders, Keepalive(y) PROVE ProbeInv'
  <2>1. CASE keepalive_sub_ping(y) /\ keepalive_probes' = keepalive_probes + 1
    <3>1. ypc[y] = "idle" /\ Goto(y, "keepalive") /\ client_state = "CONNECTED"
          /\ lock_yield = None
      BY <2>1 DEF keepalive_sub_ping, Lock
    <3>2. c \in Nat /\ c' = c + 1 /\ c' <= Cardinality(Yielders)
      BY <3>1, PingingMoves
    <3>3. keepalive_probes <= PROBE_MAX + c
      BY <3>1 DEF ProbeInv
    <3>4. \A z \in Yielders : ypc'[z] # "connected"
      BY <1>0, <3>1 DEF Goto, YieldExclusion
    <3>5. keepalive_probes' <= PROBE_MAX + c' /\ ProbesBounded'
      <4> HIDE DEF c
      <4> QED  BY <1>0, <1>1, <2>1, <3>2, <3>3 DEF ProbesBounded
    <3> QED  BY <3>4, <3>5 DEF ProbeInv
  <2>2. CASE keepalive_sub_ping(y) /\ keepalive_probes' = keepalive_probes
    BY <1>3, <2>2 DEF keepalive_sub_ping
  <2>3. CASE keepalive_sub_skip(y) \/ keepalive_wait(y) \/ handle_reconnect(y)
             \/ keepalive_disconnected(y)
    BY <1>3, <2>3 DEF keepalive_sub_skip, keepalive_wait, handle_reconnect,
                      keepalive_disconnected, LeaveKeepalive, client, offline_state
  <2>4. keepalive_sub_ping(y) => keepalive_probes' \in {keepalive_probes, keepalive_probes + 1}
    BY DEF keepalive_sub_ping, probe_counted
  <2> QED  BY <1>6, <2>1, <2>2, <2>3, <2>4 DEF Keepalive
<1>7. ASSUME NEW y \in Yielders, Connect(y) PROVE ProbeInv'
  <2>1. CASE wait_CONNACK_accepted(y)
    BY <1>0, <1>4, <2>1 DEF wait_CONNACK_accepted
  <2>2. CASE reconnected(y)
    <3>1. keepalive_probes = 0
      BY <2>2 DEF reconnected, ProbeInv
    <3> QED  BY <1>0, <1>4, <2>2, <3>1 DEF reconnected, LeaveKeepalive
  <2>3. CASE mqtt_nwk_connect(y)
    BY <1>3, <2>3 DEF mqtt_nwk_connect, client
  <2>4. CASE MQTTConnect(y)
    BY <1>3, <2>4 DEF MQTTConnect, client
  <2>5. CASE wait_CONNACK_refused(y) \/ wait_CONNACK_timeout(y)
    BY <1>3, <2>5 DEF wait_CONNACK_refused, wait_CONNACK_timeout, client
  <2>6. CASE reconnect_failed(y) \/ constructed(y) \/ construct_failed(y)
    BY <1>3, <2>6 DEF reconnect_failed, constructed, construct_failed, LeaveKeepalive, client
  <2> QED  BY <1>7, <2>1, <2>2, <2>3, <2>4, <2>5, <2>6 DEF Connect
<1>8. ASSUME NEW y \in Yielders, Cycle(y) PROVE ProbeInv'
  <2>1. CASE cycle_offline(y) \/ cycle_read_closed(y)
    BY <1>5, <2>1 DEF cycle_offline, cycle_read_closed, client
  <2>2. CASE cycle_probes_exceeded(y) \/ cycle_packet(y)
    BY <1>0, <1>4, <2>2 DEF cycle_probes_exceeded, cycle_packet
  <2>3. CASE cycle_read_error(y) \/ cycle_no_data(y)
    <3>1. /\ keepalive_probes' = keepalive_probes /\ ~TooManyProbes
          /\ Goto(y, "idle") \/ Goto(y, "proc")
      BY <2>3 DEF cycle_read_error, cycle_no_data, CanRead, client
    <3> QED  BY <1>0, <1>4, <3>1 DEF TooManyProbes
  <2>4. CASE pubInfoProc_free(y)
    BY <1>2, <2>4 DEF pubInfoProc_free, threads
  <2>5. ASSUME NEW pc \in {"idle", "pubinfo"}, Goto(y, pc), ypc[y] \in {"proc", "pubinfo"},
               keepalive_probes' = keepalive_probes,
               client_state' = "CONNECTED" => client_state = "CONNECTED"
        PROVE  ProbeInv'
    <3>1. Pinging' = Pinging
      BY <1>0, <2>5 DEF Pinging, Goto, Connecting
    <3>2. \A z \in Yielders : ypc'[z] = "connected" => ypc[z] = "connected"
      BY <1>0, <2>5 DEF Goto
    <3> QED  BY <2>5, <3>1, <3>2 DEF ProbeInv, ProbesBounded
  <2>6. CASE pubInfoProc_lock(y) \/ pubInfoProc_done(y)
    BY <2>5, <2>6 DEF pubInfoProc_lock, pubInfoProc_done, client
  <2>7. CASE MQTTRePublish(y)
    BY <1>2, <2>5, <2>7 DEF MQTTRePublish
  <2>8. CASE cycle_misread_packet(y)
    BY <1>0, <1>4, <2>8 DEF cycle_misread_packet, CanRead, TooManyProbes
  <2>9. CASE cycle_misread_fails(y)
    BY <1>0, <1>4, <2>9 DEF cycle_misread_fails, CanRead, TooManyProbes
  <2> QED  BY <1>8, <2>1, <2>2, <2>3, <2>4, <2>6, <2>7, <2>8, <2>9 DEF Cycle
<1>9. ASSUME NEW p \in Publishers, Publish(p) PROVE ProbeInv'
  BY <1>2, <1>9 DEF Publish, wrapper_mqtt_publish, get_next_packetid, MQTTPublish_refused,
            MQTTPublish_sent, MQTTPublish_fails, publish_set_disconnected, client
<1>10. CASE Timers \/ Network \/ UNCHANGED vars
  BY <1>2, <1>10 DEF Timers, ping_timer, reconnect_timer, pub_timer, Network, link_breaks,
              broker_takes, threads, vars, client
<1> QED  BY <1>6, <1>7, <1>8, <1>9, <1>10 DEF Next, Yield

-----------------------------------------------------------------------------
(* The theorems *)

\* The initial state: one thread inside IOT_MQTT_Construct, no socket.
LEMMA StateInit == Init => StateInv
<1> SUFFICES ASSUME Init PROVE StateInv
  OBVIOUS
<1>1. PICK y \in Yielders : lock_yield = y /\ ypc = [z \in Yielders |-> IF z = y THEN "nwk" ELSE "idle"]
  BY DEF Init
<1>2. YieldExclusion /\ EventInv
  BY <1>1 DEF Init, YieldExclusion, EventInv
<1>3. LinkInv /\ ConnectedHasSession
  BY <1>1 DEF Init, LinkInv, ConnectedHasSession, InFlight, Connecting
<1>4. IntervalInv
  BY LimitsAssumption DEF Init, IntervalInv
<1>5. ProbeInv
  <2>1. Cardinality(Yielders) \in Nat
    BY ThreadsAssumption, FS_CardinalityType
  <2>2. ProbesBounded
    BY <2>1, LimitsAssumption DEF Init, ProbesBounded
  <2> QED  BY <2>2 DEF Init, ProbeInv
<1> QED  BY <1>2, <1>3, <1>4, <1>5 DEF StateInv

\* The inductive invariant of the client state holds in every reachable state.
THEOREM StateInvariance == Spec => [](TypeOK /\ StateInv)
<1>1. Init => StateInv
  BY StateInit
<1>2. TypeOK /\ StateInv /\ [Next]_vars => StateInv'
  BY ExclusionStep, LinkStep, EventStep, IntervalStep, ProbeStep DEF StateInv
<1> QED  BY <1>1, <1>2, TypeCorrect, PTL DEF Spec

\* YieldExclusion, for any number of yielding threads: iotx_mc_keepalive and
\* the walk of the wait list never run in two threads at once.
THEOREM YieldsExclude == Spec => []YieldExclusion
<1>1. StateInv => YieldExclusion
  BY DEF StateInv
<1> QED  BY <1>1, StateInvariance, PTL

\* ConnectedHasSession, however late a publisher reports a broken socket and
\* whoever reconnects: a client in state CONNECTED has an open socket on which
\* the broker accepted its CONNECT.
THEOREM ConnectedIsReal == Spec => []ConnectedHasSession
<1>1. StateInv => ConnectedHasSession
  BY DEF StateInv
<1> QED  BY <1>1, StateInvariance, PTL

\* ProbesBounded: keepalive_probes exceeds IOTX_MC_KEEPALIVE_PROBE_MAX by at
\* most one per yielding thread.
THEOREM ProbesFit == Spec => []ProbesBounded
<1>1. StateInv => ProbesBounded
  BY DEF StateInv, ProbeInv
<1> QED  BY <1>1, StateInvariance, PTL

\* ReconnectAfterDisconnect: iotx_mc_reconnect_callback is called only when
\* the last event the application was given is a DISCONNECT.
THEOREM EventsInOrder == Spec => ReconnectAfterDisconnect
<1>1. StateInv => \A y \in Yielders : reconnected(y) => event = "DISCONNECT"
  BY DEF StateInv, EventInv, reconnected
<1>2. (TypeOK /\ StateInv) /\ [Next]_vars
        => [\A y \in Yielders : reconnected(y) => event = "DISCONNECT"]_vars
  BY <1>1
<1> QED  BY <1>2, StateInvariance, PTL DEF Spec, ReconnectAfterDisconnect

\* BackoffMonotone, for any limits: the wait between two attempts stays
\* between its limits and starts anew only after a connection or a new loss.
THEOREM BacksOff == Spec => BackoffMonotone
<1>1. (TypeOK /\ StateInv) /\ [Next]_vars =>
        [/\ WaitMs(reconnect_time_interval_ms') \in INTERVAL_MIN..INTERVAL_MAX
         /\ WaitMs(reconnect_time_interval_ms') < WaitMs(reconnect_time_interval_ms)
              => \/ client_state' = "CONNECTED"
                 \/ client_state = "DISCONNECTED" /\ client_state' = "RECONNECTING"]_vars
  BY BackoffStep DEF StateInv
<1> QED  BY <1>1, StateInvariance, PTL DEF Spec, BackoffMonotone
=============================================================================
