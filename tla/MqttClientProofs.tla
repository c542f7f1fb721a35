-------------------------- MODULE MqttClientProofs --------------------------
(***************************************************************************)
(* Proofs about MqttClient for every value of its constants: its type      *)
(* invariant, that no accepted QoS1 publish is lost, and that it           *)
(* implements the at-least-once promise.                                   *)
(***************************************************************************)
EXTENDS MqttClient, TLAPS

-----------------------------------------------------------------------------
(* Packets and the socket operations *)

\* The packets the client and the broker build are packets.
LEMMA PacketTypes ==
  /\ \A t \in {"CONNECT", "PINGREQ", "CONNACK", "REFUSED", "PINGRESP", "REST"} :
       Pkt(t) \in Packet
  /\ \A id \in 0..PACKET_ID_MAX, m \in Msgs \cup {None} :
       PublishPkt(id, m) \in Packet /\ PubackPkt(id, m) \in Packet
BY LimitsAssumption DEF Packet, Pkt, PublishPkt, PubackPkt

\* A fault stays within its bound.
LEMMA FaultType ==
  ASSUME faults \in 0..MaxFaults, Fault PROVE faults' \in 0..MaxFaults
BY LimitsAssumption DEF Fault

\* iotx_mc_send_packet keeps the socket well typed.
LEMMA SendType ==
  ASSUME NetworkTypeOK, NEW k \in Packet, send_packet_ok(k) \/ send_packet_fails,
         UNCHANGED <<session, downlink, received>>
  PROVE  NetworkTypeOK'
<1>1. link' \in {"closed", "up", "dead"}
  BY DEF NetworkTypeOK, send_packet_ok, send_packet_fails
<1>2. uplink' \in Seq(Packet)
  <2>1. uplink \in Seq(Packet) /\ <<>> \in Seq(Packet)
    BY DEF NetworkTypeOK
  <2>2. uplink' = <<>> \/ uplink' = uplink \/ uplink' = Append(uplink, k)
    BY DEF send_packet_ok, send_packet_fails
  <2>3. Append(uplink, k) \in Seq(Packet)
    BY <2>1
  <2> QED  BY <2>1, <2>2, <2>3, Zenon
<1>3. faults' \in 0..MaxFaults
  BY FaultType DEF NetworkTypeOK, send_packet_ok, send_packet_fails
<1> QED  BY <1>1, <1>2, <1>3 DEF NetworkTypeOK

\* So do closing it ...
LEMMA DisconnectType ==
  ASSUME NetworkTypeOK, disconnect, faults' \in 0..MaxFaults, UNCHANGED received
  PROVE  NetworkTypeOK'
<1>1. link' \in {"closed", "up", "dead"}
  BY DEF disconnect
<1>2. uplink' \in Seq(Packet) /\ downlink' \in Seq(Packet)
  BY DEF disconnect
<1>3. session' \in BOOLEAN
  BY DEF disconnect
<1> QED  BY <1>1, <1>2, <1>3 DEF NetworkTypeOK

\* ... and opening it again.
LEMMA ReopenType ==
  ASSUME NetworkTypeOK, reopen, UNCHANGED received
  PROVE  NetworkTypeOK'
<1>1. link' \in {"closed", "up", "dead"}
  BY DEF reopen
<1>2. uplink' \in Seq(Packet) /\ downlink' \in Seq(Packet)
  BY DEF reopen
<1>3. session' \in BOOLEAN
  BY DEF reopen
<1>4. faults' \in 0..MaxFaults
  BY FaultType DEF NetworkTypeOK, reopen
<1> QED  BY <1>1, <1>2, <1>3, <1>4 DEF NetworkTypeOK

\* What is in flight after a packet is appended, or the first one is taken.
LEMMA InFlightFacts ==
  ASSUME NEW S, NEW s \in Seq(S)
  PROVE  /\ InFlight(<<>>) = {}
         /\ \A k \in S : InFlight(Append(s, k)) = InFlight(s) \cup {k}
         /\ s # <<>> => /\ Head(s) \in InFlight(s) /\ Tail(s) \in Seq(S)
                        /\ InFlight(Tail(s)) \subseteq InFlight(s)
         /\ InFlight(s) \subseteq S
<1>1. InFlight(<<>>) = {}
  BY DEF InFlight
<1>2. ASSUME NEW k \in S PROVE InFlight(Append(s, k)) = InFlight(s) \cup {k}
  BY DEF InFlight
<1>3. ASSUME s # <<>>
      PROVE  Head(s) \in InFlight(s) /\ Tail(s) \in Seq(S) /\ InFlight(Tail(s)) \subseteq InFlight(s)
  <2>1. Len(s) \in Nat \ {0}
    BY <1>3
  <2>2. Head(s) = s[1] /\ 1 \in 1..Len(s)
    BY <2>1
  <2>3. Len(Tail(s)) = Len(s) - 1 /\ \A i \in 1..Len(s) - 1 : Tail(s)[i] = s[i + 1]
    BY <1>3, <2>1
  <2>4. \A i \in 1..Len(s) - 1 : i + 1 \in 1..Len(s)
    BY <2>1
  <2> QED  BY <1>3, <2>2, <2>3, <2>4 DEF InFlight
<1>4. InFlight(s) \subseteq S
  BY DEF InFlight
<1> QED  BY <1>1, <1>2, <1>3, <1>4

\* A failed read and one in a stream that is out of step bring nothing into
\* the stream but the rest of a packet.
LEMMA PartlyRead ==
  ASSUME NetworkTypeOK, misread \/ \E y \in Yielders : cycle_read_error(y)
  PROVE  /\ downlink' \in Seq(Packet)
         /\ \A k \in InFlight(downlink)' : k \in InFlight(downlink) \/ k = Rest
         /\ faults' \in 0..MaxFaults
<1>0. downlink \in Seq(Packet) /\ Rest \in Packet /\ InFlight(downlink)' = InFlight(downlink')
  BY PacketTypes DEF NetworkTypeOK, Rest, InFlight
<1>1. ASSUME NEW s \in Seq(Packet)
      PROVE  /\ <<Rest>> \o s \in Seq(Packet)
             /\ \A k \in InFlight(<<Rest>> \o s) : k \in InFlight(s) \/ k = Rest
  <2>1. <<Rest>> \in Seq(Packet) /\ Len(<<Rest>>) = 1 /\ <<Rest>>[1] = Rest
    BY <1>0
  <2>2. <<Rest>> \o s \in Seq(Packet) /\ Len(<<Rest>> \o s) = Len(s) + 1
    BY <2>1
  <2>3. \A i \in 1..Len(s) + 1 :
          (<<Rest>> \o s)[i] = IF i = 1 THEN Rest ELSE s[i - 1]
    BY <2>1
  <2>4. \A i \in 1..Len(s) + 1 : i = 1 \/ i - 1 \in 1..Len(s)
    OBVIOUS
  <2> QED  BY <2>2, <2>3, <2>4 DEF InFlight
<1>2. CASE misread
  <2>1. PICK n \in 1..Len(downlink) :
          LET after == SubSeq(downlink, n + 1, Len(downlink))
          IN  \/ downlink' = after /\ UNCHANGED faults
              \/ downlink' = <<Rest>> \o after /\ Fault
    BY <1>2 DEF misread
  <2> DEFINE after == SubSeq(downlink, n + 1, Len(downlink))
  <2>2. after \in Seq(Packet)
    BY <1>0
  <2>3. \A k \in InFlight(after) : k \in InFlight(downlink)
    <3>1. Len(downlink) \in Nat /\ n \in 1..Len(downlink)
      BY <1>0
    <3>2. Len(after) = Len(downlink) - n /\ \A i \in 1..Len(downlink) - n : after[i] = downlink[n + i]
      BY <1>0, <3>1
    <3>3. \A i \in 1..Len(downlink) - n : n + i \in 1..Len(downlink)
      BY <3>1
    <3> QED  BY <3>2, <3>3 DEF InFlight
  <2>4. (downlink' = after /\ UNCHANGED faults) \/ (downlink' = <<Rest>> \o after /\ Fault)
    BY <2>1
  <2>5. faults' \in 0..MaxFaults
    BY <2>4, FaultType DEF NetworkTypeOK
  <2> HIDE DEF after
  <2> QED  BY <1>0, <1>1, <2>2, <2>3, <2>4, <2>5
<1>3. CASE \E y \in Yielders : cycle_read_error(y)
  <2>1. faults' \in 0..MaxFaults
    BY <1>3, FaultType DEF cycle_read_error, NetworkTypeOK
  <2>2. CASE UNCHANGED downlink
    BY <1>0, <2>1, <2>2
  <2>3. CASE downlink # <<>> /\ downlink' = cut(Head(downlink)) \o Tail(downlink)
    <3>1. Tail(downlink) \in Seq(Packet) /\ InFlight(Tail(downlink)) \subseteq InFlight(downlink)
      BY <1>0, <2>3, InFlightFacts
    <3>2. CASE downlink' = <<Rest>> \o Tail(downlink)
      BY <1>0, <1>1, <2>1, <3>1, <3>2
    <3>3. CASE downlink' = <<>> \o Tail(downlink)
      <4>1. downlink' = Tail(downlink)
        BY <3>1, <3>3
      <4> QED  BY <1>0, <2>1, <3>1, <4>1
    <3> QED  BY <2>3, <3>2, <3>3 DEF cut
  <2> QED  BY <1>3, <2>2, <2>3 DEF cycle_read_error
<1> QED  BY <1>2, <1>3

-----------------------------------------------------------------------------
(* Types.  A step that touches few variables is one leaf; the others go     *)
(* part by part, with the lemmas above for the socket.                      *)

\* The packet-id counter stays within its range and never yields 0.
LEMMA NextIdType ==
  ASSUME packet_id \in 0..PACKET_ID_MAX PROVE next_packetid \in 1..PACKET_ID_MAX
BY LimitsAssumption DEF next_packetid

\* Between two of its steps a publisher holds a record of this type.
PubRec == [pc : PubPc, qos : Qos \cup {0}, id : 0..PACKET_ID_MAX, msg : Msgs \cup {None}]

\* A publisher that has returned holds a record of that type.
LEMMA IdleType == Idle \in PubRec /\ [Idle EXCEPT !.pc = "lost"] \in PubRec
BY LimitsAssumption DEF Idle, PubRec, PubPc

\* A publisher's step only replaces its own record.
LEMMA PubType ==
  ASSUME ThreadTypeOK, NEW p \in Publishers, NEW r \in PubRec,
         pub' = [pub EXCEPT ![p] = r], UNCHANGED <<lock_yield, ypc, boot, try_count>>
  PROVE  ThreadTypeOK'
BY DEF ThreadTypeOK, PubRec

\* A yielder's step changes its own place, and may take or give back lock_yield.
LEMMA YieldType ==
  ASSUME ThreadTypeOK, NEW y \in Yielders, NEW pc \in YieldPc, Goto(y, pc),
         lock_yield' \in {lock_yield, y, None}, UNCHANGED <<boot, pub>>,
         try_count' \in 1..CONN_TRIES
  PROVE  ThreadTypeOK'
BY DEF ThreadTypeOK, Goto

\* Expired or not, valid or not, a node of the wait list stays a node.
LEMMA NodeType ==
  ASSUME NEW n \in Node
  PROVE  /\ [n EXCEPT !.node_state = "INVALID"] \in Node
         /\ \A b \in BOOLEAN : [n EXCEPT !.expired = b] \in Node
BY DEF Node

\* The steps of wrapper_mqtt_publish keep the types.
LEMMA PublishType ==
  ASSUME TypeOK, PubOK, NEW p \in Publishers, Publish(p)
  PROVE  TypeOK'
<1> USE DEF TypeOK
<1>0. pub[p] \in PubRec
  BY DEF ThreadTypeOK, PubRec
<1>1. CASE \E qos \in Qos, m \in Msgs \cup {None} : wrapper_mqtt_publish(p, qos, m)
  <2>1. PICK qos \in Qos, m \in Msgs \cup {None} : wrapper_mqtt_publish(p, qos, m)
    BY <1>1
  <2>2. [pc |-> IF qos = 0 THEN "numbered" ELSE "checked", qos |-> qos, id |-> 0, msg |-> m]
          \in PubRec
    BY LimitsAssumption DEF PubRec, PubPc
  <2>3. ThreadTypeOK'
    BY <2>1, <2>2, PubType DEF wrapper_mqtt_publish
  <2> QED  BY <2>1, <2>3 DEF wrapper_mqtt_publish, ClientTypeOK, NetworkTypeOK, HistoryTypeOK,
                             client, network, history
<1>2. CASE get_next_packetid(p)
  <2>1. packet_id' \in 0..PACKET_ID_MAX
    BY <1>2, NextIdType, LimitsAssumption DEF get_next_packetid, ClientTypeOK
  <2>2. ClientTypeOK'
    BY <1>2, <2>1 DEF get_next_packetid, ClientTypeOK
  <2>3. [pub[p] EXCEPT !.pc = "numbered", !.id = next_packetid] \in PubRec
    <3>1. next_packetid \in 0..PACKET_ID_MAX
      BY NextIdType, LimitsAssumption DEF ClientTypeOK
    <3> QED  BY <1>0, <3>1 DEF PubRec, PubPc
  <2>4. ThreadTypeOK'
    BY <1>2, <2>3, IdleType, PubType DEF get_next_packetid
  <2>5. mistaken' \in BOOLEAN
    BY <1>2 DEF get_next_packetid
  <2> QED  BY <1>2, <2>2, <2>4, <2>5 DEF get_next_packetid, NetworkTypeOK, HistoryTypeOK, network
<1>3. CASE MQTTPublish_refused(p)
  <2>1. ThreadTypeOK'
    BY <1>3, IdleType, PubType DEF MQTTPublish_refused
  <2>2. faults' \in 0..MaxFaults
    BY <1>3, FaultType DEF MQTTPublish_refused, NetworkTypeOK
  <2> QED  BY <1>3, <2>1, <2>2 DEF MQTTPublish_refused, ClientTypeOK, NetworkTypeOK,
                                   HistoryTypeOK, client, history
<1>4. CASE MQTTPublish_sent(p)
  <2>1. PublishPkt(pub[p].id, pub[p].msg) \in Packet
    BY <1>0, PacketTypes DEF PubRec
  <2>2. NetworkTypeOK'
    BY <1>4, <2>1, SendType DEF MQTTPublish_sent
  <2>3. ThreadTypeOK'
    BY <1>4, IdleType, PubType DEF MQTTPublish_sent
  <2>4. ASSUME pub[p].qos = 1
        PROVE  [msg_id |-> pub[p].id, msg |-> pub[p].msg, node_state |-> "NORMANL",
                expired |-> FALSE] \in Node
    <3>1. pub[p].id \in 1..PACKET_ID_MAX /\ pub[p].msg \in Msgs
      BY <1>0, <1>4, <2>4, LimitsAssumption DEF PubRec, PubOK, MQTTPublish_sent
    <3> QED  BY <3>1 DEF Node
  <2>5. list_pub_wait_ack' \subseteq Node
    BY <1>4, <2>4 DEF MQTTPublish_sent, push_pubInfo_to, ClientTypeOK
  <2>6. ClientTypeOK'
    BY <1>4, <2>5 DEF MQTTPublish_sent, ClientTypeOK
  <2>7. accepted' \subseteq Msgs
    BY <1>0, <1>4 DEF MQTTPublish_sent, HistoryTypeOK, PubRec
  <2> QED  BY <1>4, <2>2, <2>3, <2>6, <2>7 DEF MQTTPublish_sent, HistoryTypeOK
<1>5. CASE MQTTPublish_fails(p)
  <2>1. NetworkTypeOK'
    BY <1>5, PacketTypes, SendType DEF MQTTPublish_fails
  <2>2. ThreadTypeOK'
    BY <1>5, IdleType, PubType DEF MQTTPublish_fails
  <2> QED  BY <1>5, <2>1, <2>2 DEF MQTTPublish_fails, ClientTypeOK, HistoryTypeOK, client, history
<1>6. CASE publish_set_disconnected(p)
  <2>1. ThreadTypeOK'
    BY <1>6, IdleType, PubType DEF publish_set_disconnected
  <2> QED  BY <1>6, <2>1 DEF publish_set_disconnected, ClientTypeOK, State, NetworkTypeOK,
                             HistoryTypeOK, network, history
<1> QED  BY <1>1, <1>2, <1>3, <1>4, <1>5, <1>6 DEF Publish

\* The steps of iotx_mc_keepalive keep the types.
LEMMA KeepaliveType ==
  ASSUME TypeOK, NEW y \in Yielders, Keepalive(y)
  PROVE  TypeOK'
<1> USE DEF TypeOK, Lock, Unlock, LeaveKeepalive
<1>0. {"keepalive", "cycle", "nwk"} \subseteq YieldPc /\ try_count \in 1..CONN_TRIES
  BY DEF YieldPc, ThreadTypeOK
<1>1. CASE keepalive_sub_skip(y)
  <2>1. ThreadTypeOK'
    BY <1>0, <1>1, YieldType DEF keepalive_sub_skip
  <2> QED  BY <1>1, <2>1 DEF keepalive_sub_skip, ClientTypeOK, NetworkTypeOK, HistoryTypeOK,
                             client, network, history
<1>2. CASE keepalive_sub_ping(y)
  <2>1. ThreadTypeOK'
    BY <1>0, <1>2, YieldType DEF keepalive_sub_ping
  <2>2. NetworkTypeOK'
    <3>1. CASE send_packet_ok(Pkt("PINGREQ")) \/ send_packet_fails
      BY <1>2, <3>1, PacketTypes, SendType DEF keepalive_sub_ping
    <3>2. CASE Fault /\ UNCHANGED <<link, uplink>>
      <4>1. faults' \in 0..MaxFaults
        BY <3>2, FaultType DEF NetworkTypeOK
      <4> QED  BY <1>2, <3>2, <4>1 DEF keepalive_sub_ping, NetworkTypeOK
    <3> QED  BY <1>2, <3>1, <3>2 DEF keepalive_sub_ping
  <2>3. client_state' \in State
    BY <1>2 DEF keepalive_sub_ping, ClientTypeOK, State
  <2>4. keepalive_probes' \in Nat
    BY <1>2 DEF keepalive_sub_ping, probe_counted, ClientTypeOK
  <2>5. ClientTypeOK'
    BY <1>2, <2>3, <2>4 DEF keepalive_sub_ping, ClientTypeOK
  <2> QED  BY <1>2, <2>1, <2>2, <2>5 DEF keepalive_sub_ping, HistoryTypeOK, history
<1>3. CASE keepalive_wait(y)
  <2>1. ThreadTypeOK'
    BY <1>0, <1>3, YieldType DEF keepalive_wait
  <2> QED  BY <1>3, <2>1 DEF keepalive_wait, ClientTypeOK, NetworkTypeOK, HistoryTypeOK,
                             client, network, history
<1>4. CASE keepalive_disconnected(y)
  <2>1. ThreadTypeOK'
    BY <1>0, <1>4, YieldType DEF keepalive_disconnected
  <2>2. NetworkTypeOK'
    BY <1>4, DisconnectType DEF keepalive_disconnected, NetworkTypeOK
  <2>3. ClientTypeOK'
    BY <1>4, LimitsAssumption DEF keepalive_disconnected, ClientTypeOK, offline_state, State
  <2> QED  BY <1>4, <2>1, <2>2, <2>3 DEF keepalive_disconnected, HistoryTypeOK
<1>5. CASE handle_reconnect(y)
  <2>1. ThreadTypeOK'
    BY <1>0, <1>5, YieldType DEF handle_reconnect
  <2> QED  BY <1>5, <2>1 DEF handle_reconnect, ClientTypeOK, NetworkTypeOK, HistoryTypeOK,
                             client, network, history
<1> QED  BY <1>1, <1>2, <1>3, <1>4, <1>5 DEF Keepalive

\* The steps of iotx_mc_attempt_reconnect and wrapper_mqtt_connect keep the types.
LEMMA ConnectType ==
  ASSUME TypeOK, NEW y \in Yielders, Connect(y)
  PROVE  TypeOK'
<1> USE DEF TypeOK, Unlock, LeaveKeepalive
<1>0. /\ {"nwk", "connect", "connack", "connected", "failed", "cycle"} \subseteq YieldPc
      /\ try_count \in 1..CONN_TRIES
  BY DEF YieldPc, ThreadTypeOK
<1>1. CASE mqtt_nwk_connect(y)
  <2>1. 1 \in 1..CONN_TRIES
    BY LimitsAssumption
  <2>2. ThreadTypeOK'
    BY <1>0, <1>1, <2>1, YieldType DEF mqtt_nwk_connect
  <2>3. NetworkTypeOK'
    BY <1>1, ReopenType DEF mqtt_nwk_connect
  <2> QED  BY <1>1, <2>2, <2>3 DEF mqtt_nwk_connect, ClientTypeOK, HistoryTypeOK, client, history
<1>2. CASE MQTTConnect(y)
  <2>1. ThreadTypeOK'
    BY <1>0, <1>2, YieldType DEF MQTTConnect
  <2>2. NetworkTypeOK'
    <3>1. CASE send_packet_ok(Pkt("CONNECT")) /\ UNCHANGED <<session, downlink>>
      BY <1>2, <3>1, PacketTypes, SendType DEF MQTTConnect
    <3>2. CASE (UNCHANGED faults \/ Fault) /\ disconnect
      <4>1. faults' \in 0..MaxFaults
        BY <3>2, FaultType DEF NetworkTypeOK
      <4> QED  BY <1>2, <3>2, <4>1, DisconnectType DEF MQTTConnect
    <3> QED  BY <1>2, <3>1, <3>2 DEF MQTTConnect
  <2> QED  BY <1>2, <2>1, <2>2 DEF MQTTConnect, ClientTypeOK, HistoryTypeOK, client, history
<1>3. CASE wait_CONNACK_accepted(y)
  <2>1. ThreadTypeOK'
    BY <1>0, <1>3, YieldType DEF wait_CONNACK_accepted
  <2>2. Tail(downlink) \in Seq(Packet)
    BY <1>3, InFlightFacts DEF wait_CONNACK_accepted, NetworkTypeOK
  <2>3. NetworkTypeOK'
    BY <1>3, <2>2 DEF wait_CONNACK_accepted, NetworkTypeOK
  <2>4. ClientTypeOK'
    BY <1>3 DEF wait_CONNACK_accepted, ClientTypeOK, State
  <2> QED  BY <1>3, <2>1, <2>3, <2>4 DEF wait_CONNACK_accepted, HistoryTypeOK, history
<1>4. CASE wait_CONNACK_refused(y)
  <2>1. ThreadTypeOK'
    BY <1>0, <1>4, YieldType DEF wait_CONNACK_refused
  <2>2. NetworkTypeOK'
    BY <1>4, DisconnectType DEF wait_CONNACK_refused, NetworkTypeOK
  <2> QED  BY <1>4, <2>1, <2>2 DEF wait_CONNACK_refused, ClientTypeOK, HistoryTypeOK, client, history
<1>5. CASE wait_CONNACK_timeout(y)
  <2>1. try_count' \in 1..CONN_TRIES
    BY <1>0, <1>5, LimitsAssumption DEF wait_CONNACK_timeout
  <2>2. ThreadTypeOK'
    BY <1>0, <1>5, <2>1, YieldType DEF wait_CONNACK_timeout
  <2>3. NetworkTypeOK'
    <3>1. CASE reopen
      BY <1>5, <3>1, ReopenType DEF wait_CONNACK_timeout
    <3>2. CASE Fault /\ link' \in {"up", "closed"}
               /\ uplink' = <<>> /\ downlink' = <<>> /\ session' = FALSE
      <4>1. faults' \in 0..MaxFaults
        BY <3>2, FaultType DEF NetworkTypeOK
      <4>2. uplink' \in Seq(Packet) /\ downlink' \in Seq(Packet)
        BY <3>2
      <4>3. session' \in BOOLEAN
        BY <3>2
      <4> QED  BY <1>5, <3>2, <4>1, <4>2, <4>3 DEF wait_CONNACK_timeout, NetworkTypeOK
    <3> QED  BY <1>5, <3>1, <3>2 DEF wait_CONNACK_timeout
  <2> QED  BY <1>5, <2>2, <2>3 DEF wait_CONNACK_timeout, ClientTypeOK, HistoryTypeOK, client, history
<1>6. CASE reconnected(y)
  <2>1. ThreadTypeOK'
    BY <1>0, <1>6, YieldType DEF reconnected
  <2>2. ClientTypeOK'
    BY <1>6, LimitsAssumption DEF reconnected, ClientTypeOK, State
  <2> QED  BY <1>6, <2>1, <2>2 DEF reconnected, NetworkTypeOK, HistoryTypeOK, network
<1>7. CASE reconnect_failed(y)
  <2>1. ThreadTypeOK'
    BY <1>0, <1>7, YieldType DEF reconnect_failed
  <2>2. next_interval \in Nat
    BY LimitsAssumption DEF next_interval, ClientTypeOK
  <2>3. ClientTypeOK'
    BY <1>7, <2>2 DEF reconnect_failed, ClientTypeOK
  <2> QED  BY <1>7, <2>1, <2>3 DEF reconnect_failed, NetworkTypeOK, HistoryTypeOK, network, history
<1>8. CASE constructed(y)
  <2>1. lock_yield' \in Yielders \cup {None} /\ ypc' \in [Yielders -> YieldPc]
    BY <1>0, <1>8 DEF constructed, ThreadTypeOK, Goto
  <2>2. ThreadTypeOK'
    BY <1>8, <2>1 DEF constructed, ThreadTypeOK
  <2> QED  BY <1>8, <2>2 DEF constructed, ClientTypeOK, NetworkTypeOK, HistoryTypeOK,
                             client, network, history
<1>9. CASE construct_failed(y)
  <2>1. ThreadTypeOK'
    BY <1>0, <1>9, YieldType DEF construct_failed
  <2>2. NetworkTypeOK'
    BY <1>9, DisconnectType DEF construct_failed, NetworkTypeOK
  <2> QED  BY <1>9, <2>1, <2>2 DEF construct_failed, ClientTypeOK, HistoryTypeOK, client, history
<1> QED  BY <1>1, <1>2, <1>3, <1>4, <1>5, <1>6, <1>7, <1>8, <1>9 DEF Connect

\* The steps of _mqtt_cycle keep the types.
LEMMA CycleType ==
  ASSUME TypeOK, NEW y \in Yielders, Cycle(y)
  PROVE  TypeOK'
<1> USE DEF TypeOK, Unlock, CanRead
<1>0. {"idle", "proc", "pubinfo"} \subseteq YieldPc /\ try_count \in 1..CONN_TRIES
  BY DEF YieldPc, ThreadTypeOK
<1>1. CASE cycle_offline(y)
  <2>1. ThreadTypeOK'
    BY <1>0, <1>1, YieldType DEF cycle_offline
  <2> QED  BY <1>1, <2>1 DEF cycle_offline, ClientTypeOK, NetworkTypeOK, HistoryTypeOK,
                             client, network, history
<1>2. CASE cycle_probes_exceeded(y)
  <2>1. ThreadTypeOK'
    BY <1>0, <1>2, YieldType DEF cycle_probes_exceeded
  <2> QED  BY <1>2, <2>1 DEF cycle_probes_exceeded, ClientTypeOK, State, NetworkTypeOK,
                             HistoryTypeOK, network, history
<1>3. CASE cycle_read_closed(y)
  <2>1. ThreadTypeOK'
    BY <1>0, <1>3, YieldType DEF cycle_read_closed
  <2> QED  BY <1>3, <2>1 DEF cycle_read_closed, ClientTypeOK, State, NetworkTypeOK,
                             HistoryTypeOK, network, history
<1>4. CASE cycle_read_error(y)
  <2>1. ThreadTypeOK'
    BY <1>0, <1>4, YieldType DEF cycle_read_error
  <2>2. downlink' \in Seq(Packet) /\ faults' \in 0..MaxFaults
    BY <1>4, PartlyRead
  <2>3. NetworkTypeOK'
    BY <1>4, <2>2 DEF cycle_read_error, NetworkTypeOK
  <2> QED  BY <1>4, <2>1, <2>3 DEF cycle_read_error, ClientTypeOK, HistoryTypeOK, client, history
<1>5. CASE cycle_no_data(y)
  <2>1. ThreadTypeOK'
    BY <1>0, <1>5, YieldType DEF cycle_no_data
  <2> QED  BY <1>5, <2>1 DEF cycle_no_data, ClientTypeOK, NetworkTypeOK, HistoryTypeOK,
                             client, network, history
<1>6. CASE cycle_packet(y)
  <2>1. ThreadTypeOK'
    BY <1>0, <1>6, YieldType DEF cycle_packet
  <2>2. Tail(downlink) \in Seq(Packet)
    BY <1>6, InFlightFacts DEF cycle_packet, NetworkTypeOK
  <2>3. NetworkTypeOK'
    BY <1>6, <2>2 DEF cycle_packet, NetworkTypeOK
  <2>4. \A id : mask_pubInfo_from(id) \subseteq Node
    BY NodeType DEF mask_pubInfo_from, ClientTypeOK
  <2>5. list_pub_wait_ack' \subseteq Node
    BY <1>6, <2>4 DEF cycle_packet, ClientTypeOK
  <2>6. ClientTypeOK'
    BY <1>6, <2>5 DEF cycle_packet, ClientTypeOK
  <2> QED  BY <1>6, <2>1, <2>3, <2>6 DEF cycle_packet, HistoryTypeOK, history
<1>7. CASE pubInfoProc_lock(y)
  <2>1. ThreadTypeOK'
    BY <1>0, <1>7, YieldType DEF pubInfoProc_lock
  <2> QED  BY <1>7, <2>1 DEF pubInfoProc_lock, ClientTypeOK, NetworkTypeOK, HistoryTypeOK,
                             client, network, history
<1>8. CASE pubInfoProc_free(y)
  BY <1>8 DEF pubInfoProc_free, ClientTypeOK, ThreadTypeOK, NetworkTypeOK, HistoryTypeOK,
              threads, network, history
<1>9. CASE MQTTRePublish(y)
  <2>1. PICK n \in list_pub_wait_ack :
          /\ list_pub_wait_ack' = restart(n)
          /\ \/ /\ send_packet_ok(PublishPkt(n.msg_id, n.msg))
                /\ UNCHANGED <<client_state, lock_yield, ypc>>
             \/ /\ send_packet_fails
                /\ client_state' = "DISCONNECTED"
                /\ Unlock(y) /\ Goto(y, "idle")
    BY <1>9 DEF MQTTRePublish
  <2>2. n \in Node
    BY DEF ClientTypeOK
  <2>3. PublishPkt(n.msg_id, n.msg) \in Packet
    BY <2>2, PacketTypes, LimitsAssumption DEF Node
  <2>4. NetworkTypeOK'
    BY <1>9, <2>1, <2>3, SendType DEF MQTTRePublish
  <2>5. ThreadTypeOK'
    <3>1. CASE UNCHANGED <<lock_yield, ypc>>
      BY <1>9, <3>1 DEF MQTTRePublish, ThreadTypeOK
    <3>2. CASE Unlock(y) /\ Goto(y, "idle")
      BY <1>0, <1>9, <3>2, YieldType DEF MQTTRePublish
    <3> QED  BY <2>1, <3>1, <3>2
  <2>6. list_pub_wait_ack' \subseteq Node
    BY <2>1, <2>2, NodeType DEF restart, ClientTypeOK
  <2>7. client_state' \in State
    BY <2>1 DEF ClientTypeOK, State
  <2>8. ClientTypeOK'
    BY <1>9, <2>6, <2>7 DEF MQTTRePublish, ClientTypeOK
  <2> QED  BY <1>9, <2>4, <2>5, <2>8 DEF MQTTRePublish, HistoryTypeOK, history
<1>10. CASE pubInfoProc_done(y)
  <2>1. ThreadTypeOK'
    BY <1>0, <1>10, YieldType DEF pubInfoProc_done
  <2> QED  BY <1>10, <2>1 DEF pubInfoProc_done, ClientTypeOK, NetworkTypeOK, HistoryTypeOK,
                              client, network, history
<1>11. CASE cycle_misread_fails(y)
  <2>1. ThreadTypeOK'
    BY <1>0, <1>11, YieldType DEF cycle_misread_fails
  <2>2. downlink' \in Seq(Packet) /\ faults' \in 0..MaxFaults
    BY <1>11, PartlyRead DEF cycle_misread_fails
  <2>3. NetworkTypeOK'
    BY <1>11, <2>2 DEF cycle_misread_fails, NetworkTypeOK
  <2>4. ClientTypeOK'
    BY <1>11 DEF cycle_misread_fails, ClientTypeOK, State
  <2> QED  BY <1>11, <2>1, <2>3, <2>4 DEF cycle_misread_fails, HistoryTypeOK, history
<1>12. CASE cycle_misread_packet(y)
  <2>1. ThreadTypeOK'
    BY <1>0, <1>12, YieldType DEF cycle_misread_packet
  <2>2. downlink' \in Seq(Packet) /\ faults' \in 0..MaxFaults
    BY <1>12, PartlyRead DEF cycle_misread_packet
  <2>3. NetworkTypeOK'
    BY <1>12, <2>2 DEF cycle_misread_packet, NetworkTypeOK
  <2>4. \A id : mask_pubInfo_from(id) \subseteq Node
    BY NodeType DEF mask_pubInfo_from, ClientTypeOK
  <2>5. list_pub_wait_ack' \subseteq Node /\ keepalive_probes' \in Nat
    BY <1>12, <2>4 DEF cycle_misread_packet, ClientTypeOK
  <2>6. ClientTypeOK'
    BY <1>12, <2>5 DEF cycle_misread_packet, ClientTypeOK
  <2>7. mistaken' \in BOOLEAN
    BY <1>12 DEF cycle_misread_packet
  <2> QED  BY <1>12, <2>1, <2>3, <2>6, <2>7 DEF cycle_misread_packet, HistoryTypeOK
<1> QED  BY <1>1, <1>2, <1>3, <1>4, <1>5, <1>6, <1>7, <1>8, <1>9, <1>10, <1>11, <1>12 DEF Cycle

\* The timers keep the types.
LEMMA TimerType ==
  ASSUME TypeOK, Timers
  PROVE  TypeOK'
<1> USE DEF TypeOK
<1>1. CASE ping_timer
  BY <1>1 DEF ping_timer, ClientTypeOK, ThreadTypeOK, NetworkTypeOK, HistoryTypeOK,
              threads, network, history
<1>2. CASE reconnect_timer
  BY <1>2 DEF reconnect_timer, ClientTypeOK, ThreadTypeOK, NetworkTypeOK, HistoryTypeOK,
              threads, network, history
<1>3. CASE pub_timer
  <2>1. list_pub_wait_ack' \subseteq Node
    BY <1>3, NodeType DEF pub_timer, ClientTypeOK
  <2> QED  BY <1>3, <2>1 DEF pub_timer, ClientTypeOK, ThreadTypeOK, NetworkTypeOK,
                             HistoryTypeOK, threads, network, history
<1> QED  BY <1>1, <1>2, <1>3 DEF Timers

\* The network and the broker keep the types: a packet with an id carries a
\* payload, so what the broker takes is one.
LEMMA NetworkType ==
  ASSUME TypeOK, WireOK, Network
  PROVE  TypeOK'
<1> USE DEF TypeOK
<1>1. CASE link_breaks
  <2>1. faults' \in 0..MaxFaults
    BY <1>1, FaultType DEF link_breaks, NetworkTypeOK
  <2>2. uplink' \in Seq(Packet)
    BY <1>1 DEF link_breaks
  <2>3. NetworkTypeOK'
    BY <1>1, <2>1, <2>2 DEF link_breaks, NetworkTypeOK
  <2> QED  BY <1>1, <2>3 DEF link_breaks, ClientTypeOK, ThreadTypeOK, HistoryTypeOK,
                             client, threads, history
<1>2. CASE broker_takes
  <2> DEFINE k == Head(uplink)
  <2>1. /\ k \in InFlight(uplink) /\ k \in Packet /\ Tail(uplink) \in Seq(Packet)
        /\ <<>> \in Seq(Packet)
    BY <1>2, InFlightFacts DEF broker_takes, NetworkTypeOK
  <2>2. \A j \in Packet : Append(downlink, j) \in Seq(Packet)
    BY DEF NetworkTypeOK
  <2>3. PubackPkt(k.id, k.msg) \in Packet
    BY <2>1, PacketTypes DEF Packet
  <2>4. downlink' \in Seq(Packet)
    <3>1. downlink \in Seq(Packet)
      BY DEF NetworkTypeOK
    <3> QED  BY <1>2, <2>2, <2>3, <3>1, PacketTypes DEF broker_takes, Answer
  <2>5. uplink' \in {Tail(uplink), <<>>}
    BY <1>2 DEF broker_takes
  <2>6. faults' \in 0..MaxFaults
    BY <1>2, FaultType DEF broker_takes, NetworkTypeOK
  <2>7. link' \in {"closed", "up", "dead"}
    BY <1>2 DEF broker_takes, NetworkTypeOK
  <2>8. session' \in BOOLEAN
    BY <1>2 DEF broker_takes, NetworkTypeOK
  <2>9. k.id # 0 => k.msg \in Msgs
    BY <2>1 DEF WireOK, HistoryTypeOK
  <2>10. received' \subseteq Msgs
    BY <1>2, <2>9 DEF broker_takes, NetworkTypeOK
  <2>11. uplink' \in Seq(Packet)
    BY <2>1, <2>5, Zenon
  <2>12. NetworkTypeOK'
    BY <2>4, <2>6, <2>7, <2>8, <2>10, <2>11 DEF NetworkTypeOK
  <2> QED  BY <1>2, <2>12 DEF broker_takes, ClientTypeOK, ThreadTypeOK, HistoryTypeOK,
                              client, threads, history
<1> QED  BY <1>1, <1>2 DEF Network

-----------------------------------------------------------------------------
(* No silent loss.  Two steps carry the argument: a packet id that is given *)
(* out is fresh unless `mistaken' is raised, and a PUBACK therefore masks   *)
(* only nodes whose payload the broker has.  Every other step leaves the    *)
(* pairs of id and payload (Carriers) alone or drops some.                  *)

\* A step that brings in no new pair of id and payload, and leaves every
\* accepted payload with the broker or in the wait list, keeps Sound.
LEMMA CarriersShrink ==
  ASSUME Sound, PubOK', mistaken => mistaken',
         accepted \subseteq accepted', received \subseteq received',
         \A k \in InFlight(uplink)' :
           k.id # 0 => k.msg \in accepted' /\ <<k.id, k.msg>> \in Carriers,
         \A k \in InFlight(downlink)' :
           /\ k.id # 0 => k.msg \in accepted' /\ <<k.id, k.msg>> \in Carriers
           /\ k.type = "PUBACK" => k.id # 0 /\ k.msg \in received',
         \A n \in list_pub_wait_ack' :
           n.msg \in accepted' /\ <<n.msg_id, n.msg>> \in Carriers,
         \A p \in Publishers : pub'[p].id # 0 => <<pub'[p].id, pub'[p].msg>> \in Carriers,
         ~mistaken' => accepted' \subseteq received' \cup Waiting'
  PROVE  Sound'
<1>1. WireOK'
  BY DEF WireOK
<1>2. ListOK'
  BY DEF ListOK
<1>3. Carriers' \subseteq Carriers
  BY DEF Carriers
<1>4. OneMsgPerId'
  BY <1>3 DEF Sound, OneMsgPerId
<1>5. NoSilentLoss'
  BY DEF NoSilentLoss
<1> QED  BY <1>1, <1>2, <1>4, <1>5 DEF Sound

\* A step that only drops packets, or sends packets without an id, keeps Sound.
LEMMA Quiet ==
  ASSUME Sound, UNCHANGED <<list_pub_wait_ack, pub, received, accepted, mistaken>>,
         \A k \in InFlight(uplink)' : k \in InFlight(uplink) \/ k.id = 0,
         \A k \in InFlight(downlink)' :
           k \in InFlight(downlink) \/ (k.id = 0 /\ k.type # "PUBACK")
  PROVE  Sound'
<1>1. PubOK'
  BY DEF Sound, PubOK
<1>2. \A k \in InFlight(uplink)' :
        k.id # 0 => k.msg \in accepted' /\ <<k.id, k.msg>> \in Carriers
  BY DEF Sound, WireOK, Carriers
<1>3. \A k \in InFlight(downlink)' :
        /\ k.id # 0 => k.msg \in accepted' /\ <<k.id, k.msg>> \in Carriers
        /\ k.type = "PUBACK" => k.id # 0 /\ k.msg \in received'
  BY DEF Sound, WireOK, Carriers
<1>4. \A n \in list_pub_wait_ack' :
        n.msg \in accepted' /\ <<n.msg_id, n.msg>> \in Carriers
  BY DEF Sound, ListOK, Carriers
<1>5. \A p \in Publishers : pub'[p].id # 0 => <<pub'[p].id, pub'[p].msg>> \in Carriers
  BY DEF Carriers
<1>6. ~mistaken => accepted' \subseteq received' \cup Waiting'
  BY DEF Sound, NoSilentLoss, Waiting
<1> QED  BY <1>1, <1>2, <1>3, <1>4, <1>5, <1>6, CarriersShrink

\* What a write leaves in flight.
LEMMA SendFlight ==
  ASSUME NetworkTypeOK, NEW k \in Packet, send_packet_ok(k) \/ send_packet_fails
  PROVE  InFlight(uplink)' \subseteq InFlight(uplink) \cup {k}
<1>1. InFlight(<<>>) = {} /\ InFlight(Append(uplink, k)) = InFlight(uplink) \cup {k}
  BY InFlightFacts DEF NetworkTypeOK
<1>2. uplink' = <<>> \/ uplink' = uplink \/ uplink' = Append(uplink, k)
  BY DEF send_packet_ok, send_packet_fails
<1>3. InFlight(uplink)' = InFlight(uplink')
  BY DEF InFlight
<1> QED  BY <1>1, <1>2, <1>3

\* Nothing is in flight on a new socket or on none.
LEMMA NothingInFlight ==
  ASSUME disconnect \/ reopen \/ (uplink' = <<>> /\ downlink' = <<>>)
  PROVE  InFlight(uplink)' = {} /\ InFlight(downlink)' = {}
BY DEF InFlight, disconnect, reopen

\* Taking the first packet puts nothing new in flight.
LEMMA TakeFlight ==
  ASSUME NEW s \in Seq(Packet), s # <<>>
  PROVE  Head(s) \in InFlight(s) /\ InFlight(Tail(s)) \subseteq InFlight(s)
BY InFlightFacts

\* A step that touches no packet, no node and no history keeps Sound.
LEMMA Still ==
  ASSUME Sound, UNCHANGED <<list_pub_wait_ack, pub, uplink, downlink, received, accepted, mistaken>>
  PROVE  Sound'
<1>1. InFlight(uplink)' = InFlight(uplink) /\ InFlight(downlink)' = InFlight(downlink)
  BY DEF InFlight
<1> QED  BY <1>1, Quiet

\* iotx_mc_keepalive keeps Sound: it writes PINGREQs and closes the socket.
LEMMA KeepaliveSound ==
  ASSUME TypeOK, Sound, NEW y \in Yielders, Keepalive(y)
  PROVE  Sound'
<1>1. CASE keepalive_sub_skip(y)
  BY <1>1, Still DEF keepalive_sub_skip, client, network, history
<1>2. CASE keepalive_sub_ping(y)
  <2>1. UNCHANGED <<list_pub_wait_ack, pub, downlink, received, accepted, mistaken>>
    BY <1>2 DEF keepalive_sub_ping, history
  <2>2. CASE send_packet_ok(Pkt("PINGREQ")) \/ send_packet_fails
    <3>1. InFlight(uplink)' \subseteq InFlight(uplink) \cup {Pkt("PINGREQ")}
      BY <2>2, PacketTypes, SendFlight DEF TypeOK
    <3>2. InFlight(downlink)' = InFlight(downlink)
      BY <2>1 DEF InFlight
    <3>3. Pkt("PINGREQ").id = 0
      BY DEF Pkt
    <3> QED  BY <2>1, <3>1, <3>2, <3>3, Quiet
  <2>3. CASE UNCHANGED uplink
    BY <2>1, <2>3, Still
  <2> QED  BY <1>2, <2>2, <2>3 DEF keepalive_sub_ping
<1>3. CASE keepalive_wait(y)
  BY <1>3, Still DEF keepalive_wait, client, network, history
<1>4. CASE keepalive_disconnected(y)
  BY <1>4, NothingInFlight, Quiet DEF keepalive_disconnected
<1>5. CASE handle_reconnect(y)
  BY <1>5, Still DEF handle_reconnect, client, network, history
<1> QED  BY <1>1, <1>2, <1>3, <1>4, <1>5 DEF Keepalive

\* Connecting keeps Sound: it writes CONNECTs and opens and closes the socket;
\* the wait list outlives it.
LEMMA ConnectSound ==
  ASSUME TypeOK, Sound, NEW y \in Yielders, Connect(y)
  PROVE  Sound'
<1>1. CASE mqtt_nwk_connect(y)
  BY <1>1, NothingInFlight, Quiet DEF mqtt_nwk_connect, client, history
<1>2. CASE MQTTConnect(y)
  <2>1. UNCHANGED <<list_pub_wait_ack, pub, received, accepted, mistaken>>
    BY <1>2 DEF MQTTConnect, client, history
  <2>2. CASE send_packet_ok(Pkt("CONNECT")) /\ UNCHANGED downlink
    <3>1. InFlight(uplink)' \subseteq InFlight(uplink) \cup {Pkt("CONNECT")}
      BY <2>2, PacketTypes, SendFlight DEF TypeOK
    <3>2. InFlight(downlink)' = InFlight(downlink)
      BY <2>2 DEF InFlight
    <3>3. Pkt("CONNECT").id = 0
      BY DEF Pkt
    <3> QED  BY <2>1, <3>1, <3>2, <3>3, Quiet
  <2>3. CASE disconnect
    BY <2>1, <2>3, NothingInFlight, Quiet
  <2> QED  BY <1>2, <2>2, <2>3 DEF MQTTConnect
<1>3. CASE wait_CONNACK_accepted(y)
  <2>1. InFlight(downlink)' \subseteq InFlight(downlink)
    <3>1. InFlight(downlink)' = InFlight(Tail(downlink))
      BY <1>3 DEF wait_CONNACK_accepted, InFlight
    <3> QED  BY <1>3, <3>1, TakeFlight DEF wait_CONNACK_accepted, TypeOK, NetworkTypeOK
  <2>2. InFlight(uplink)' = InFlight(uplink)
    BY <1>3 DEF wait_CONNACK_accepted, InFlight
  <2> QED  BY <1>3, <2>1, <2>2, Quiet DEF wait_CONNACK_accepted, history
<1>4. CASE wait_CONNACK_refused(y)
  BY <1>4, NothingInFlight, Quiet DEF wait_CONNACK_refused, client, history
<1>5. CASE wait_CONNACK_timeout(y)
  BY <1>5, NothingInFlight, Quiet DEF wait_CONNACK_timeout, client, history
<1>6. CASE reconnected(y)
  BY <1>6, Still DEF reconnected, network
<1>7. CASE reconnect_failed(y)
  BY <1>7, Still DEF reconnect_failed, network, history
<1>8. CASE constructed(y)
  BY <1>8, Still DEF constructed, client, network, history
<1>9. CASE construct_failed(y)
  BY <1>9, NothingInFlight, Quiet DEF construct_failed, client, history
<1> QED  BY <1>1, <1>2, <1>3, <1>4, <1>5, <1>6, <1>7, <1>8, <1>9 DEF Connect

\* A step on the wait list that invents no node, sends at most what a node
\* holds, and lets go only of payloads the broker has, keeps Sound.
LEMMA ListStep ==
  ASSUME Sound, UNCHANGED <<pub, received, accepted>>, mistaken => mistaken',
         \A n \in list_pub_wait_ack' :
           \E o \in list_pub_wait_ack : n.msg_id = o.msg_id /\ n.msg = o.msg,
         ~mistaken' => Waiting \subseteq Waiting' \cup received,
         \A k \in InFlight(uplink)' :
           \/ k \in InFlight(uplink)
           \/ \E o \in list_pub_wait_ack : k.id = o.msg_id /\ k.msg = o.msg,
         \A k \in InFlight(downlink)' :
           k \in InFlight(downlink) \/ (k.id = 0 /\ k.type # "PUBACK")
  PROVE  Sound'
<1>0. \A o \in list_pub_wait_ack : <<o.msg_id, o.msg>> \in Carriers /\ o.msg \in accepted
  BY DEF Sound, ListOK, Carriers
<1>1. PubOK'
  BY DEF Sound, PubOK
<1>2. \A k \in InFlight(uplink)' :
        k.id # 0 => k.msg \in accepted' /\ <<k.id, k.msg>> \in Carriers
  BY <1>0 DEF Sound, WireOK, Carriers
<1>3. \A k \in InFlight(downlink)' :
        /\ k.id # 0 => k.msg \in accepted' /\ <<k.id, k.msg>> \in Carriers
        /\ k.type = "PUBACK" => k.id # 0 /\ k.msg \in received'
  BY DEF Sound, WireOK, Carriers
<1>4. \A n \in list_pub_wait_ack' :
        n.msg \in accepted' /\ <<n.msg_id, n.msg>> \in Carriers
  BY <1>0
<1>5. \A p \in Publishers : pub'[p].id # 0 => <<pub'[p].id, pub'[p].msg>> \in Carriers
  BY DEF Carriers
<1>6. ~mistaken' => accepted' \subseteq received' \cup Waiting'
  BY DEF Sound, NoSilentLoss
<1> QED  BY <1>1, <1>2, <1>3, <1>4, <1>5, <1>6, CarriersShrink

\* A timer of a node, started or run out, changes neither what the node
\* stands for nor that it waits.
LEMMA TimerOfNode ==
  ASSUME ClientTypeOK, NEW n \in list_pub_wait_ack, NEW b \in BOOLEAN,
         list_pub_wait_ack' = (list_pub_wait_ack \ {n}) \cup {[n EXCEPT !.expired = b]}
  PROVE  /\ \A j \in list_pub_wait_ack' :
              \E o \in list_pub_wait_ack : j.msg_id = o.msg_id /\ j.msg = o.msg
         /\ Waiting \subseteq Waiting'
<1> DEFINE r == [n EXCEPT !.expired = b]
<1>1. r.msg_id = n.msg_id /\ r.msg = n.msg /\ r.node_state = n.node_state
  BY DEF ClientTypeOK, Node
<1>2. \A j \in list_pub_wait_ack' : j = r \/ j \in list_pub_wait_ack
  OBVIOUS
<1>3. \A j \in list_pub_wait_ack : j = n \/ j \in list_pub_wait_ack'
  OBVIOUS
<1>4. r \in list_pub_wait_ack'
  OBVIOUS
<1> HIDE DEF r
<1>5. \A j \in list_pub_wait_ack' :
        \E o \in list_pub_wait_ack : j.msg_id = o.msg_id /\ j.msg = o.msg
  BY <1>1, <1>2
<1>6. Waiting \subseteq Waiting'
  BY <1>1, <1>3, <1>4 DEF Waiting
<1> QED  BY <1>5, <1>6

\* A PUBACK masks nodes whose payload the broker has: until an id is mistaken,
\* the node and the PUBACK carry the same payload.
LEMMA AckSound ==
  ASSUME TypeOK, Sound, NEW y \in Yielders, cycle_packet(y)
  PROVE  Sound'
<1> DEFINE k == Head(downlink)
<1>1. k \in InFlight(downlink) /\ InFlight(Tail(downlink)) \subseteq InFlight(downlink)
  BY TakeFlight DEF cycle_packet, TypeOK, NetworkTypeOK
<1>2. InFlight(downlink)' = InFlight(Tail(downlink)) /\ InFlight(uplink)' = InFlight(uplink)
  BY DEF cycle_packet, InFlight
<1>3. UNCHANGED <<pub, received, accepted, mistaken>>
  BY DEF cycle_packet, history
<1>4. CASE k.type # "PUBACK"
  <2>1. UNCHANGED list_pub_wait_ack
    BY <1>4 DEF cycle_packet
  <2> QED  BY <1>1, <1>2, <1>3, <2>1, Quiet
<1>5. CASE k.type = "PUBACK"
  <2> DEFINE masked(n) == [n EXCEPT !.node_state = "INVALID"]
  <2>1. list_pub_wait_ack' = {IF n.msg_id = k.id THEN masked(n) ELSE n : n \in list_pub_wait_ack}
    BY <1>5 DEF cycle_packet, mask_pubInfo_from
  <2>2. \A n \in list_pub_wait_ack : masked(n).msg_id = n.msg_id /\ masked(n).msg = n.msg
    BY DEF TypeOK, ClientTypeOK, Node
  <2> HIDE DEF masked
  <2>3. \A n \in list_pub_wait_ack' :
          \E o \in list_pub_wait_ack : n.msg_id = o.msg_id /\ n.msg = o.msg
    BY <2>1, <2>2
  <2>4. k.id # 0 /\ k.msg \in received
    BY <1>1, <1>5 DEF Sound, WireOK
  <2>5. ASSUME ~mistaken, NEW n \in list_pub_wait_ack, n.msg_id = k.id
        PROVE  n.msg \in received
    <3>1. <<n.msg_id, n.msg>> \in Carriers /\ <<k.id, k.msg>> \in Carriers
      BY <1>1, <2>4 DEF Carriers
    <3>2. n.msg = k.msg
      BY <2>5, <3>1 DEF Sound, OneMsgPerId
    <3> QED  BY <2>4, <3>2
  <2>6. \A n \in list_pub_wait_ack : n.msg_id # k.id => n \in list_pub_wait_ack'
    BY <2>1
  <2>7. ~mistaken => Waiting \subseteq Waiting' \cup received
    BY <2>5, <2>6 DEF Waiting
  <2> QED  BY <1>1, <1>2, <1>3, <2>3, <2>7, ListStep
<1> QED  BY <1>4, <1>5

\* Masking changes no node's id and payload.
LEMMA Masked ==
  ASSUME ClientTypeOK, NEW id, list_pub_wait_ack' = mask_pubInfo_from(id)
  PROVE  /\ \A n \in list_pub_wait_ack' :
              \E o \in list_pub_wait_ack : n.msg_id = o.msg_id /\ n.msg = o.msg
         /\ Waiting' \subseteq Waiting
<1> DEFINE masked(n) == [n EXCEPT !.node_state = "INVALID"]
<1>1. list_pub_wait_ack' = {IF n.msg_id = id THEN masked(n) ELSE n : n \in list_pub_wait_ack}
  BY DEF mask_pubInfo_from
<1>2. \A n \in list_pub_wait_ack :
        masked(n).msg_id = n.msg_id /\ masked(n).msg = n.msg /\ masked(n).node_state = "INVALID"
  BY DEF ClientTypeOK, Node
<1> HIDE DEF masked
<1>3. \A n \in list_pub_wait_ack' :
        \E o \in list_pub_wait_ack : n.msg_id = o.msg_id /\ n.msg = o.msg
  BY <1>1, <1>2
<1>4. Waiting' \subseteq Waiting
  BY <1>1, <1>2 DEF Waiting
<1> QED  BY <1>3, <1>4

\* Bytes that are no packet mask any node, but then `mistaken' is raised.
LEMMA MisreadSound ==
  ASSUME TypeOK, Sound, NEW y \in Yielders, cycle_misread_packet(y)
  PROVE  Sound'
<1>1. \A k \in InFlight(downlink)' : k \in InFlight(downlink) \/ (k.id = 0 /\ k.type # "PUBACK")
  BY PartlyRead DEF cycle_misread_packet, TypeOK, Rest, Pkt
<1>2. InFlight(uplink)' = InFlight(uplink)
  BY DEF cycle_misread_packet, InFlight
<1>3. UNCHANGED <<pub, received, accepted>> /\ (mistaken => mistaken')
  BY DEF cycle_misread_packet
<1>4. \A n \in list_pub_wait_ack' :
        \E o \in list_pub_wait_ack : n.msg_id = o.msg_id /\ n.msg = o.msg
  BY Masked DEF cycle_misread_packet, TypeOK
<1>5. ~mistaken' => list_pub_wait_ack' = list_pub_wait_ack
  BY DEF cycle_misread_packet
<1>6. ~mistaken' => Waiting' = Waiting
  BY <1>5 DEF Waiting
<1> QED  BY <1>1, <1>2, <1>3, <1>4, <1>6, ListStep

\* The steps of _mqtt_cycle keep Sound: freed nodes were masked before.
LEMMA CycleSound ==
  ASSUME TypeOK, Sound, NEW y \in Yielders, Cycle(y)
  PROVE  Sound'
<1>1. CASE cycle_offline(y)
  BY <1>1, Still DEF cycle_offline, client, network, history
<1>2. CASE cycle_probes_exceeded(y)
  BY <1>2, Still DEF cycle_probes_exceeded, network, history
<1>3. CASE cycle_read_closed(y)
  BY <1>3, Still DEF cycle_read_closed, network, history
<1>4. CASE cycle_read_error(y)
  <2>1. \A k \in InFlight(downlink)' : k \in InFlight(downlink) \/ (k.id = 0 /\ k.type # "PUBACK")
    BY <1>4, PartlyRead DEF TypeOK, Rest, Pkt
  <2>2. InFlight(uplink)' = InFlight(uplink)
    BY <1>4 DEF cycle_read_error, InFlight
  <2> QED  BY <1>4, <2>1, <2>2, Quiet DEF cycle_read_error, client, history
<1>5. CASE cycle_no_data(y)
  BY <1>5, Still DEF cycle_no_data, client, network, history
<1>6. CASE cycle_packet(y)
  BY <1>6, AckSound
<1>7. CASE pubInfoProc_lock(y)
  BY <1>7, Still DEF pubInfoProc_lock, client, network, history
<1>8. CASE pubInfoProc_free(y)
  <2>1. PICK n \in list_pub_wait_ack :
          n.node_state = "INVALID" /\ list_pub_wait_ack' = list_pub_wait_ack \ {n}
    BY <1>8 DEF pubInfoProc_free, freed
  <2>2. UNCHANGED <<pub, received, accepted, mistaken, uplink, downlink>>
    BY <1>8 DEF pubInfoProc_free, threads, network, history
  <2>3. Waiting \subseteq Waiting'
    BY <2>1 DEF Waiting
  <2>4. InFlight(uplink)' = InFlight(uplink) /\ InFlight(downlink)' = InFlight(downlink)
    BY <2>2 DEF InFlight
  <2> QED  BY <2>1, <2>2, <2>3, <2>4, ListStep
<1>9. CASE MQTTRePublish(y)
  <2>1. PICK n \in list_pub_wait_ack :
          /\ list_pub_wait_ack' = restart(n)
          /\ send_packet_ok(PublishPkt(n.msg_id, n.msg)) \/ send_packet_fails
    BY <1>9 DEF MQTTRePublish
  <2>2. UNCHANGED <<pub, received, accepted, mistaken, downlink>>
    BY <1>9 DEF MQTTRePublish, history
  <2>3. /\ \A j \in list_pub_wait_ack' :
             \E o \in list_pub_wait_ack : j.msg_id = o.msg_id /\ j.msg = o.msg
        /\ Waiting \subseteq Waiting'
    BY <2>1, TimerOfNode DEF restart, TypeOK
  <2>4. PublishPkt(n.msg_id, n.msg) \in Packet
    <3>1. n.msg_id \in 0..PACKET_ID_MAX /\ n.msg \in Msgs
      BY LimitsAssumption DEF TypeOK, ClientTypeOK, Node
    <3> QED  BY <3>1, PacketTypes
  <2>5. InFlight(uplink)' \subseteq InFlight(uplink) \cup {PublishPkt(n.msg_id, n.msg)}
    BY <2>1, <2>4, SendFlight DEF TypeOK
  <2>6. InFlight(downlink)' = InFlight(downlink)
    BY <2>2 DEF InFlight
  <2>7. /\ PublishPkt(n.msg_id, n.msg).id = n.msg_id
        /\ PublishPkt(n.msg_id, n.msg).msg = n.msg
    BY DEF PublishPkt
  <2> QED  BY <2>2, <2>3, <2>5, <2>6, <2>7, ListStep
<1>10. CASE pubInfoProc_done(y)
  BY <1>10, Still DEF pubInfoProc_done, client, network, history
<1>11. CASE cycle_misread_fails(y)
  <2>1. \A k \in InFlight(downlink)' : k \in InFlight(downlink) \/ (k.id = 0 /\ k.type # "PUBACK")
    BY <1>11, PartlyRead DEF cycle_misread_fails, TypeOK, Rest, Pkt
  <2>2. InFlight(uplink)' = InFlight(uplink)
    BY <1>11 DEF cycle_misread_fails, InFlight
  <2> QED  BY <1>11, <2>1, <2>2, Quiet DEF cycle_misread_fails, history
<1>12. CASE cycle_misread_packet(y)
  BY <1>12, MisreadSound
<1> QED  BY <1>1, <1>2, <1>3, <1>4, <1>5, <1>6, <1>7, <1>8, <1>9, <1>10, <1>11, <1>12 DEF Cycle

\* The timers keep Sound.
LEMMA TimerSound ==
  ASSUME TypeOK, Sound, Timers
  PROVE  Sound'
<1>1. CASE ping_timer
  BY <1>1, Still DEF ping_timer, threads, network, history
<1>2. CASE reconnect_timer
  BY <1>2, Still DEF reconnect_timer, threads, network, history
<1>3. CASE pub_timer
  <2>1. UNCHANGED <<pub, received, accepted, mistaken, uplink, downlink>>
    BY <1>3 DEF pub_timer, threads, network, history
  <2>2. /\ \A j \in list_pub_wait_ack' :
             \E o \in list_pub_wait_ack : j.msg_id = o.msg_id /\ j.msg = o.msg
        /\ Waiting \subseteq Waiting'
    BY <1>3, TimerOfNode DEF pub_timer, TypeOK
  <2>3. InFlight(uplink)' = InFlight(uplink) /\ InFlight(downlink)' = InFlight(downlink)
    BY <2>1 DEF InFlight
  <2> QED  BY <2>1, <2>2, <2>3, ListStep
<1> QED  BY <1>1, <1>2, <1>3 DEF Timers

\* The network keeps Sound: the broker acknowledges what it has taken.
LEMMA NetworkSound ==
  ASSUME TypeOK, Sound, Network
  PROVE  Sound'
<1>1. CASE link_breaks
  <2>1. InFlight(uplink)' = {} /\ InFlight(downlink)' = InFlight(downlink)
    BY <1>1 DEF link_breaks, InFlight
  <2> QED  BY <1>1, <2>1, Quiet DEF link_breaks, client, threads, history
<1>2. CASE broker_takes
  <2> DEFINE k == Head(uplink)
             a == PubackPkt(k.id, k.msg)
  <2>1. k \in InFlight(uplink) /\ k \in Packet /\ InFlight(Tail(uplink)) \subseteq InFlight(uplink)
    BY <1>2, InFlightFacts DEF broker_takes, TypeOK, NetworkTypeOK
  <2>2. UNCHANGED <<list_pub_wait_ack, pub, accepted, mistaken>>
    BY <1>2 DEF broker_takes, client, threads, history
  <2>3. InFlight(uplink)' \subseteq InFlight(uplink)
    <3>1. uplink' \in {Tail(uplink), <<>>}
      BY <1>2 DEF broker_takes
    <3>2. InFlight(uplink)' = InFlight(uplink')
      BY DEF InFlight
    <3>3. InFlight(<<>>) = {}
      BY DEF InFlight
    <3> QED  BY <2>1, <3>1, <3>2, <3>3
  <2>4. \A j \in Packet : InFlight(Append(downlink, j)) = InFlight(downlink) \cup {j}
    BY InFlightFacts DEF TypeOK, NetworkTypeOK
  <2>5. InFlight(downlink)' = InFlight(downlink')
    BY DEF InFlight
  <2>6. CASE \/ UNCHANGED <<downlink, received>>
             \/ /\ UNCHANGED received
                /\ \E t \in {"CONNACK", "REFUSED", "PINGRESP"} : Answer(Pkt(t))
    <3>1. \A t \in {"CONNACK", "REFUSED", "PINGRESP"} : Pkt(t).id = 0 /\ Pkt(t).type # "PUBACK"
      BY DEF Pkt
    <3>2. \A j \in InFlight(downlink)' : j \in InFlight(downlink) \/ (j.id = 0 /\ j.type # "PUBACK")
      BY <2>4, <2>5, <2>6, <3>1, PacketTypes DEF Answer
    <3> QED  BY <2>2, <2>3, <2>6, <3>2, Quiet
  <2>7. CASE k.id # 0 /\ received' = received \cup {k.msg} /\ Answer(a)
    <3>1. a \in Packet /\ a.id = k.id /\ a.msg = k.msg
      BY <2>1, PacketTypes DEF Packet, PubackPkt
    <3>2. <<k.id, k.msg>> \in Carriers /\ k.msg \in accepted
      BY <2>1, <2>7 DEF Carriers, Sound, WireOK
    <3>3. InFlight(downlink)' = InFlight(downlink) \cup {a}
      BY <2>4, <2>5, <2>7, <3>1 DEF Answer
    <3> HIDE DEF a, k
    <3>4. \A j \in InFlight(downlink)' :
            /\ j.id # 0 => j.msg \in accepted' /\ <<j.id, j.msg>> \in Carriers
            /\ j.type = "PUBACK" => j.id # 0 /\ j.msg \in received'
      BY <2>2, <2>7, <3>1, <3>2, <3>3 DEF Sound, WireOK, Carriers
    <3>5. \A j \in InFlight(uplink)' :
            j.id # 0 => j.msg \in accepted' /\ <<j.id, j.msg>> \in Carriers
      BY <2>2, <2>3 DEF Sound, WireOK, Carriers
    <3>6. PubOK'
      BY <2>2 DEF Sound, PubOK
    <3>7. \A n \in list_pub_wait_ack' : n.msg \in accepted' /\ <<n.msg_id, n.msg>> \in Carriers
      BY <2>2 DEF Sound, ListOK, Carriers
    <3>8. \A p \in Publishers : pub'[p].id # 0 => <<pub'[p].id, pub'[p].msg>> \in Carriers
      BY <2>2 DEF Carriers
    <3>9. ~mistaken => accepted' \subseteq received' \cup Waiting'
      BY <2>2, <2>7 DEF Sound, NoSilentLoss, Waiting
    <3>10. accepted \subseteq accepted' /\ received \subseteq received' /\ (mistaken => mistaken')
      BY <2>2, <2>7
    <3> QED  BY <3>4, <3>5, <3>6, <3>7, <3>8, <3>9, <3>10, CarriersShrink
  <2> QED  BY <1>2, <2>6, <2>7 DEF broker_takes
<1> QED  BY <1>1, <1>2 DEF Network

\* The record a publisher takes on is consistent, so PubOK is kept.
LEMMA PubStep ==
  ASSUME Sound, ThreadTypeOK, NEW p \in Publishers, NEW r, pub' = [pub EXCEPT ![p] = r],
         r.pc = "checked" => r.qos # 0,
         r.qos = 1 => r.msg \in Msgs,
         r.qos # 1 => r.msg = None /\ r.id = 0,
         r.pc = "numbered" /\ r.qos = 1 => r.id # 0
  PROVE  PubOK'
<1>1. \A q \in Publishers : pub'[q] = IF q = p THEN r ELSE pub[q]
  BY DEF ThreadTypeOK
<1> QED  BY <1>1 DEF Sound, PubOK

\* A publisher that takes no id and sends nothing keeps Sound.
LEMMA PubQuiet ==
  ASSUME Sound, ThreadTypeOK, NEW p \in Publishers, NEW r, pub' = [pub EXCEPT ![p] = r],
         PubOK', r.id = 0, UNCHANGED <<list_pub_wait_ack, downlink, received, accepted>>,
         mistaken => mistaken', InFlight(uplink)' \subseteq InFlight(uplink)
  PROVE  Sound'
<1>1. \A q \in Publishers : pub'[q].id # 0 => <<pub'[q].id, pub'[q].msg>> \in Carriers
  <2>1. \A q \in Publishers : pub'[q] = IF q = p THEN r ELSE pub[q]
    BY DEF ThreadTypeOK
  <2> QED  BY <2>1 DEF Carriers
<1>2. \A k \in InFlight(uplink)' :
        k.id # 0 => k.msg \in accepted' /\ <<k.id, k.msg>> \in Carriers
  BY DEF Sound, WireOK, Carriers
<1>3. \A k \in InFlight(downlink)' :
        /\ k.id # 0 => k.msg \in accepted' /\ <<k.id, k.msg>> \in Carriers
        /\ k.type = "PUBACK" => k.id # 0 /\ k.msg \in received'
  <2>1. InFlight(downlink)' = InFlight(downlink)
    BY DEF InFlight
  <2> QED  BY <2>1 DEF Sound, WireOK, Carriers
<1>4. \A n \in list_pub_wait_ack' : n.msg \in accepted' /\ <<n.msg_id, n.msg>> \in Carriers
  BY DEF Sound, ListOK, Carriers
<1>5. ~mistaken => accepted' \subseteq received' \cup Waiting'
  BY DEF Sound, NoSilentLoss, Waiting
<1> QED  BY <1>1, <1>2, <1>3, <1>4, <1>5, CarriersShrink

\* A publisher that returns keeps PubOK.
LEMMA PubReturns ==
  ASSUME Sound, ThreadTypeOK, NEW p \in Publishers, NEW r \in {Idle, [Idle EXCEPT !.pc = "lost"]},
         pub' = [pub EXCEPT ![p] = r]
  PROVE  PubOK' /\ r.id = 0
<1>1. r.pc \in {"idle", "lost"} /\ r.qos = 0 /\ r.id = 0 /\ r.msg = None
  BY DEF Idle
<1>2. /\ r.pc = "checked" => r.qos # 0
      /\ r.qos = 1 => r.msg \in Msgs
      /\ r.qos # 1 => r.msg = None /\ r.id = 0
      /\ r.pc = "numbered" /\ r.qos = 1 => r.id # 0
  BY <1>1
<1> QED  BY <1>1, <1>2, PubStep

\* An id that is handed out is carried by nobody, or `mistaken' is raised.
LEMMA NextIdSound ==
  ASSUME TypeOK, Sound, NEW p \in Publishers, get_next_packetid(p)
  PROVE  Sound'
<1>1. /\ UNCHANGED <<list_pub_wait_ack, downlink, uplink, received, accepted>>
      /\ mistaken => mistaken'
  BY DEF get_next_packetid, network
<1>2. InFlight(uplink)' = InFlight(uplink) /\ InFlight(downlink)' = InFlight(downlink)
  BY <1>1 DEF InFlight
<1>3. CASE pub[p].qos = 2
  <2>1. pub' = [pub EXCEPT ![p] = Idle]
    BY <1>3 DEF get_next_packetid
  <2> QED  BY <1>1, <1>2, <2>1, PubReturns, PubQuiet DEF TypeOK
<1>4. CASE pub[p].qos # 2
  <2> DEFINE id == next_packetid
             r  == [pub[p] EXCEPT !.pc = "numbered", !.id = id]
  <2>1. id \in 1..PACKET_ID_MAX
    BY NextIdType DEF TypeOK, ClientTypeOK
  <2>2. pub[p].qos = 1
    BY <1>4, PayloadAssumption DEF TypeOK, ThreadTypeOK, Sound, PubOK, get_next_packetid
  <2>3. /\ r.pc = "numbered" /\ r.qos = 1 /\ r.id = id /\ r.id # 0
        /\ r.msg = pub[p].msg /\ r.msg \in Msgs
    <3>1. r.pc = "numbered" /\ r.id = id /\ r.qos = pub[p].qos /\ r.msg = pub[p].msg
      BY DEF TypeOK, ThreadTypeOK
    <3>2. id # 0
      BY <2>1
    <3>3. pub[p].msg \in Msgs
      BY <2>2 DEF Sound, PubOK
    <3> QED  BY <2>2, <3>1, <3>2, <3>3
  <2>4. pub' = [pub EXCEPT ![p] = r]
    BY <1>4 DEF get_next_packetid
  <2>5. mistaken' = (mistaken \/ id \in IdsInUse)
    BY DEF get_next_packetid
  <2> HIDE DEF r, id
  <2>6. PubOK'
    BY <2>3, <2>4, PubStep DEF TypeOK
  <2>7. \A q \in Publishers : pub'[q] = IF q = p THEN r ELSE pub[q]
    BY <2>4 DEF TypeOK, ThreadTypeOK
  <2>8. Carriers' \subseteq Carriers \cup {<<id, pub[p].msg>>}
    BY <1>1, <1>2, <2>3, <2>7 DEF Carriers
  <2>9. \A c \in Carriers : c[1] \in IdsInUse
    BY DEF Carriers, IdsInUse
  <2>10. OneMsgPerId'
    <3>1. SUFFICES ASSUME ~mistaken', NEW c \in Carriers', NEW d \in Carriers', c[1] = d[1]
                   PROVE  c[2] = d[2]
      BY DEF OneMsgPerId
    <3>2. ~mistaken /\ id \notin IdsInUse
      BY <2>5, <3>1
    <3>3. \A b \in Carriers : b[1] # id
      BY <2>9, <3>2
    <3>4. (c \in Carriers \/ c = <<id, pub[p].msg>>) /\ (d \in Carriers \/ d = <<id, pub[p].msg>>)
      BY <2>8
    <3>5. c \in Carriers /\ d \in Carriers => c[2] = d[2]
      BY <3>1, <3>2 DEF Sound, OneMsgPerId
    <3> QED  BY <3>1, <3>3, <3>4, <3>5
  <2>11. WireOK' /\ ListOK'
    BY <1>1, <1>2 DEF Sound, WireOK, ListOK
  <2>12. NoSilentLoss'
    BY <1>1 DEF Sound, NoSilentLoss, Waiting
  <2> QED  BY <2>6, <2>10, <2>11, <2>12 DEF Sound
<1> QED  BY <1>3, <1>4

\* A payload that is accepted is in the wait list from then on.
LEMMA SentSound ==
  ASSUME TypeOK, Sound, NEW p \in Publishers, MQTTPublish_sent(p)
  PROVE  Sound'
<1> DEFINE k == PublishPkt(pub[p].id, pub[p].msg)
<1>1. k \in Packet /\ k.id = pub[p].id /\ k.msg = pub[p].msg
  BY PacketTypes DEF PublishPkt, TypeOK, ThreadTypeOK
<1>2. InFlight(uplink)' \subseteq InFlight(uplink) \cup {k}
  BY <1>1, SendFlight DEF MQTTPublish_sent, TypeOK
<1> HIDE DEF k
<1>3. PubOK'
  BY PubReturns DEF MQTTPublish_sent, TypeOK
<1>4. /\ UNCHANGED <<downlink, received, mistaken>>
      /\ InFlight(downlink)' = InFlight(downlink)
  BY DEF MQTTPublish_sent, InFlight
<1>5. \A q \in Publishers : pub'[q] = IF q = p THEN Idle ELSE pub[q]
  BY DEF MQTTPublish_sent, TypeOK, ThreadTypeOK
<1>6. accepted' = accepted \cup ({pub[p].msg} \ {None})
  BY DEF MQTTPublish_sent
<1>7. pub[p].id # 0 => pub[p].qos = 1 /\ <<pub[p].id, pub[p].msg>> \in Carriers
  BY DEF Carriers, Sound, PubOK
<1>8. pub[p].qos = 1 => pub[p].id # 0 /\ pub[p].msg \in accepted'
  BY <1>6, PayloadAssumption DEF Sound, PubOK, MQTTPublish_sent
<1>9. \A j \in InFlight(uplink)' :
        j.id # 0 => j.msg \in accepted' /\ <<j.id, j.msg>> \in Carriers
  BY <1>1, <1>2, <1>6, <1>7, <1>8 DEF Sound, WireOK, Carriers
<1>10. \A j \in InFlight(downlink)' :
         /\ j.id # 0 => j.msg \in accepted' /\ <<j.id, j.msg>> \in Carriers
         /\ j.type = "PUBACK" => j.id # 0 /\ j.msg \in received'
  BY <1>4, <1>6 DEF Sound, WireOK, Carriers
<1>11. \A q \in Publishers : pub'[q].id # 0 => <<pub'[q].id, pub'[q].msg>> \in Carriers
  BY <1>5 DEF Idle, Carriers
<1> DEFINE n == [msg_id |-> pub[p].id, msg |-> pub[p].msg, node_state |-> "NORMANL", expired |-> FALSE]
<1>12. /\ pub[p].qos = 1 => list_pub_wait_ack' = list_pub_wait_ack \cup {n}
       /\ pub[p].qos # 1 => list_pub_wait_ack' = list_pub_wait_ack
  BY DEF MQTTPublish_sent, push_pubInfo_to
<1>13. n.msg_id = pub[p].id /\ n.msg = pub[p].msg /\ n.node_state = "NORMANL"
  OBVIOUS
<1> HIDE DEF n
<1>14. \A j \in list_pub_wait_ack' : j.msg \in accepted' /\ <<j.msg_id, j.msg>> \in Carriers
  BY <1>6, <1>7, <1>8, <1>12, <1>13 DEF Sound, ListOK, Carriers
<1>15. ~mistaken => accepted' \subseteq received' \cup Waiting'
  <2>1. CASE pub[p].qos = 1
    <3>1. Waiting' = Waiting \cup {pub[p].msg}
      BY <1>12, <1>13, <2>1 DEF Waiting
    <3> QED  BY <1>4, <1>6, <3>1 DEF Sound, NoSilentLoss
  <2>2. CASE pub[p].qos # 1
    <3>1. accepted' = accepted
      BY <1>6, <2>2 DEF Sound, PubOK
    <3>2. Waiting' = Waiting
      BY <1>12, <2>2 DEF Waiting
    <3> QED  BY <1>4, <3>1, <3>2 DEF Sound, NoSilentLoss
  <2> QED  BY <2>1, <2>2
<1>16. accepted \subseteq accepted' /\ received \subseteq received' /\ (mistaken => mistaken')
  BY <1>4, <1>6
<1> QED  BY <1>3, <1>9, <1>10, <1>11, <1>14, <1>15, <1>16, CarriersShrink

\* The steps of wrapper_mqtt_publish keep Sound.
LEMMA PublishSound ==
  ASSUME TypeOK, Sound, NEW p \in Publishers, Publish(p)
  PROVE  Sound'
<1>1. CASE \E qos \in Qos, m \in Msgs \cup {None} : wrapper_mqtt_publish(p, qos, m)
  <2>1. PICK qos \in Qos, m \in Msgs \cup {None} : wrapper_mqtt_publish(p, qos, m)
    BY <1>1
  <2> DEFINE r == [pc |-> IF qos = 0 THEN "numbered" ELSE "checked", qos |-> qos, id |-> 0, msg |-> m]
  <2>2. pub' = [pub EXCEPT ![p] = r]
    BY <2>1 DEF wrapper_mqtt_publish
  <2>3. /\ qos = 1 => m \in Msgs
        /\ qos # 1 => m = None
    BY <2>1 DEF wrapper_mqtt_publish
  <2>4. r.qos = qos /\ r.id = 0 /\ r.msg = m /\ (r.pc = "checked" => qos # 0)
        /\ (r.pc = "numbered" => qos = 0)
    OBVIOUS
  <2> HIDE DEF r
  <2>5. PubOK'
    <3>1. /\ r.pc = "checked" => r.qos # 0
          /\ r.qos = 1 => r.msg \in Msgs
          /\ r.qos # 1 => r.msg = None /\ r.id = 0
          /\ r.pc = "numbered" /\ r.qos = 1 => r.id # 0
      BY <2>3, <2>4
    <3> QED  BY <2>2, <3>1, PubStep DEF TypeOK
  <2>6. /\ UNCHANGED <<list_pub_wait_ack, downlink, received, accepted, mistaken>>
        /\ InFlight(uplink)' = InFlight(uplink)
    BY <2>1 DEF wrapper_mqtt_publish, client, network, history, InFlight
  <2> QED  BY <2>2, <2>4, <2>5, <2>6, PubQuiet DEF TypeOK
<1>2. CASE get_next_packetid(p)
  BY <1>2, NextIdSound
<1>3. CASE MQTTPublish_refused(p)
  <2>1. /\ UNCHANGED <<list_pub_wait_ack, downlink, received, accepted, mistaken>>
        /\ InFlight(uplink)' = InFlight(uplink) /\ pub' = [pub EXCEPT ![p] = Idle]
    BY <1>3 DEF MQTTPublish_refused, client, history, InFlight
  <2> QED  BY <2>1, PubReturns, PubQuiet DEF TypeOK
<1>4. CASE MQTTPublish_sent(p)
  BY <1>4, SentSound
<1>5. CASE MQTTPublish_fails(p)
  <2>1. /\ UNCHANGED <<list_pub_wait_ack, downlink, received, accepted, mistaken>>
        /\ pub' = [pub EXCEPT ![p] = [Idle EXCEPT !.pc = "lost"]]
    BY <1>5 DEF MQTTPublish_fails, client, history
  <2>2. InFlight(uplink)' \subseteq InFlight(uplink)
    BY <1>5 DEF MQTTPublish_fails, send_packet_fails, InFlight
  <2> QED  BY <2>1, <2>2, PubReturns, PubQuiet DEF TypeOK
<1>6. CASE publish_set_disconnected(p)
  <2>1. /\ UNCHANGED <<list_pub_wait_ack, downlink, received, accepted, mistaken>>
        /\ InFlight(uplink)' = InFlight(uplink) /\ pub' = [pub EXCEPT ![p] = Idle]
    BY <1>6 DEF publish_set_disconnected, network, history, InFlight
  <2> QED  BY <2>1, PubReturns, PubQuiet DEF TypeOK
<1> QED  BY <1>1, <1>2, <1>3, <1>4, <1>5, <1>6 DEF Publish

-----------------------------------------------------------------------------
(* The theorems *)

\* The client as wrapper_mqtt_init leaves it satisfies the inductive invariant.
LEMMA InitOK == Init => TypeOK /\ Sound
<1> SUFFICES ASSUME Init PROVE TypeOK /\ Sound
  OBVIOUS
<1>1. ClientTypeOK
  <2>1. packet_id \in 0..PACKET_ID_MAX /\ reconnect_time_interval_ms \in Nat
    BY LimitsAssumption DEF Init
  <2>2. ping_due \in BOOLEAN /\ reconnect_due \in BOOLEAN
    BY DEF Init
  <2>3. client_state \in State /\ list_pub_wait_ack \subseteq Node /\ keepalive_probes \in Nat
    BY DEF Init, State
  <2> QED  BY <2>1, <2>2, <2>3 DEF ClientTypeOK
<1>2. ThreadTypeOK
  <2>1. Idle \in [pc : PubPc, qos : Qos \cup {0}, id : 0..PACKET_ID_MAX, msg : Msgs \cup {None}]
    BY IdleType DEF PubRec
  <2>2. pub \in [Publishers -> [pc : PubPc, qos : Qos \cup {0},
                                id : 0..PACKET_ID_MAX, msg : Msgs \cup {None}]]
    BY <2>1 DEF Init
  <2>3. ypc \in [Yielders -> YieldPc] /\ lock_yield \in Yielders \cup {None}
    BY DEF Init, YieldPc
  <2>4. try_count \in 1..CONN_TRIES
    BY LimitsAssumption DEF Init
  <2>5. boot \in BOOLEAN
    BY DEF Init
  <2> QED  BY <2>2, <2>3, <2>4, <2>5 DEF ThreadTypeOK
<1>3. NetworkTypeOK
  <2>1. uplink \in Seq(Packet) /\ downlink \in Seq(Packet)
    BY DEF Init
  <2>2. session \in BOOLEAN
    BY DEF Init
  <2>3. faults \in 0..MaxFaults
    BY LimitsAssumption DEF Init
  <2> QED  BY <2>1, <2>2, <2>3 DEF Init, NetworkTypeOK
<1>4. HistoryTypeOK
  BY DEF Init, HistoryTypeOK
<1>5. InFlight(uplink) = {} /\ InFlight(downlink) = {}
  BY DEF Init, InFlight
<1>6. \A p \in Publishers : pub[p].pc = "idle" /\ pub[p].qos = 0 /\ pub[p].id = 0 /\ pub[p].msg = None
  BY DEF Init, Idle
<1>7. PubOK
  BY <1>6 DEF PubOK
<1>8. WireOK /\ ListOK
  BY <1>5 DEF Init, WireOK, ListOK
<1>9. Carriers = {}
  BY <1>5, <1>6 DEF Init, Carriers
<1>10. OneMsgPerId /\ NoSilentLoss
  BY <1>9 DEF Init, OneMsgPerId, NoSilentLoss
<1> QED  BY <1>1, <1>2, <1>3, <1>4, <1>7, <1>8, <1>10 DEF TypeOK, Sound

\* Every step of any thread, of the clock or of the network keeps it.
LEMMA NextOK == TypeOK /\ Sound /\ [Next]_vars => TypeOK' /\ Sound'
<1> SUFFICES ASSUME TypeOK, Sound, [Next]_vars PROVE TypeOK' /\ Sound'
  OBVIOUS
<1>0. PubOK /\ WireOK
  BY DEF Sound
<1>1. CASE \E p \in Publishers : Publish(p)
  BY <1>0, <1>1, PublishType, PublishSound
<1>2. CASE \E y \in Yielders : Yield(y)
  <2>1. PICK y \in Yielders : Keepalive(y) \/ Connect(y) \/ Cycle(y)
    BY <1>2 DEF Yield
  <2> QED  BY <2>1, KeepaliveType, KeepaliveSound, ConnectType, ConnectSound, CycleType, CycleSound
<1>3. CASE Timers
  BY <1>3, TimerType, TimerSound
<1>4. CASE Network
  BY <1>0, <1>4, NetworkType, NetworkSound
<1>5. CASE UNCHANGED vars
  <2>1. TypeOK'
    BY <1>5 DEF TypeOK, ClientTypeOK, ThreadTypeOK, NetworkTypeOK, HistoryTypeOK,
                vars, client, threads, network, history
  <2>2. Sound'
    BY <1>5, Still DEF vars, client, threads, network, history
  <2> QED  BY <2>1, <2>2
<1> QED  BY <1>1, <1>2, <1>3, <1>4, <1>5 DEF Next

\* A payload in a publisher's hands stays fresh: only a new call brings one
\* in, and accepting it takes it out of the publisher's hands.
LEMMA FreshStep == TypeOK /\ PubFresh /\ [Next]_vars => PubFresh'
<1> SUFFICES ASSUME TypeOK, PubFresh, [Next]_vars PROVE PubFresh'
  OBVIOUS
<1>1. CASE UNCHANGED <<pub, accepted>>
  BY <1>1 DEF PubFresh
<1>2. ASSUME NEW p \in Publishers, Publish(p) PROVE PubFresh'
  <2>1. CASE \E qos \in Qos, m \in Msgs \cup {None} : wrapper_mqtt_publish(p, qos, m)
    <3>1. PICK qos \in Qos, m \in Msgs \cup {None} : wrapper_mqtt_publish(p, qos, m)
      BY <2>1
    <3>2. accepted' = accepted /\ (m \in Msgs => m \notin accepted /\ \A q \in Publishers : pub[q].msg # m)
      BY <3>1, PayloadAssumption DEF wrapper_mqtt_publish, history
    <3>3. \A q \in Publishers : pub'[q].msg = IF q = p THEN m ELSE pub[q].msg
      BY <3>1 DEF wrapper_mqtt_publish, TypeOK, ThreadTypeOK
    <3> QED  BY <3>2, <3>3 DEF PubFresh
  <2>2. CASE get_next_packetid(p)
    <3>1. accepted' = accepted
      BY <2>2 DEF get_next_packetid
    <3>2. \A q \in Publishers : pub'[q].msg = pub[q].msg \/ (q = p /\ pub'[q].msg = None)
      BY <2>2 DEF get_next_packetid, TypeOK, ThreadTypeOK, Idle
    <3> QED  BY <3>1, <3>2, PayloadAssumption DEF PubFresh
  <2>3. CASE MQTTPublish_refused(p) \/ MQTTPublish_fails(p) \/ publish_set_disconnected(p)
    <3>1. accepted' = accepted
      BY <2>3 DEF MQTTPublish_refused, MQTTPublish_fails, publish_set_disconnected, history
    <3>2. \A q \in Publishers : pub'[q].msg = IF q = p THEN None ELSE pub[q].msg
      BY <2>3 DEF MQTTPublish_refused, MQTTPublish_fails, publish_set_disconnected,
                  TypeOK, ThreadTypeOK, Idle
    <3> QED  BY <3>1, <3>2, PayloadAssumption DEF PubFresh
  <2>4. CASE MQTTPublish_sent(p)
    <3>1. accepted' = accepted \cup ({pub[p].msg} \ {None})
      BY <2>4 DEF MQTTPublish_sent
    <3>2. \A q \in Publishers : pub'[q].msg = IF q = p THEN None ELSE pub[q].msg
      BY <2>4 DEF MQTTPublish_sent, TypeOK, ThreadTypeOK, Idle
    <3> QED  BY <3>1, <3>2, PayloadAssumption DEF PubFresh
  <2> QED  BY <1>2, <2>1, <2>2, <2>3, <2>4 DEF Publish
<1>3. ASSUME NEW y \in Yielders, Yield(y) PROVE UNCHANGED <<pub, accepted>>
  <2>1. CASE Keepalive(y)
    BY <2>1 DEF Keepalive, keepalive_sub_skip, keepalive_sub_ping, keepalive_wait,
                keepalive_disconnected, handle_reconnect, history
  <2>2. CASE Connect(y)
    BY <2>2 DEF Connect, mqtt_nwk_connect, MQTTConnect, wait_CONNACK_accepted,
                wait_CONNACK_refused, wait_CONNACK_timeout, reconnected, reconnect_failed,
                constructed, construct_failed, history
  <2>3. CASE Cycle(y)
    BY <2>3 DEF Cycle, cycle_offline, cycle_probes_exceeded, cycle_read_closed,
                cycle_read_error, cycle_no_data, cycle_packet, cycle_misread_fails,
                cycle_misread_packet, pubInfoProc_lock, pubInfoProc_free, MQTTRePublish,
                pubInfoProc_done, threads, history
  <2> QED  BY <1>3, <2>1, <2>2, <2>3 DEF Yield
<1>4. CASE Timers \/ Network \/ UNCHANGED vars
  BY <1>1, <1>4 DEF Timers, ping_timer, reconnect_timer, pub_timer, Network, link_breaks,
                    broker_takes, threads, history, vars
<1> QED  BY <1>1, <1>2, <1>3, <1>4 DEF Next

\* The inductive invariant holds in every reachable state.
THEOREM Invariance == Spec => []IInv
<1>1. Init => IInv
  <2>1. Init => PubFresh
    BY PayloadAssumption DEF Init, PubFresh, Idle
  <2> QED  BY <2>1, InitOK DEF IInv
<1>2. IInv /\ [Next]_vars => IInv'
  BY NextOK, FreshStep DEF IInv
<1> QED  BY <1>1, <1>2, PTL DEF Spec

\* TypeOK, for any number of threads and payloads and any limits: in
\* particular the packet-id counter of iotx_mc_get_next_packetid stays in
\* 0..IOTX_MC_PACKET_ID_MAX and the broker is only ever given payloads the
\* application published.
THEOREM TypeCorrect == Spec => []TypeOK
<1>1. IInv => TypeOK
  BY DEF IInv
<1> QED  BY <1>1, Invariance, PTL

\* NoSilentLoss, for any number of threads and payloads and any limits: a
\* QoS1 publish that returned a packet id reaches the broker or is still in
\* list_pub_wait_ack, until an id in use is handed out again or bytes that are
\* no packet pass for a PUBACK.
THEOREM NeverLost == Spec => []NoSilentLoss
<1>1. IInv => NoSilentLoss
  BY DEF IInv, Sound
<1> QED  BY <1>1, Invariance, PTL

-----------------------------------------------------------------------------
(* The refinement *)

\* What is in the wait list was accepted.
LEMMA WaitingAccepted == Sound => Waiting \subseteq accepted
BY DEF Sound, ListOK, Waiting

\* A step that touches neither the history nor what waits is a stutter of the
\* abstract specification.
LEMMA Stutter ==
  ASSUME UNCHANGED <<accepted, received, mistaken>>, Waiting' = Waiting
  PROVE  UNCHANGED ALO!vars
BY DEF ALO!vars

\* A step that only lets go of payloads the broker has is a Release, and so
\* is one that lets go of others but ends the promise.
LEMMA Released ==
  ASSUME TypeOK, Sound, UNCHANGED <<accepted, received>>, mistaken' \in {mistaken, TRUE},
         Waiting' \subseteq Waiting,
         ~mistaken' => Waiting \subseteq Waiting' \cup received
  PROVE  ALO!Next
<1> DEFINE S == Waiting \ Waiting'
<1>1. S \subseteq accepted /\ S \in SUBSET Msgs
  BY WaitingAccepted DEF TypeOK, HistoryTypeOK
<1>2. mistaken' \/ S \subseteq received
  OBVIOUS
<1>3. accepted' \ Waiting' = (accepted \ Waiting) \cup S
  BY WaitingAccepted
<1> HIDE DEF S
<1>4. ALO!Release(S)
  BY <1>1, <1>2, <1>3 DEF ALO!Release
<1> QED  BY <1>1, <1>4 DEF ALO!Next

\* A timer of a node changes nothing that waits.
LEMMA TimerWaits ==
  ASSUME ClientTypeOK, NEW n \in list_pub_wait_ack, NEW b \in BOOLEAN,
         list_pub_wait_ack' = (list_pub_wait_ack \ {n}) \cup {[n EXCEPT !.expired = b]}
  PROVE  Waiting' = Waiting
<1> DEFINE r == [n EXCEPT !.expired = b]
<1>1. r.msg = n.msg /\ r.node_state = n.node_state
  BY DEF ClientTypeOK, Node
<1>2. \A j : j \in list_pub_wait_ack' <=> j = r \/ (j \in list_pub_wait_ack /\ j # n)
  OBVIOUS
<1> HIDE DEF r
<1> QED  BY <1>1, <1>2 DEF Waiting

\* A publisher accepts a payload, uses up the packet ids, or does nothing the
\* abstract specification sees.
LEMMA PublishRefines ==
  ASSUME IInv, NEW p \in Publishers, Publish(p)
  PROVE  ALO!Next \/ UNCHANGED ALO!vars
<1>1. CASE \/ \E qos \in Qos, m \in Msgs \cup {None} : wrapper_mqtt_publish(p, qos, m)
           \/ MQTTPublish_refused(p) \/ MQTTPublish_fails(p) \/ publish_set_disconnected(p)
  <2>1. UNCHANGED <<list_pub_wait_ack, accepted, received, mistaken>>
    BY <1>1 DEF wrapper_mqtt_publish, MQTTPublish_refused, MQTTPublish_fails,
                publish_set_disconnected, client, network, history
  <2>2. Waiting' = Waiting
    BY <2>1 DEF Waiting
  <2> QED  BY <2>1, <2>2, Stutter
<1>2. CASE get_next_packetid(p)
  <2>1. UNCHANGED <<list_pub_wait_ack, accepted, received>>
    BY <1>2 DEF get_next_packetid, network
  <2>2. Waiting' = Waiting
    BY <2>1 DEF Waiting
  <2>3. mistaken' = mistaken \/ mistaken' = TRUE
    BY <1>2 DEF get_next_packetid, IInv, TypeOK, HistoryTypeOK
  <2>4. mistaken' = TRUE => ALO!Exhaust
    BY <2>1, <2>2 DEF ALO!Exhaust
  <2> QED  BY <2>1, <2>2, <2>3, <2>4, Stutter DEF ALO!Next
<1>3. CASE MQTTPublish_sent(p)
  <2>1. UNCHANGED <<received, mistaken>> /\ accepted' = accepted \cup ({pub[p].msg} \ {None})
    BY <1>3 DEF MQTTPublish_sent
  <2>2. CASE pub[p].qos # 1
    <3>1. pub[p].msg = None /\ list_pub_wait_ack' = list_pub_wait_ack
      BY <1>3, <2>2 DEF MQTTPublish_sent, push_pubInfo_to, IInv, Sound, PubOK
    <3>2. accepted' = accepted /\ Waiting' = Waiting
      BY <2>1, <3>1 DEF Waiting
    <3> QED  BY <2>1, <3>2, Stutter
  <2>3. CASE pub[p].qos = 1
    <3> DEFINE n == [msg_id |-> pub[p].id, msg |-> pub[p].msg, node_state |-> "NORMANL",
                     expired |-> FALSE]
    <3>1. pub[p].msg \in Msgs /\ pub[p].msg \notin accepted
      BY <2>3 DEF IInv, Sound, PubOK, PubFresh
    <3>2. list_pub_wait_ack' = list_pub_wait_ack \cup {n}
      BY <1>3, <2>3 DEF MQTTPublish_sent, push_pubInfo_to
    <3>3. n.msg = pub[p].msg /\ n.node_state = "NORMANL"
      OBVIOUS
    <3> HIDE DEF n
    <3>4. Waiting' = Waiting \cup {pub[p].msg}
      BY <3>2, <3>3 DEF Waiting
    <3>5. accepted' = accepted \cup {pub[p].msg}
      BY <2>1, <3>1, PayloadAssumption
    <3>6. accepted' \ Waiting' = accepted \ Waiting
      BY <3>1, <3>4, <3>5
    <3>7. ALO!Accept(pub[p].msg)
      BY <2>1, <3>1, <3>5, <3>6 DEF ALO!Accept
    <3> QED  BY <3>1, <3>7 DEF ALO!Next
  <2> QED  BY <2>2, <2>3
<1> QED  BY <1>1, <1>2, <1>3 DEF Publish

\* A yielder lets go of payloads the broker has acknowledged, or does nothing
\* the abstract specification sees.
LEMMA YieldRefines ==
  ASSUME IInv, NEW y \in Yielders, Yield(y)
  PROVE  ALO!Next \/ UNCHANGED ALO!vars
<1>1. UNCHANGED <<accepted, received>> /\ (cycle_misread_packet(y) \/ UNCHANGED mistaken)
  <2>1. CASE Keepalive(y)
    BY <2>1 DEF Keepalive, keepalive_sub_skip, keepalive_sub_ping, keepalive_wait,
                keepalive_disconnected, handle_reconnect, network, history
  <2>2. CASE Connect(y)
    BY <2>2 DEF Connect, mqtt_nwk_connect, MQTTConnect, wait_CONNACK_accepted,
                wait_CONNACK_refused, wait_CONNACK_timeout, reconnected, reconnect_failed,
                constructed, construct_failed, network, history
  <2>3. CASE Cycle(y)
    BY <2>3 DEF Cycle, cycle_offline, cycle_probes_exceeded, cycle_read_closed,
                cycle_read_error, cycle_no_data, cycle_packet, cycle_misread_fails,
                cycle_misread_packet, pubInfoProc_lock, pubInfoProc_free, MQTTRePublish,
                pubInfoProc_done, network, history
  <2> QED  BY <2>1, <2>2, <2>3 DEF Yield
<1>2. CASE UNCHANGED <<list_pub_wait_ack, mistaken>>
  <2>1. Waiting' = Waiting
    BY <1>2 DEF Waiting
  <2> QED  BY <1>1, <1>2, <2>1, Stutter
<1>3. CASE cycle_packet(y)
  <2>1. UNCHANGED mistaken
    BY <1>3 DEF cycle_packet, history
  <2>2. SUFFICES ASSUME Head(downlink).type = "PUBACK" PROVE ALO!Next
    BY <1>2, <1>3, <2>1 DEF cycle_packet
  <2>3. list_pub_wait_ack' = mask_pubInfo_from(Head(downlink).id)
    BY <1>3, <2>2 DEF cycle_packet
  <2>4. Waiting' \subseteq Waiting
    BY <2>3, Masked DEF IInv, TypeOK
  <2>5. Sound'
    BY <1>3, AckSound DEF IInv
  <2>6. Waiting \subseteq accepted
    BY WaitingAccepted DEF IInv
  <2>7. ~mistaken' => Waiting \subseteq Waiting' \cup received
    BY <1>1, <2>5, <2>6 DEF Sound, NoSilentLoss
  <2> QED  BY <1>1, <2>1, <2>4, <2>7, Released DEF IInv
<1>7. CASE cycle_misread_packet(y)
  <2>1. mistaken' \in {mistaken, TRUE} /\ (~mistaken' => list_pub_wait_ack' = list_pub_wait_ack)
    BY <1>7 DEF cycle_misread_packet, IInv, TypeOK, HistoryTypeOK
  <2>2. \/ list_pub_wait_ack' = list_pub_wait_ack
        \/ \E id \in 0..PACKET_ID_MAX : list_pub_wait_ack' = mask_pubInfo_from(id)
    BY <1>7 DEF cycle_misread_packet
  <2>3. list_pub_wait_ack' = list_pub_wait_ack => Waiting' = Waiting
    BY DEF Waiting
  <2>4. Waiting' \subseteq Waiting
    BY <2>2, <2>3, Masked DEF IInv, TypeOK
  <2>5. ~mistaken' => Waiting \subseteq Waiting' \cup received
    BY <2>1, <2>3
  <2> QED  BY <1>1, <2>1, <2>4, <2>5, Released DEF IInv
<1>4. CASE pubInfoProc_free(y)
  <2>1. Waiting' = Waiting /\ UNCHANGED mistaken
    BY <1>4 DEF pubInfoProc_free, freed, Waiting, history
  <2> QED  BY <1>1, <2>1, Stutter
<1>5. CASE MQTTRePublish(y)
  <2>1. Waiting' = Waiting
    BY <1>5, TimerWaits DEF MQTTRePublish, restart, IInv, TypeOK
  <2>2. UNCHANGED mistaken
    BY <1>5 DEF MQTTRePublish, history
  <2> QED  BY <1>1, <2>1, <2>2, Stutter
<1>6. \/ UNCHANGED list_pub_wait_ack
      \/ cycle_packet(y) \/ cycle_misread_packet(y) \/ pubInfoProc_free(y) \/ MQTTRePublish(y)
  <2>1. CASE Keepalive(y)
    BY <2>1 DEF Keepalive, keepalive_sub_skip, keepalive_sub_ping, keepalive_wait,
                keepalive_disconnected, handle_reconnect, client
  <2>2. CASE Connect(y)
    BY <2>2 DEF Connect, mqtt_nwk_connect, MQTTConnect, wait_CONNACK_accepted,
                wait_CONNACK_refused, wait_CONNACK_timeout, reconnected, reconnect_failed,
                constructed, construct_failed, client
  <2>3. CASE Cycle(y)
    BY <2>3 DEF Cycle, cycle_offline, cycle_probes_exceeded, cycle_read_closed,
                cycle_read_error, cycle_no_data, cycle_misread_fails, pubInfoProc_lock,
                pubInfoProc_done, client
  <2> QED  BY <2>1, <2>2, <2>3 DEF Yield
<1> QED  BY <1>1, <1>2, <1>3, <1>4, <1>5, <1>6, <1>7

\* The broker delivers a payload that was accepted; the rest of the network
\* and the clock do nothing the abstract specification sees.
LEMMA EnvironmentRefines ==
  ASSUME IInv, Timers \/ Network
  PROVE  ALO!Next \/ UNCHANGED ALO!vars
<1>1. UNCHANGED <<accepted, mistaken>>
  BY DEF Timers, ping_timer, reconnect_timer, pub_timer, Network, link_breaks, broker_takes, history
<1>2. Waiting' = Waiting
  <2>1. CASE pub_timer
    BY <2>1, TimerWaits DEF pub_timer, IInv, TypeOK
  <2>2. CASE ping_timer \/ reconnect_timer \/ Network
    BY <2>2 DEF ping_timer, reconnect_timer, Network, link_breaks, broker_takes, client, Waiting
  <2> QED  BY <2>1, <2>2 DEF Timers
<1>3. CASE received' = received
  BY <1>1, <1>2, <1>3, Stutter
<1>4. CASE received' # received
  <2> DEFINE k == Head(uplink)
  <2>1. broker_takes
    BY <1>4 DEF Timers, ping_timer, reconnect_timer, pub_timer, Network, link_breaks, network
  <2>2. k.id # 0 /\ received' = received \cup {k.msg}
    BY <1>4, <2>1 DEF broker_takes
  <2>3. k \in InFlight(uplink)
    BY <2>1, TakeFlight DEF broker_takes, IInv, TypeOK, NetworkTypeOK
  <2>4. k.msg \in accepted /\ k.msg \in Msgs
    BY <2>2, <2>3 DEF IInv, Sound, WireOK, TypeOK, HistoryTypeOK
  <2>5. ALO!Deliver(k.msg)
    BY <1>1, <1>2, <2>2, <2>4 DEF ALO!Deliver
  <2> QED  BY <2>4, <2>5 DEF ALO!Next
<1> QED  BY <1>3, <1>4

\* The wait list, the republications and the reconnects keep the
\* at-least-once promise of QoS1 (AtLeastOnce), for any number of threads
\* and payloads, any limits and any pattern of faults.
THEOREM KeepsAtLeastOnce == Spec => ImplementsAtLeastOnce
<1>1. Init => ALO!Init
  BY DEF Init, ALO!Init, Waiting
<1>2. IInv /\ [Next]_vars => [ALO!Next]_(ALO!vars)
  <2> SUFFICES ASSUME IInv, [Next]_vars PROVE ALO!Next \/ UNCHANGED ALO!vars
    OBVIOUS
  <2>1. CASE UNCHANGED vars
    <3>1. UNCHANGED <<accepted, received, mistaken>> /\ Waiting' = Waiting
      BY <2>1 DEF vars, client, network, history, Waiting
    <3> QED  BY <3>1, Stutter
  <2> QED  BY <2>1, PublishRefines, YieldRefines, EnvironmentRefines DEF Next
<1> QED  BY <1>1, <1>2, Invariance, PTL DEF Spec, ImplementsAtLeastOnce, ALO!Spec
=============================================================================
