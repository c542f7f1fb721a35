---------------------------- MODULE MqttNumbers ----------------------------
(***************************************************************************)
(* The arithmetic under the MQTT client: deadlines on a millisecond clock  *)
(* that wraps (src/infra/infra_timer.c), and the remaining length of a     *)
(* packet in groups of seven bits (src/mqtt/impl/MQTTPacket.c and          *)
(* iotx_mc_decode_packet of iotx_mqtt_client.c).                           *)
(***************************************************************************)
EXTENDS Integers, Sequences

CONSTANT UINT32_MAX    \* the largest value of the clock

Clock == 0..UINT32_MAX

-----------------------------------------------------------------------------
(* Timers *)

\* uint32_t addition and subtraction.
Plus(a, b)  == IF a + b > UINT32_MAX THEN a + b - UINT32_MAX - 1 ELSE a + b
Minus(a, b) == IF a < b THEN a - b + UINT32_MAX + 1 ELSE a - b

\* The deadline set at time now.
utils_time_countdown_ms(now, millisecond) == Plus(now, millisecond)

utils_time_is_expired(now, timer) == Minus(now, timer) < UINT32_MAX \div 2

iotx_time_left(now, end) ==
  IF utils_time_is_expired(now, end) THEN 0 ELSE Minus(end, now)

utils_time_spend(now, start) == Minus(now, start)

\* For every delay of up to half the range of the clock, whenever it is set: the
\* timer runs out when the delay is over and not before, and the time that is
\* left and the time that was spent are exact, though the clock wraps anywhere
\* in between; if it is looked at within half the range after the deadline.
TimerExact ==
  \A now \in Clock, delay \in 0..UINT32_MAX \div 2, passed \in Clock :
    passed < delay + UINT32_MAX \div 2 =>
      LET timer == utils_time_countdown_ms(now, delay)
          later == Plus(now, passed)
      IN  /\ utils_time_is_expired(later, timer) <=> passed >= delay
          /\ iotx_time_left(later, timer) = IF passed < delay THEN delay - passed ELSE 0
          /\ utils_time_spend(later, now) = passed

-----------------------------------------------------------------------------
(* The remaining length *)

MAX_NO_OF_REMAINING_LENGTH_BYTES == 4

Failed == -1

\* The bytes that MQTTPacket_encode writes.
MQTTPacket_encode[length \in Nat] ==
  IF length \div 128 > 0
  THEN <<(length % 128) + 128>> \o MQTTPacket_encode[length \div 128]
  ELSE <<length % 128>>

\* The value of the bytes that are read, one by one; it fails where they end.
iotx_mc_decode_packet(bytes) ==
  LET value[len \in 1..MAX_NO_OF_REMAINING_LENGTH_BYTES + 1] ==
        IF len > MAX_NO_OF_REMAINING_LENGTH_BYTES \/ len > Len(bytes) THEN Failed
        ELSE IF bytes[len] < 128 THEN bytes[len]
        ELSE IF value[len + 1] = Failed THEN Failed
        ELSE (bytes[len] % 128) + 128 * value[len + 1]
  IN  value[1]

\* The room that the serializers ask for: the header, the length and the rest.
MQTTPacket_len(rem_len) ==
  rem_len + 1 + (IF rem_len + 1 < 128 THEN 1
                 ELSE IF rem_len + 1 < 16384 THEN 2
                 ELSE IF rem_len + 1 < 2097151 THEN 3
                 ELSE 4)

\* What is written is read back, a length that needs a fifth byte is refused,
\* and a packet fits in the room that was asked for, one byte too much at most,
\* although MQTTPacket_len compares the length plus one.
LengthExact(lengths) ==
  \A n \in lengths :
    LET bytes == MQTTPacket_encode[n]
    IN  /\ iotx_mc_decode_packet(bytes) = IF n < 268435456 THEN n ELSE Failed
        /\ n < 268435456 =>
             MQTTPacket_len(n) - (1 + Len(bytes) + n) \in {0, 1}

=============================================================================
