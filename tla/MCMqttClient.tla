---------------------------- MODULE MCMqttClient ----------------------------
(* Small instances of MqttClient for TLC. *)
EXTENDS MqttClient, TLC

\* Publishers run the same code, and so are payloads treated alike.
Symmetry == Permutations(Publishers) \cup Permutations(Msgs)

ThreadSymmetry == Permutations(Yielders)

\* The arithmetic of the client, on a clock that wraps at 32.
Numbers == INSTANCE MqttNumbers WITH UINT32_MAX <- 31

\* Timers are exact across the wrap of the clock.
ASSUME TimersExact == Numbers!TimerExact

\* Lengths survive their encoding, below, at and above each of its limits.
ASSUME LengthsExact ==
  Numbers!LengthExact(0..300 \cup 16380..16390 \cup 2097145..2097160
                      \cup 268435450..268435460)

=============================================================================
