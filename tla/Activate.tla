------------------------------ MODULE Activate ------------------------------
(***************************************************************************)
(* From IOT_EnOS_Connect to the CONNECT of the device: _mqtt_connect       *)
(* (iotx_cm_mqtt.c) calls IOT_MQTT_Construct (mqtt_api.c) until it gets a  *)
(* client; with dynamic activation that asks the cloud for the device's    *)
(* secret first (dynamic_activate.c) and signs with it (dev_sign_mqtt.c).  *)
(*                                                                         *)
(* A secret is NoSecret or Secret; a signature is the secret it is made    *)
(* of.  Times are unsigned and wrap at CLOCK.                              *)
(***************************************************************************)
EXTENDS Integers

CONSTANTS
  dynamic,               \* IOTX_IOCTL_SET_DYNAMIC_ACTIVATE
  TIMEOUT_MS,            \* MQTT_DYNAMIC_ACTIVATE_TIMEOUT_MS
  CLOCK,                 \* 2^64
  MaxTime,               \* bound: the clock
  MaxFaults              \* bound: connections that fail

NoSecret == ""
Secret   == "secret"

VARIABLES
  pc,                    \* where the thread that connects is
  stored,                \* the device secret of IOTX_IOCTL_SET_DEVICE_SECRET
  meta,                  \* meta_info.device_secret in IOT_MQTT_Construct
  device_secret,         \* the buffer the topic handler writes
  client,                \* g_mqtt_client
  now, timestart,        \* HAL_UptimeMs
  faults,
  \* history
  signed                 \* what the CONNECTs of the device were signed with

vars == <<pc, stored, meta, device_secret, client, now, timestart, faults, signed>>

Secrets == {NoSecret, Secret}

Fault == faults < MaxFaults /\ faults' = faults + 1

Construct ==
  /\ pc = "idle" /\ ~client
  /\ pc' = "construct"
  /\ UNCHANGED <<stored, meta, device_secret, client, now, timestart, faults, signed>>

\* IOT_MQTT_Construct up to the secret; without dynamic activation the stored
\* one, which must not be empty.
get_secret ==
  /\ pc = "construct"
  /\ IF dynamic THEN pc' = "activate" /\ meta' = NoSecret
     ELSE pc' = (IF stored = NoSecret THEN "retry" ELSE "sign") /\ meta' = stored
  /\ UNCHANGED <<stored, device_secret, client, now, timestart, faults, signed>>

\* _iotx_dynamic_activate: a secret that is stored is not asked for again.
dynamic_activate ==
  /\ pc = "activate"
  /\ device_secret' = NoSecret
  /\ \/ stored # NoSecret /\ pc' = "sign" /\ UNCHANGED <<timestart, faults>>
     \/ /\ stored = NoSecret
        /\ \/ pc' = "wait" /\ timestart' = now /\ UNCHANGED faults
           \/ Fault /\ pc' = "retry" /\ UNCHANGED timestart
  /\ UNCHANGED <<stored, meta, client, now, signed>>

start == IF now < timestart THEN now ELSE timestart

expired == (start - now) % CLOCK >= TIMEOUT_MS

\* One round of the loop: wrapper_mqtt_yield takes its time, and the cloud's
\* message may arrive.
activate_wait ==
  /\ pc = "wait" /\ device_secret = NoSecret /\ ~expired
  /\ timestart' = start
  /\ now' \in now..MaxTime
  /\ device_secret' \in Secrets
  /\ UNCHANGED <<pc, stored, meta, client, faults, signed>>

\* The secret is stored and told to the application.
activate_ends ==
  /\ pc = "wait"
  /\ \/ /\ device_secret # NoSecret
        /\ stored' = device_secret /\ meta' = device_secret
        /\ pc' = "sign"
     \/ /\ device_secret = NoSecret /\ expired
        /\ pc' = "retry"
        /\ UNCHANGED <<stored, meta>>
  /\ UNCHANGED <<device_secret, client, now, timestart, faults, signed>>

\* IOT_Sign_MQTT and wrapper_mqtt_connect; the cloud takes no other secret.
sign_and_connect ==
  /\ pc = "sign"
  /\ signed' = signed \cup {meta}
  /\ \/ meta = Secret /\ client' = TRUE /\ pc' = "idle" /\ UNCHANGED faults
     \/ meta # Secret /\ pc' = "retry" /\ UNCHANGED <<client, faults>>
     \/ Fault /\ pc' = "retry" /\ UNCHANGED client
  /\ UNCHANGED <<stored, meta, device_secret, now, timestart>>

\* _mqtt_connect sleeps and tries again until its own timer ends.
retry ==
  /\ pc = "retry"
  /\ pc' \in {"construct", "idle"}
  /\ UNCHANGED <<stored, meta, device_secret, client, now, timestart, faults, signed>>

\* IOT_MQTT_Destroy; the client may be constructed again.
Destroy ==
  /\ pc = "idle" /\ client
  /\ client' = FALSE
  /\ UNCHANGED <<pc, stored, meta, device_secret, now, timestart, faults, signed>>

Init ==
  /\ pc = "idle" /\ stored = (IF dynamic THEN NoSecret ELSE Secret)
  /\ meta = NoSecret /\ device_secret = NoSecret
  /\ client = FALSE /\ now = 0 /\ timestart = 0 /\ faults = 0 /\ signed = {}

Next ==
  \/ Construct \/ get_secret \/ dynamic_activate \/ activate_wait \/ activate_ends
  \/ sign_and_connect \/ retry \/ Destroy

Spec == Init /\ [][Next]_vars

-----------------------------------------------------------------------------

\* "get device secret through https dynamic register" (mqtt_api.c): the device
\* is signed in with its secret, at the first connection and at every other.
SignedWithSecret == signed \subseteq {Secret}

=============================================================================
