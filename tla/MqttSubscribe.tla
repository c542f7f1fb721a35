--------------------------- MODULE MqttSubscribe ---------------------------
(***************************************************************************)
(* Subscriptions and incoming messages of the MQTT client                  *)
(* (src/mqtt/impl/iotx_mqtt_client.c): asynchronous, local and synchronous *)
(* subscribe, unsubscribe, the handler table, and the delivery of PUBLISH, *)
(* SUBACK and UNSUBACK packets to callbacks, which may call the client.    *)
(*                                                                         *)
(* lock_yield is held from reading a packet until its callbacks are over:  *)
(* rd is the thread that holds it.  lock_generic protects the two lists    *)
(* and is released while a callback runs, so a step is what happens        *)
(* between two callbacks.  The connection comes and goes; MqttClient       *)
(* models how.  TopicMatch has what topics and filters are.                *)
(***************************************************************************)
EXTENDS TopicMatch, SequencesExt, FiniteSets

CONSTANTS
  Callers,               \* application threads that subscribe and unsubscribe
  Yielder,               \* the thread that yields for ever
  Filters, Topics,       \* topic filters of the calls, topics of the messages
  Fns,                   \* handler functions, each with a context of its own
  Before,                \* the subscriptions made at the start
  Ops,                   \* the calls made: "sub", "sync", "local", "unsub"
  CallsFrom,             \* the callbacks that call the client, by rd.pc
  MaxCalls,              \* bound: calls made
  MaxMsgs,               \* bound: messages published to the device
  MaxFaults              \* bound: link failures, refused subscriptions, failed allocations

Threads   == Callers \cup {Yielder}
Callbacks == {"message", "default", "event", "lost", "back"}

ASSUME ThreadsAssumption == Yielder \notin Callers /\ 0 \notin Threads

ASSUME BoundsAssumption ==
  /\ CallsFrom \subseteq Callbacks /\ Ops \subseteq {"sub", "sync", "local", "unsub"}
  /\ MaxCalls \in Nat /\ MaxMsgs \in Nat /\ MaxFaults \in Nat

\* The topic of a message has no wildcards; what is in the table at the start was
\* put there by subscriptions.
ASSUME TopicsAssumption ==
  /\ Filters \subseteq Seq(STRING) /\ Topics \subseteq Seq(STRING \ {"+", "#"})
  /\ Before \in Seq([filter : Seq(STRING), fn : Fns]) /\ IsInjective(Before)

VARIABLES
  \* the client
  client_state,          \* CONNECTED, DISCONNECTED or RECONNECTING
  list_sub_handle,       \* the handlers, in the order they were added
  list_sub_sync_ack,     \* what the synchronous calls wait for
  packet_id,             \* the last id that was used
  call,                  \* per thread, the subscribe call it is in
  rd,                    \* the holder of lock_yield and the packet it handles
  \* the broker and the connection to it
  link,                  \* whether packets pass
  asked,                 \* SUBSCRIBE and UNSUBSCRIBE packets the broker has to answer
  down,                  \* packets on their way to the client
  published,             \* QoS1 messages for the device, in order
  msgs, calls, faults,   \* how many of each so far
  \* history
  granted,               \* ids whose SUBACK granted the subscription
  confirmed,             \* synchronous calls that returned because of a SUBACK
  removed,               \* handlers that unsubscribe has taken out
  acked,                 \* messages answered by a PUBACK
  dangling               \* a delivery went on from a handler that was freed

client  == <<client_state, list_sub_handle, list_sub_sync_ack, packet_id>>
broker  == <<link, asked, down, published, msgs>>
history == <<granted, confirmed, removed, acked, dangling>>
vars    == <<client, call, rd, broker, calls, faults, history>>

-----------------------------------------------------------------------------
(* Types *)

\* A refused subscription, a failed write or allocation is retried at most
\* once per fault, so more ids are never used.
Id  == 0..(Len(Before) + MaxCalls + MaxFaults)
Msg == [id : 0..MaxMsgs, topic : Topics \cup {<<>>}, qos : {0, 1}]
Ack == {"UNDEF", "SUCCESS", "NACK"}

\* What the broker sends.
Packet == [type : {"SUBACK"}, id : Id, granted : BOOLEAN]
            \cup [type : {"UNSUBACK"}, id : Id] \cup [type : {"PUBLISH"}, msg : Msg]

\* The handler table identifies a handler by filter, function and context.  key
\* stands for the address of the node.
Handled == Filters \cup {b.filter : b \in Range(Before)}
Handler == [key : Id, filter : Handled, fn : Fns]

Call == [pc : {"idle", "subscribe", "add", "sent", "register", "yield", "check"},
         op : Ops \cup {"sub"}, filter : Filters \cup {<<>>}, fn : Fns \cup {"none"}, id : Id,
         subed : BOOLEAN, expired : BOOLEAN]

Reading == [pc : Callbacks \cup {"free", "finish"}, owner : Threads \cup {0}, msg : Msg,
            at : Id, got : Seq(Handler), start : SUBSET Handler]

NoMsg    == [id |-> 0, topic |-> <<>>, qos |-> 0]
IdleCall == [pc |-> "idle", op |-> "sub", filter |-> <<>>, fn |-> "none", id |-> 0,
             subed |-> FALSE, expired |-> FALSE]
FreeRd   == [pc |-> "free", owner |-> 0, msg |-> NoMsg, at |-> 0, got |-> <<>>,
             start |-> {}]

\* The type invariant.
TypeOK ==
  /\ client_state \in {"CONNECTED", "DISCONNECTED", "RECONNECTING"}
  /\ list_sub_handle \in Seq(Handler)
  /\ list_sub_sync_ack \in Seq([id : Id, ack : Ack])
  /\ packet_id \in Id
  /\ call \in [Threads -> Call] /\ rd \in Reading
  /\ link \in {"up", "broken"}
  /\ asked \subseteq [type : {"SUBSCRIBE", "UNSUBSCRIBE"}, id : Id]
  /\ down \in Seq(Packet)
  /\ published \in Seq(Msg)
  /\ msgs \in 0..MaxMsgs /\ calls \in 0..MaxCalls /\ faults \in 0..MaxFaults
  /\ granted \subseteq Id /\ acked \subseteq Msg /\ dangling \in BOOLEAN
  /\ confirmed \subseteq [id : Id, filter : Filters, fn : Fns]
  /\ removed \subseteq [filter : Handled, fn : Fns]

Fault == faults < MaxFaults /\ faults' = faults + 1

\* The nodes of a list that stay when those in S are taken out of it.
Without(s, S) ==
  LET kept[i \in 0..Len(s)] ==
        IF i = 0 THEN <<>>
        ELSE IF s[i] \in S THEN kept[i - 1] ELSE Append(kept[i - 1], s[i])
  IN  kept[Len(s)]

-----------------------------------------------------------------------------
(* Calls *)

\* MQTTUnsubscribe takes the terminating NUL for a character of the topic.
WithNul(f) == [f EXCEPT ![Len(f)] = "NUL"]

\* Set around the callbacks of _handle_event, for all threads alike; not around
\* the callbacks for a lost and a recovered connection.
in_yield_cb_never == FALSE

in_yield_cb == rd.pc \in {"message", "default", "event"}

Returns(t) == call' = [call EXCEPT ![t] = IdleCall]
Goto(t, pc) == call' = [call EXCEPT ![t].pc = pc]

MayCall(t) ==
  /\ call[t].pc = "idle" /\ calls < MaxCalls
  /\ \/ t \in Callers
     \/ t = Yielder /\ rd.owner = t /\ rd.pc \in CallsFrom

subscribe(t, op, f, fn) ==
  /\ MayCall(t) /\ op # "unsub" /\ check_topic(f)
  /\ calls' = calls + 1
  /\ call' = [call EXCEPT ![t] = [IdleCall EXCEPT !.pc = "subscribe", !.op = op,
                                                   !.filter = f, !.fn = fn]]
  /\ UNCHANGED <<client, rd, broker, faults, history>>

Refused(t) ==
  IF call[t].op = "sync" THEN Goto(t, "sent") ELSE Returns(t)

\* Not connected, or no memory for the handler.
subscribe_refused(t) ==
  /\ call[t].pc = "subscribe"
  /\ \/ client_state # "CONNECTED" /\ UNCHANGED faults
     \/ client_state = "CONNECTED" /\ Fault
  /\ Refused(t)
  /\ UNCHANGED <<client, rd, broker, calls, history>>

subscribe_write_fails(t) ==
  /\ call[t].pc = "subscribe" /\ call[t].op # "local"
  /\ client_state = "CONNECTED" /\ link = "broken"
  /\ client_state' = "DISCONNECTED"
  /\ Refused(t)
  /\ UNCHANGED <<list_sub_handle, list_sub_sync_ack, packet_id, rd, broker, calls,
                 faults, history>>

\* Ids of calls that were refused are skipped.
subscribe_sent(t) ==
  /\ call[t].pc = "subscribe" /\ call[t].op # "local"
  /\ client_state = "CONNECTED" /\ link = "up"
  /\ packet_id' = packet_id + 1
  /\ asked' = asked \cup {[type |-> "SUBSCRIBE", id |-> packet_id']}
  /\ call' = [call EXCEPT ![t].pc = "add", ![t].id = packet_id']
  /\ UNCHANGED <<client_state, list_sub_handle, list_sub_sync_ack, rd, link, down,
                 published, msgs, calls, faults, history>>

identical_never(h, f, fn) == FALSE

identical(h, f, fn) == h.filter = f /\ h.fn = fn

\* Under lock_generic: a handler that is already there is not added again.
add_handler(f, fn, id) ==
  list_sub_handle' =
    IF \E i \in DOMAIN list_sub_handle : identical(list_sub_handle[i], f, fn)
    THEN list_sub_handle
    ELSE Append(list_sub_handle, [key |-> id, filter |-> f, fn |-> fn])

\* IOTX_MQTT_QOS3_SUB_LOCAL: nothing is sent.
subscribe_local(t) ==
  /\ call[t].pc = "subscribe" /\ call[t].op = "local"
  /\ client_state = "CONNECTED"
  /\ packet_id' = packet_id + 1
  /\ add_handler(call[t].filter, call[t].fn, packet_id')
  /\ Returns(t)
  /\ UNCHANGED <<client_state, list_sub_sync_ack, rd, broker, calls, faults, history>>

subscribe_added(t) ==
  /\ call[t].pc = "add"
  /\ add_handler(call[t].filter, call[t].fn, call[t].id)
  /\ IF call[t].op = "sync" THEN Goto(t, "sent") ELSE Returns(t)
  /\ UNCHANGED <<client_state, list_sub_sync_ack, packet_id, rd, broker, calls, faults,
                 history>>

\* wrapper_mqtt_subscribe_sync does not wait inside a callback.
sync_in_callback(t) ==
  /\ call[t].pc = "sent" /\ in_yield_cb
  /\ Returns(t)
  /\ UNCHANGED <<client, rd, broker, calls, faults, history>>

\* After a subscribe that failed there is nothing to register.
sync_failed(t) ==
  /\ call[t].pc = "sent" /\ ~in_yield_cb /\ call[t].id = 0
  /\ Goto(t, "yield")
  /\ UNCHANGED <<client, rd, broker, calls, faults, history>>

\* Only now does the call wait for its id.  Without memory for the node it
\* tries again in the next round.
sync_registers(t) ==
  /\ call[t].pc = "register" \/ (call[t].pc = "sent" /\ ~in_yield_cb /\ call[t].id # 0)
  /\ \/ /\ list_sub_sync_ack' =
             Append(list_sub_sync_ack, [id |-> call[t].id, ack |-> "UNDEF"])
        /\ call' = [call EXCEPT ![t].pc = "yield", ![t].subed = TRUE]
        /\ UNCHANGED faults
     \/ /\ Fault
        /\ Goto(t, "yield")
        /\ UNCHANGED list_sub_sync_ack
  /\ UNCHANGED <<client_state, list_sub_handle, packet_id, rd, broker, calls, history>>

\* wrapper_mqtt_yield needs lock_yield at least once, and then runs out of time.
sync_yielded(t) ==
  /\ call[t].pc = "yield" /\ rd.pc = "free"
  /\ Goto(t, "check")
  /\ UNCHANGED <<client, rd, broker, calls, faults, history>>

WithoutId_none(nodes, id) == nodes

WithoutId(nodes, id) == Without(nodes, {n \in Range(nodes) : n.id = id})

\* Only the first node is looked at.
Outcome(t) ==
  IF list_sub_sync_ack # <<>> /\ Head(list_sub_sync_ack).id = call[t].id
  THEN Head(list_sub_sync_ack).ack
  ELSE "UNDEF"

sync_succeeds(t) ==
  /\ call[t].pc = "check" /\ Outcome(t) = "SUCCESS"
  /\ list_sub_sync_ack' = Tail(list_sub_sync_ack)
  /\ confirmed' = confirmed \cup
       {[id |-> call[t].id, filter |-> call[t].filter, fn |-> call[t].fn]}
  /\ Returns(t)
  /\ UNCHANGED <<client_state, list_sub_handle, packet_id, rd, broker, calls, faults,
                 granted, removed, acked, dangling>>

\* How the next round of the loop begins.
NextRound(t) ==
  CASE Outcome(t) = "NACK" \/ call[t].id = 0 -> "subscribe"
    [] Outcome(t) # "NACK" /\ call[t].id # 0 /\ ~call[t].subed -> "register"
    [] OTHER -> "yield"

\* Until the timer is over; a refused subscription is made once more.
sync_again(t) ==
  LET nack == Outcome(t) = "NACK"
  IN  /\ call[t].pc = "check" /\ Outcome(t) # "SUCCESS" /\ ~call[t].expired
      /\ list_sub_sync_ack' =
           IF nack THEN Tail(list_sub_sync_ack) ELSE list_sub_sync_ack
      /\ call' = [call EXCEPT ![t].pc = NextRound(t),
                              ![t].id = IF nack THEN 0 ELSE @,
                              ![t].subed = IF nack THEN FALSE ELSE @]
      /\ UNCHANGED <<client_state, list_sub_handle, packet_id, rd, broker, calls, faults,
                     history>>

sync_times_out(t) ==
  /\ call[t].pc = "check" /\ Outcome(t) # "SUCCESS" /\ call[t].expired
  /\ list_sub_sync_ack' = WithoutId(list_sub_sync_ack, call[t].id)
  /\ Returns(t)
  /\ UNCHANGED <<client_state, list_sub_handle, packet_id, rd, broker, calls, faults,
                 history>>

sync_timer(t) ==
  /\ call[t].op = "sync" /\ call[t].pc # "idle" /\ ~call[t].expired
  /\ call' = [call EXCEPT ![t].expired = TRUE]
  /\ UNCHANGED <<client, rd, broker, calls, faults, history>>

\* The handlers an unsubscribe takes out, by the test of deliver_message.
Unsubscribed(f) ==
  {h \in Range(list_sub_handle) : is_topic_matched(h.filter, WithNul(f))}

unsubscribe(t, f) ==
  /\ MayCall(t) /\ "unsub" \in Ops /\ check_topic(f)
  /\ client_state = "CONNECTED" /\ link = "up"
  /\ calls' = calls + 1 /\ packet_id' = packet_id + 1
  /\ asked' = asked \cup {[type |-> "UNSUBSCRIBE", id |-> packet_id']}
  /\ list_sub_handle' = Without(list_sub_handle, Unsubscribed(f))
  /\ removed' = removed \cup {[filter |-> h.filter, fn |-> h.fn] : h \in Unsubscribed(f)}
  /\ UNCHANGED <<client_state, list_sub_sync_ack, call, rd, link, down, published, msgs,
                 faults, granted, confirmed, acked, dangling>>

unsubscribe_write_fails(t) ==
  /\ MayCall(t) /\ "unsub" \in Ops
  /\ client_state = "CONNECTED" /\ link = "broken"
  /\ client_state' = "DISCONNECTED"
  /\ calls' = calls + 1
  /\ UNCHANGED <<list_sub_handle, list_sub_sync_ack, packet_id, call, rd, broker, faults,
                 history>>

-----------------------------------------------------------------------------
(* Reading, with lock_yield *)

MayYield(t) ==
  /\ rd.pc = "free"
  /\ (t = Yielder /\ call[t].pc = "idle") \/ call[t].pc = "yield"

Receives(t, type) ==
  /\ MayYield(t) /\ client_state = "CONNECTED"
  /\ down # <<>> /\ Head(down).type = type
  /\ down' = Tail(down)

HoldsRd(t, pc) == rd' = [FreeRd EXCEPT !.pc = pc, !.owner = t]

suback_matches_any(n, id) == TRUE

suback_matches(n, id) == n.id = id

\* The waiting calls of that id learn the result, then the application does.
handle_recv_SUBACK(t) ==
  /\ Receives(t, "SUBACK")
  /\ LET p == Head(down)
         marked(n) == IF suback_matches(n, p.id)
                      THEN [n EXCEPT !.ack = IF p.granted THEN "SUCCESS" ELSE "NACK"]
                      ELSE n
     IN  list_sub_sync_ack' =
           [i \in DOMAIN list_sub_sync_ack |-> marked(list_sub_sync_ack[i])]
  /\ HoldsRd(t, "event")
  /\ UNCHANGED <<client_state, list_sub_handle, packet_id, call, link, asked, published,
                 msgs, calls, faults, history>>

handle_recv_UNSUBACK(t) ==
  /\ Receives(t, "UNSUBACK")
  /\ HoldsRd(t, "event")
  /\ UNCHANGED <<client, call, link, asked, published, msgs, calls, faults, history>>

\* The handlers behind position i that match.
Matching(i, topic) ==
  {j \in i + 1..Len(list_sub_handle) : is_topic_matched(list_sub_handle[j].filter, topic)}

next_handler_last(i, topic) ==
  IF i > 0 \/ Matching(i, topic) = {} THEN 0
  ELSE CHOOSE j \in Matching(i, topic) : \A k \in Matching(i, topic) : j <= k

\* The next of them in the table, 0 when there is none.
next_handler(i, topic) ==
  IF Matching(i, topic) = {} THEN 0
  ELSE CHOOSE j \in Matching(i, topic) : \A k \in Matching(i, topic) : j <= k

\* deliver_message, from position i of the table to the next callback; a message
\* that no handler took goes to the default one.
Deliver(r, i) ==
  LET j == next_handler(i, r.msg.topic)
  IN  rd' = IF j # 0
            THEN [r EXCEPT !.pc = "message", !.at = list_sub_handle[j].key,
                           !.got = Append(@, list_sub_handle[j])]
            ELSE [r EXCEPT !.pc = IF r.got = <<>> THEN "default" ELSE "finish"]

handle_recv_PUBLISH(t) ==
  /\ Receives(t, "PUBLISH")
  /\ Deliver([FreeRd EXCEPT !.owner = t, !.msg = Head(down).msg,
                            !.start = Range(list_sub_handle)], 0)
  /\ UNCHANGED <<client, call, link, asked, published, msgs, calls, faults, history>>

PositionOf(key) == {i \in DOMAIN list_sub_handle : list_sub_handle[i].key = key}

\* The callback of a thread is over once the call it made has returned.
CallbackEnds(t, pc) ==
  /\ rd.owner = t /\ rd.pc = pc
  /\ call[t].pc \in {"idle", "yield"} /\ (t = Yielder => call[t].pc = "idle")

\* The walk goes on from the handler that ran.  If that was freed meanwhile, it
\* goes on from whatever its memory now holds, a handler or the end.
message_callback_ends(t) ==
  /\ CallbackEnds(t, "message")
  /\ \/ /\ \E i \in PositionOf(rd.at) : Deliver(rd, i)
        /\ UNCHANGED dangling
     \/ /\ PositionOf(rd.at) = {}
        /\ \E i \in 0..Len(list_sub_handle) : Deliver(rd, i)
        /\ dangling' = TRUE
  /\ UNCHANGED <<client, call, broker, calls, faults, granted, confirmed, removed, acked>>

default_callback_ends(t) ==
  /\ CallbackEnds(t, "default")
  /\ rd' = [rd EXCEPT !.pc = "finish"]
  /\ UNCHANGED <<client, call, broker, calls, faults, history>>

event_callback_ends(t) ==
  /\ \E pc \in {"event", "back"} : CallbackEnds(t, pc)
  /\ rd' = FreeRd
  /\ UNCHANGED <<client, call, broker, calls, faults, history>>

\* A PUBACK that cannot be written is only logged.
MQTTPuback(t) ==
  /\ rd.owner = t /\ rd.pc = "finish"
  /\ acked' = IF rd.msg.qos = 1 /\ link = "up" THEN acked \cup {rd.msg} ELSE acked
  /\ rd' = FreeRd
  /\ UNCHANGED <<client, call, broker, calls, faults, granted, confirmed, removed, dangling>>

read_closed_state_invalid == "INVALID"


\* A closed connection is noticed by reading.
read_closed_state == "DISCONNECTED"

cycle_read_closed(t) ==
  /\ MayYield(t) /\ client_state = "CONNECTED" /\ link = "broken"
  /\ client_state' = read_closed_state
  /\ UNCHANGED <<list_sub_handle, list_sub_sync_ack, packet_id, call, rd, broker, calls,
                 faults, history>>

\* The application is told before the state says that a connection is sought.
disconnect_callback(t) ==
  /\ MayYield(t) /\ client_state = "DISCONNECTED"
  /\ HoldsRd(t, "lost")
  /\ UNCHANGED <<client, call, broker, calls, faults, history>>

keepalive_disconnected(t) ==
  /\ CallbackEnds(t, "lost")
  /\ client_state' = "RECONNECTING"
  /\ rd' = FreeRd
  /\ UNCHANGED <<list_sub_handle, list_sub_sync_ack, packet_id, call, broker, calls,
                 faults, history>>

\* The session is kept (clean_session is 0): the broker sends again what was
\* not acknowledged.
reconnect_callback(t) ==
  /\ MayYield(t) /\ client_state = "RECONNECTING"
  /\ client_state' = "CONNECTED" /\ link' = "up"
  /\ down' = [i \in DOMAIN Without(published, acked) |->
                [type |-> "PUBLISH", msg |-> Without(published, acked)[i]]]
  /\ HoldsRd(t, "back")
  /\ UNCHANGED <<list_sub_handle, list_sub_sync_ack, packet_id, call, asked, published,
                 msgs, calls, faults, history>>

-----------------------------------------------------------------------------
(* The broker and the connection *)

link_breaks ==
  /\ link = "up" /\ Fault
  /\ link' = "broken" /\ down' = <<>> /\ asked' = {}
  /\ UNCHANGED <<client, call, rd, published, msgs, calls, history>>

broker_answers ==
  /\ \E a \in asked :
       /\ asked' = asked \ {a}
       /\ \/ /\ a.type = "UNSUBSCRIBE"
             /\ down' = Append(down, [type |-> "UNSUBACK", id |-> a.id])
             /\ UNCHANGED <<granted, faults>>
          \/ /\ a.type = "SUBSCRIBE"
             /\ down' = Append(down, [type |-> "SUBACK", id |-> a.id, granted |-> TRUE])
             /\ granted' = granted \cup {a.id}
             /\ UNCHANGED faults
          \/ /\ a.type = "SUBSCRIBE" /\ Fault
             /\ down' = Append(down, [type |-> "SUBACK", id |-> a.id, granted |-> FALSE])
             /\ UNCHANGED granted
  /\ UNCHANGED <<client, call, rd, link, published, msgs, calls, confirmed, removed, acked,
                 dangling>>

\* A kept session may hold messages of any topic.
broker_publishes(topic, qos) ==
  LET m == [id |-> msgs + 1, topic |-> topic, qos |-> qos]
  IN  /\ msgs < MaxMsgs /\ link = "up"
      /\ msgs' = msgs + 1
      /\ down' = Append(down, [type |-> "PUBLISH", msg |-> m])
      /\ published' = IF qos = 1 THEN Append(published, m) ELSE published
      /\ UNCHANGED <<client, call, rd, link, asked, calls, faults, history>>

-----------------------------------------------------------------------------

Init ==
  /\ client_state = "CONNECTED" /\ list_sub_sync_ack = <<>>
  /\ list_sub_handle = [i \in DOMAIN Before |->
                           [key |-> i, filter |-> Before[i].filter, fn |-> Before[i].fn]]
  /\ packet_id = Len(Before)
  /\ call = [t \in Threads |-> IdleCall]
  /\ rd = FreeRd
  /\ link = "up" /\ asked = {} /\ down = <<>> /\ published = <<>>
  /\ msgs = 0 /\ calls = 0 /\ faults = 0
  /\ granted = {} /\ confirmed = {} /\ removed = {} /\ acked = {} /\ dangling = FALSE

Starts(t) ==
  \/ \E op \in Ops, f \in Filters, fn \in Fns : subscribe(t, op, f, fn)
  \/ \E f \in Filters : unsubscribe(t, f)
  \/ unsubscribe_write_fails(t)

\* What a thread does once it is in a call, in a callback or in yield.
Step(t) ==
  \/ subscribe_refused(t) \/ subscribe_write_fails(t) \/ subscribe_sent(t)
  \/ subscribe_local(t) \/ subscribe_added(t)
  \/ sync_in_callback(t) \/ sync_failed(t) \/ sync_registers(t) \/ sync_yielded(t)
  \/ sync_succeeds(t) \/ sync_again(t) \/ sync_times_out(t)
  \/ handle_recv_SUBACK(t) \/ handle_recv_UNSUBACK(t) \/ handle_recv_PUBLISH(t)
  \/ message_callback_ends(t) \/ default_callback_ends(t) \/ event_callback_ends(t)
  \/ MQTTPuback(t) \/ cycle_read_closed(t)
  \/ disconnect_callback(t) \/ keepalive_disconnected(t) \/ reconnect_callback(t)

Next ==
  \/ \E t \in Threads : Starts(t) \/ Step(t) \/ sync_timer(t)
  \/ link_breaks \/ broker_answers
  \/ \E topic \in Topics, qos \in {0, 1} : broker_publishes(topic, qos)

\* Threads run and timers run out; the broker need not answer.
Fairness == \A t \in Threads : WF_vars(Step(t)) /\ WF_vars(sync_timer(t))

Spec     == Init /\ [][Next]_vars
LiveSpec == Spec /\ Fairness

-----------------------------------------------------------------------------
(* Properties *)

\* deliver_message gives a message, before it is acknowledged, to every handler
\* that was in the table when it began and still is, whose filter fits the topic,
\* and to none whose filter does not; in the order of the table; and once for
\* every subscription, however many calls made it at the same time or made it
\* again after a refusal, unless an unsubscribe took it out in between.  Other
\* threads change the table during every callback; no handler is freed while it
\* runs.
DeliveredToAll ==
  rd.pc = "finish" /\ ~dangling =>
    /\ \A h \in rd.start \cap Range(list_sub_handle) :
         Fits(h.filter, rd.msg.topic) => h \in Range(rd.got)
    /\ \A i, j \in DOMAIN rd.got :
         /\ Fits(rd.got[i].filter, rd.msg.topic)
         /\ i < j =>
              /\ \A p, q \in DOMAIN list_sub_handle :
                   list_sub_handle[p] = rd.got[i] /\ list_sub_handle[q] = rd.got[j] => p < q
              /\ \/ rd.got[i].filter # rd.got[j].filter \/ rd.got[i].fn # rd.got[j].fn
                 \/ /\ rd.got[i].key # rd.got[j].key
                    /\ [filter |-> rd.got[i].filter, fn |-> rd.got[i].fn] \in removed

\* A synchronous subscribe that waited and succeeded was granted by the broker
\* under its own id, and its handler is in the table unless an unsubscribe took
\* it out.
ConfirmedMeansGranted ==
  \A c \in confirmed :
    /\ c.id \in granted
    /\ \/ \E h \in Range(list_sub_handle) : h.filter = c.filter /\ h.fn = c.fn
       \/ [filter |-> c.filter, fn |-> c.fn] \in removed

\* list_sub_sync_ack holds nothing but what calls in progress wait for: whatever
\* way a synchronous call ends, refused, timed out or retried, it leaves no node
\* behind at the head of the list, which all other calls would wait behind.
NoStrayWaiters ==
  \A i \in DOMAIN list_sub_sync_ack :
    \E t \in Threads :
      /\ call[t].subed /\ call[t].id = list_sub_sync_ack[i].id
      /\ \A j \in DOMAIN list_sub_sync_ack :
           list_sub_sync_ack[j].id = call[t].id => j = i

\* Every call returns, also one made inside a callback, which holds lock_yield,
\* and whether or not the broker answers.
CallsReturn == \A t \in Threads : call[t].pc # "idle" ~> call[t].pc = "idle"


=============================================================================
