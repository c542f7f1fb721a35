---------------------------- MODULE EnosCommand ----------------------------
(***************************************************************************)
(* Commands from the cloud (src/dev_model/impl_enos.c): service calls and  *)
(* measure-point settings become nodes of downstream_command_list, whose   *)
(* addresses the application gets as contexts and gives back with          *)
(* IOT_EnOS_CommandReply.  The dispatching thread inserts nodes and frees  *)
(* the ones that are too old; other threads reply.                         *)
(*                                                                         *)
(* The heap is a few addresses, so that malloc returns one that was freed. *)
(* command_list_mutex is held within single steps.                         *)
(***************************************************************************)
EXTENDS Integers, FiniteSets, Sequences

CONSTANTS
  Repliers,              \* threads that reply
  Addrs,                 \* addresses malloc returns for nodes
  COMMAND_LIST_MAXLEN,   \* CONFIG_COMMAND_LIST_MAXLEN
  MaxCommands,           \* bound: commands from the cloud
  MaxFaults              \* bound: operations of the system that fail

NoAddr == 0

ASSUME CommandAssumption ==
  /\ COMMAND_LIST_MAXLEN \in Nat \ {0} /\ MaxCommands \in Nat /\ MaxFaults \in Nat
  /\ NoAddr \notin Addrs

VARIABLES
  heap,                  \* per address, the command whose node lives there, 0 when free
  command_list,          \* addresses in downstream_command_list
  command_list_num,      \* their number, as the code counts it
  dpc,                   \* where the dispatching thread is in iotx_dm_dispatch
  reply,                 \* the reply each thread makes
  commands,              \* commands sent by the cloud so far
  queue,                 \* commands waiting for dispatch
  held,                  \* contexts the application has still to reply to
  faults,                \* failures so far
  \* history
  responses,             \* responses sent: to which command, and the one meant
  late,                  \* a reply was made for, or overtaken by the end of, its node
  expired                \* a node was freed that nobody had replied to

list == <<heap, command_list, command_list_num>>
command_vars == <<list, dpc, reply, commands, queue, held, faults, responses, late, expired>>

Command == 0..MaxCommands
Context == [cmd : Command, addr : Addrs \cup {NoAddr}]
NoReply == [pc |-> "idle", cmd |-> 0, addr |-> NoAddr]

CommandTypeOK ==
  /\ heap \in [Addrs -> Command] /\ command_list \subseteq Addrs
  /\ command_list_num \in 0..COMMAND_LIST_MAXLEN
  /\ dpc \in {"idle", "drain"}
  /\ reply \in [Repliers -> [pc : {"idle", "search", "found", "sent"}, cmd : Command,
                             addr : Addrs \cup {NoAddr}]]
  /\ commands \in Command
  /\ queue \in Seq(Command) /\ Len(queue) <= MaxCommands
  /\ held \subseteq Context /\ faults \in 0..MaxFaults
  /\ responses \subseteq [to : Command, meant : Command]
  /\ late \in BOOLEAN /\ expired \in BOOLEAN

Fault == faults < MaxFaults /\ faults' = faults + 1

-----------------------------------------------------------------------------
(* The list *)

list_full == command_list_num >= COMMAND_LIST_MAXLEN

\* The context of the new node; none when the list is full or memory is short.
command_list_insert(c, ctx) ==
  \/ /\ ~list_full /\ ctx \in Addrs
     /\ heap[ctx] = 0
     /\ heap' = [heap EXCEPT ![ctx] = c]
     /\ command_list' = command_list \cup {ctx}
     /\ command_list_num' = command_list_num + 1
     /\ UNCHANGED faults
  \/ ctx = NoAddr /\ list_full /\ UNCHANGED <<list, faults>>
  \/ ctx = NoAddr /\ ~list_full /\ Fault /\ UNCHANGED list

num_after_uncounted(n) == command_list_num

\* n nodes fewer; the count does not go below 0.
num_after(n) == IF command_list_num > n THEN command_list_num - n ELSE 0

command_list_delete(nodes) ==
  /\ heap' = [a \in Addrs |-> IF a \in nodes THEN 0 ELSE heap[a]]
  /\ command_list' = command_list \ nodes
  /\ command_list_num' = num_after(Cardinality(nodes))

\* The node meant by a context is gone, or the address is another's by now.
Gone(ctx) == ctx.addr \notin command_list \/ heap[ctx.addr] # ctx.cmd

InProgress == {t \in Repliers : reply[t].pc \in {"found", "sent"}}

\* service_list_destroy, by IOT_EnOS_Close.
service_list_destroy ==
  /\ heap' = [a \in Addrs |-> 0] /\ command_list' = {} /\ command_list_num' = 0
  /\ late' = (late \/ InProgress # {})
  /\ expired' = (expired \/ command_list # {})

-----------------------------------------------------------------------------
(* The dispatching thread *)

\* iotx_enos_service_list_overtime_handle, at the beginning of a dispatch; the
\* clock may have reached CONFIG_SERVICE_REQUEST_TIMEOUT for any of the nodes.
overtime_handle ==
  /\ dpc = "idle"
  /\ dpc' = "drain"
  /\ \E nodes \in SUBSET command_list :
       /\ command_list_delete(nodes)
       /\ late' = (late \/ \E t \in InProgress : reply[t].addr \in nodes)
       /\ expired' = (expired \/ nodes # {})
  /\ UNCHANGED <<reply, commands, queue, held, faults, responses>>

\* The callback for a service is not called without a context, the one for
\* measure points is; the application cannot reply then.
event_callback ==
  /\ dpc = "drain" /\ queue # <<>>
  /\ queue' = Tail(queue)
  /\ \E ctx \in Addrs \cup {NoAddr} :
       /\ command_list_insert(Head(queue), ctx)
       /\ held' = IF ctx = NoAddr THEN held
                  ELSE held \cup {[cmd |-> Head(queue), addr |-> ctx]}
  /\ UNCHANGED <<dpc, reply, commands, responses, late, expired>>

dispatch_done ==
  /\ dpc = "drain" /\ queue = <<>>
  /\ dpc' = "idle"
  /\ UNCHANGED <<list, reply, commands, queue, held, faults, responses, late, expired>>

-----------------------------------------------------------------------------
(* IOT_EnOS_CommandReply *)

\* Past the test of is_opened and is_connected.  The application replies once
\* to a context, at any time.
command_reply(t, ctx) ==
  /\ reply[t].pc = "idle" /\ ctx \in held
  /\ held' = held \ {ctx}
  /\ reply' = [reply EXCEPT ![t] = [pc |-> "search", cmd |-> ctx.cmd, addr |-> ctx.addr]]
  /\ UNCHANGED <<list, dpc, commands, queue, faults, responses, late, expired>>

command_list_search_frees(t) ==
  /\ reply[t].pc = "search"
  /\ IF reply[t].addr \in command_list
     THEN reply' = [reply EXCEPT ![t].pc = "found"] /\ command_list_delete({reply[t].addr})
     ELSE reply' = [reply EXCEPT ![t] = NoReply] /\ UNCHANGED list
  /\ UNCHANGED <<dpc, commands, queue, held, faults, responses, late, expired>>

\* By address.
command_list_search(t) ==
  /\ reply[t].pc = "search"
  /\ reply' = IF reply[t].addr \in command_list
              THEN [reply EXCEPT ![t].pc = "found"]
              ELSE [reply EXCEPT ![t] = NoReply]
  /\ late' = (late \/ (reply[t].addr \in command_list /\ Gone(reply[t])))
  /\ UNCHANGED <<list, dpc, commands, queue, held, faults, responses, expired>>

\* The id is read from the node; 0 stands for what a freed node holds.
response_id(t) == heap[reply[t].addr]

send_response(t) ==
  /\ reply[t].pc = "found"
  /\ responses' = responses \cup {[to |-> response_id(t), meant |-> reply[t].cmd]}
  /\ reply' = [reply EXCEPT ![t].pc = "sent"]
  /\ UNCHANGED <<list, dpc, commands, queue, held, faults, late, expired>>

\* The node is freed, for the second time if it was freed meanwhile.
reply_delete(t) ==
  /\ reply[t].pc = "sent"
  /\ command_list_delete({reply[t].addr})
  /\ reply' = [reply EXCEPT ![t] = NoReply]
  /\ UNCHANGED <<dpc, commands, queue, held, faults, responses, late, expired>>

ReplyStep(t) == command_list_search(t) \/ send_response(t) \/ reply_delete(t)

-----------------------------------------------------------------------------
(* The cloud *)

\* A service call or a setting of measure points.
cloud_commands ==
  /\ commands < MaxCommands
  /\ commands' = commands + 1
  /\ queue' = Append(queue, commands')
  /\ UNCHANGED <<list, dpc, reply, held, faults, responses, late, expired>>

CommandInit ==
  /\ heap = [a \in Addrs |-> 0] /\ command_list = {} /\ command_list_num = 0
  /\ dpc = "idle"
  /\ reply = [t \in Repliers |-> NoReply]
  /\ commands = 0 /\ queue = <<>> /\ held = {} /\ faults = 0
  /\ responses = {} /\ late = FALSE /\ expired = FALSE

-----------------------------------------------------------------------------
(* Properties *)

\* The list holds at most CONFIG_COMMAND_LIST_MAXLEN nodes and its count is
\* exact, however insertions, replies, expiry and closing interleave: a count
\* that is too high would refuse commands for ever.  Until a node is freed
\* under a reply, which counts it twice.
CountExact ==
  ~late => /\ command_list_num = Cardinality(command_list)
           /\ command_list_num <= COMMAND_LIST_MAXLEN

\* As long as no command outlives CONFIG_SERVICE_REQUEST_TIMEOUT or its
\* session, no reply is refused and each response carries the id of the
\* command it is made for, although contexts are recognised by their address
\* alone and malloc uses the address of an answered command for a later one.
RepliedInTime ==
  ~expired =>
    /\ \A r \in responses : r.to = r.meant
    /\ \A t \in Repliers : reply[t].pc = "search" => reply[t].addr \in command_list

=============================================================================
