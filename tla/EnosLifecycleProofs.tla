------------------------ MODULE EnosLifecycleProofs ------------------------
(***************************************************************************)
(* Proofs about EnosLifecycle and the commands of EnosCommand in it, for   *)
(* any number of threads, sessions, commands and failures.                 *)
(***************************************************************************)
EXTENDS EnosLifecycle, FiniteSetTheorems, TLAPS

-----------------------------------------------------------------------------
(* The inductive invariant *)

\* The commands in the queue.
Queued == {queue[i] : i \in 1..Len(queue)}

\* A command is in one place: the queue, a context the application holds, or
\* a reply under way; and there once.
CommandInv ==
  /\ IsFiniteSet(command_list) /\ Len(queue) <= commands
  /\ \A i, j \in 1..Len(queue) : queue[i] = queue[j] => i = j
  /\ \A c \in Queued : c \in 1..commands
  /\ \A h \in held : h.cmd \in (1..commands) \ Queued /\ h.addr \in Addrs
  /\ \A g, h \in held : g.cmd = h.cmd => g = h
  /\ \A t \in Repliers : reply[t].pc # "idle" =>
       /\ reply[t].cmd \in (1..commands) \ Queued /\ reply[t].addr \in Addrs
       /\ \A h \in held : h.cmd # reply[t].cmd
  /\ \A t, u \in Repliers :
       reply[t].pc # "idle" /\ reply[u].pc # "idle" /\ reply[t].cmd = reply[u].cmd => t = u

\* Nodes of the list are allocated; a reply under way has the node it is for,
\* until one was made late.
ListInv ==
  /\ \A a \in command_list : heap[a] # 0
  /\ ~late => \A t \in InProgress :
       reply[t].addr \in command_list /\ heap[reply[t].addr] = reply[t].cmd
  /\ CountExact

\* Until a node is freed that nobody replied to, every context the application
\* holds or replies to is the address of the node of its command.
ContextInv ==
  ~expired =>
    /\ \A h \in held : h.addr \in command_list /\ heap[h.addr] = h.cmd
    /\ \A t \in Repliers : reply[t].pc # "idle" =>
         reply[t].addr \in command_list /\ heap[reply[t].addr] = reply[t].cmd
    /\ \A r \in responses : r.to = r.meant

Closing == {"cm_close", "cm_wait", "release", "unlock", "destroy", "memset"}

\* Where main is, what is open and what is released.
MainInv ==
  /\ is_opened => mutex = "alive" /\ dm /\ mpc \notin Closing
  /\ mpc \in {"connect", "connecting", "subscribing"} => is_opened
  /\ mpc \in {"connecting", "subscribing"} => is_connected
  /\ mpc \in Closing \ {"memset"} => mutex = "alive"
  /\ mpc \in {"unlock", "destroy", "memset"} => ~dm /\ ~connection /\ ~client
  /\ ~is_connected \/ mpc = "connecting" \/ mpc \in Closing \ {"cm_close"} => inited_conn_num = 0
  /\ yield_running => is_opened /\ mpc \in {"idle", "connect", "connecting", "subscribing"}
  /\ mpc = "memset" => command_list = {} /\ command_list_num = 0
  /\ ~is_opened /\ mpc \notin Closing =>
       /\ mutex # "alive" /\ ~dm /\ ~connection /\ ~client /\ ~is_connected
       /\ command_list = {} /\ command_list_num = 0
  /\ mutex = "destroyed" /\ mpc # "memset" => Main \in raced

\* Who holds ctx->mutex, and who may use what it protects.
LockInv ==
  /\ mpc \in {"connecting", "subscribing", "cm_close", "cm_wait", "release", "unlock"}
       => owner = Main
  /\ misuse = {} =>
       /\ \A c \in Callers : cpc[c] = "using" => owner = c /\ mutex = "alive" /\ dm
       /\ mpc \in {"destroy", "memset"} => owner = None
       /\ ypc = "dispatch" => dm
       /\ \A r \in Repliers : reply[r].pc = "sent" => dm

\* The windows of Close: the calls that were inside when it cleared is_opened,
\* and the yielder.
InsideInv == ~is_opened => Inside \subseteq raced

YielderInv ==
  Yielder \notin raced =>
    /\ ypc \in {"marked", "dispatch", "done"} => is_yield_running
    /\ mpc \in Closing \cup {"close_lock"} => ypc = "idle"

\* The threads of the connection manager: one that did not race is alone, has
\* said that it runs when it does, and is not in the client at the release.
CmInv ==
  /\ \A t \in Live \ raced :
       /\ Live = {t}
       /\ cm[t] \in {"loop", "yield"} => ~yield_task_leave
       /\ mpc = "release" => cm[t] \in {"created", "loop"}
  /\ ~yield_task_leave => Live # {}

LifeInv ==
  TypeOK /\ CommandInv /\ ListInv /\ ContextInv /\ MainInv /\ LockInv
  /\ InsideInv /\ YielderInv /\ CmInv /\ ClosedUnderNobody

-----------------------------------------------------------------------------
(* The queue *)

\* What the queue holds after a command is put in or taken out.
LEMMA QueueFacts ==
  ASSUME queue \in Seq(Command)
  PROVE  /\ \A c \in Command : queue' = Append(queue, c) =>
              /\ Queued' = Queued \cup {c} /\ Len(queue') = Len(queue) + 1
              /\ \A i \in 1..Len(queue) : queue'[i] = queue[i]
              /\ queue'[Len(queue) + 1] = c
              /\ queue' \in Seq(Command)
         /\ queue # <<>> /\ queue' = Tail(queue) =>
              /\ Head(queue) = queue[1] /\ Head(queue) \in Queued /\ Queued' \subseteq Queued
              /\ Len(queue') = Len(queue) - 1 /\ Len(queue) \in Nat \ {0}
              /\ \A i \in 1..Len(queue') : queue'[i] = queue[i + 1]
              /\ queue' \in Seq(Command)
         /\ Queued \subseteq Command /\ Len(queue) \in Nat
<1>1. ASSUME NEW c \in Command, queue' = Append(queue, c)
      PROVE  /\ Queued' = Queued \cup {c} /\ Len(queue') = Len(queue) + 1
             /\ \A i \in 1..Len(queue) : queue'[i] = queue[i]
             /\ queue'[Len(queue) + 1] = c
             /\ queue' \in Seq(Command)
  BY <1>1 DEF Queued
<1>2. ASSUME queue # <<>>, queue' = Tail(queue)
      PROVE  /\ Head(queue) = queue[1] /\ Head(queue) \in Queued /\ Queued' \subseteq Queued
             /\ Len(queue') = Len(queue) - 1 /\ Len(queue) \in Nat \ {0}
             /\ \A i \in 1..Len(queue') : queue'[i] = queue[i + 1]
             /\ queue' \in Seq(Command)
  <2>1. Len(queue) \in Nat \ {0} /\ Head(queue) = queue[1] /\ queue' \in Seq(Command)
    BY <1>2
  <2>2. Len(queue') = Len(queue) - 1 /\ \A i \in 1..Len(queue) - 1 : queue'[i] = queue[i + 1]
    BY <1>2, <2>1
  <2>3. 1 \in 1..Len(queue) /\ \A i \in 1..Len(queue) - 1 : i + 1 \in 1..Len(queue)
    BY <2>1
  <2> QED  BY <2>1, <2>2, <2>3 DEF Queued
<1>3. Queued \subseteq Command /\ Len(queue) \in Nat
  BY DEF Queued
<1> QED  BY <1>1, <1>2, <1>3

-----------------------------------------------------------------------------
(* A command is in one place *)

\* The dispatching thread takes the first command and hands it out.
LEMMA CallbackKeeps ==
  ASSUME CommandTypeOK, CommandInv, event_callback PROVE CommandInv'
<1> DEFINE c == Head(queue)
<1>0. queue \in Seq(Command) /\ queue # <<>> /\ queue' = Tail(queue) /\ UNCHANGED <<commands, reply>>
  BY DEF CommandTypeOK, event_callback
<1>1. /\ Head(queue) = queue[1] /\ Head(queue) \in Queued /\ Queued' \subseteq Queued
      /\ Len(queue') = Len(queue) - 1 /\ Len(queue) \in Nat \ {0}
      /\ \A i \in 1..Len(queue') : queue'[i] = queue[i + 1]
  BY <1>0, QueueFacts
<1>2. PICK ctx \in Addrs \cup {NoAddr} :
        /\ command_list_insert(c, ctx)
        /\ held' = IF ctx = NoAddr THEN held ELSE held \cup {[cmd |-> c, addr |-> ctx]}
  BY DEF event_callback
<1>3. c \in (1..commands) \ Queued'
  <2>1. \A i \in 1..Len(queue') : i + 1 \in 1..Len(queue) /\ i + 1 # 1 /\ 1 \in 1..Len(queue)
    BY <1>1
  <2>2. \A i \in 1..Len(queue') : queue'[i] # c
    BY <1>1, <2>1 DEF CommandInv
  <2>3. c \in 1..commands
    BY <1>1 DEF CommandInv
  <2> QED  BY <2>2, <2>3 DEF Queued
<1>4. IsFiniteSet(command_list')
  <2>1. command_list' = command_list \/ command_list' = command_list \cup {ctx}
    BY <1>2 DEF command_list_insert, list
  <2> QED  BY <2>1, FS_AddElement DEF CommandInv
<1>5. \A i, j \in 1..Len(queue') : queue'[i] = queue'[j] => i = j
  <2>1. \A i \in 1..Len(queue') : i + 1 \in 1..Len(queue) /\ i \in Int
    BY <1>1
  <2> QED  BY <1>1, <2>1 DEF CommandInv
<1>6. Len(queue') <= commands' /\ \A d \in Queued' : d \in 1..commands'
  <2>1. commands \in Nat
    BY CommandAssumption DEF CommandTypeOK, Command
  <2> QED  BY <1>0, <1>1, <2>1 DEF CommandInv
<1> DEFINE g == [cmd |-> c, addr |-> ctx]
<1>7. g.cmd = c /\ g.addr = ctx /\ \A h \in held' : h \in held \/ (h = g /\ ctx # NoAddr)
  BY <1>2
<1>8. \A h \in held : h.cmd # c
  BY <1>1 DEF CommandInv
<1>9. \A t \in Repliers : reply[t].pc # "idle" => reply[t].cmd # c
  BY <1>1 DEF CommandInv
<1> HIDE DEF c, g
<1>10. \A h \in held' : h.cmd \in (1..commands') \ Queued' /\ h.addr \in Addrs
  BY <1>0, <1>1, <1>2, <1>3, <1>7 DEF CommandInv
<1>11. \A x, h \in held' : x.cmd = h.cmd => x = h
  BY <1>7, <1>8 DEF CommandInv
<1>12. \A t \in Repliers : reply'[t].pc # "idle" =>
         /\ reply'[t].cmd \in (1..commands') \ Queued' /\ reply'[t].addr \in Addrs
         /\ \A h \in held' : h.cmd # reply'[t].cmd
  BY <1>0, <1>1, <1>7, <1>9 DEF CommandInv
<1>13. \A t, u \in Repliers :
         reply'[t].pc # "idle" /\ reply'[u].pc # "idle" /\ reply'[t].cmd = reply'[u].cmd => t = u
  BY <1>0 DEF CommandInv
<1> QED  BY <1>4, <1>5, <1>6, <1>10, <1>11, <1>12, <1>13 DEF CommandInv

\* A new command has a new number.
LEMMA ReceiveKeeps ==
  ASSUME CommandTypeOK, CommandInv, cloud_commands PROVE CommandInv'
<1> DEFINE c == commands + 1
<1>0. queue \in Seq(Command) /\ commands \in Nat /\ c \in Command /\ queue' = Append(queue, c)
      /\ commands' = c /\ UNCHANGED <<command_list, reply, held>>
  BY CommandAssumption DEF CommandTypeOK, cloud_commands, Command, list
<1>1. /\ Queued' = Queued \cup {c} /\ Len(queue') = Len(queue) + 1 /\ Len(queue) \in Nat
      /\ \A i \in 1..Len(queue) : queue'[i] = queue[i]
      /\ queue'[Len(queue) + 1] = c
  BY <1>0, QueueFacts
<1>2. \A d \in 1..commands : d \in 1..commands' /\ d # c
  BY <1>0
<1>3. \A i, j \in 1..Len(queue') : queue'[i] = queue'[j] => i = j
  <2>1. \A i \in 1..Len(queue') : i \in 1..Len(queue) \/ i = Len(queue) + 1
    BY <1>1
  <2>2. \A i \in 1..Len(queue) : queue[i] # c
    BY <1>2 DEF CommandInv, Queued
  <2> QED  BY <1>1, <2>1, <2>2 DEF CommandInv
<1>4. Len(queue') <= commands'
  BY <1>0, <1>1 DEF CommandInv
<1>5. \A d \in Queued' : d \in 1..commands'
  BY <1>0, <1>1, <1>2 DEF CommandInv
<1> HIDE DEF c
<1> QED  BY <1>0, <1>1, <1>2, <1>3, <1>4, <1>5 DEF CommandInv

\* A reply takes its context out of what the application holds.
LEMMA ReplyKeeps ==
  ASSUME CommandTypeOK, CommandInv, NEW t \in Repliers, NEW ctx \in held, command_reply(t, ctx)
  PROVE  CommandInv'
<1>0. /\ UNCHANGED <<command_list, queue, commands>> /\ held' = held \ {ctx} /\ ctx \in held
      /\ \A u \in Repliers : reply'[u] = IF u = t THEN [pc |-> "search", cmd |-> ctx.cmd, addr |-> ctx.addr]
                                         ELSE reply[u]
  BY DEF command_reply, list, CommandTypeOK
<1>1. Queued' = Queued
  BY <1>0 DEF Queued
<1>2. reply'[t].cmd = ctx.cmd /\ reply'[t].addr = ctx.addr
  BY <1>0
<1>3. \A u \in Repliers : u # t => reply'[u] = reply[u]
  BY <1>0
<1>4. \A h \in held' : h.cmd # ctx.cmd
  BY <1>0 DEF CommandInv
<1>5. \A u \in Repliers : reply'[u].pc # "idle" =>
         /\ reply'[u].cmd \in (1..commands') \ Queued' /\ reply'[u].addr \in Addrs
         /\ \A h \in held' : h.cmd # reply'[u].cmd
  BY <1>0, <1>1, <1>2, <1>3, <1>4 DEF CommandInv
<1>6. \A u, v \in Repliers :
         reply'[u].pc # "idle" /\ reply'[v].pc # "idle" /\ reply'[u].cmd = reply'[v].cmd => u = v
  BY <1>0, <1>2, <1>3 DEF CommandInv
<1> QED  BY <1>0, <1>1, <1>5, <1>6 DEF CommandInv

\* The other steps move no command to another place; some drop commands.
LEMMA OthersKeep ==
  ASSUME CommandTypeOK, CommandInv, IsFiniteSet(command_list'), UNCHANGED <<commands, held>>,
         queue' = queue \/ queue' = <<>>,
         \A t \in Repliers :
           reply'[t].pc = "idle" \/
           (reply[t].pc # "idle" /\ reply'[t].cmd = reply[t].cmd /\ reply'[t].addr = reply[t].addr)
  PROVE  CommandInv'
<1>1. Queued' \subseteq Queued /\ Len(queue') <= commands'
      /\ \A i, j \in 1..Len(queue') : queue'[i] = queue'[j] => i = j
  <2>1. CASE queue' = queue
    BY <2>1 DEF Queued, CommandInv
  <2>2. CASE queue' = <<>>
    BY <2>2, CommandAssumption DEF Queued, CommandTypeOK, Command
  <2> QED  BY <2>1, <2>2
<1> QED  BY <1>1 DEF CommandInv

\* The steps that touch the commands, and the list of their nodes.
LEMMA CommandCases ==
  ASSUME [Next]_vars
  PROVE  \/ UNCHANGED command_vars \/ (ypc = "dispatch" /\ event_callback) \/ cm_receives
         \/ Open \/ cm_connect \/ release \/ close_destroy \/ overtime_handle \/ dispatch_done
         \/ \E r \in Repliers : Reply(r) \/ ReplyStep(r)
<1>1. Connect \/ Close \/ master_connect \/ connected \/ close_test \/ close_lock \/ cm_close
      \/ cm_wait \/ close_unlock \/ close_memset \/ Yield => UNCHANGED command_vars
  BY DEF Connect, Close, master_connect, connected, close_test, close_lock, cm_close, cm_wait,
         close_unlock, close_memset, Yield
<1>2. (\E t \in CmThreads : CmStep(t)) \/ (\E c \in Callers : CallStep(c)) => UNCHANGED command_vars
  BY DEF CmStep, CallStep
<1>3. YieldStep => UNCHANGED command_vars \/ overtime_handle \/ dispatch_done
                   \/ (ypc = "dispatch" /\ event_callback)
  BY DEF YieldStep, yield_mark, yield_enters, yield_dispatch, yield_returns
<1>4. (\E r \in Repliers : Reply(r) \/ LifeReplyStep(r)) => \E r \in Repliers : Reply(r) \/ ReplyStep(r)
  BY DEF LifeReplyStep
<1>5. UNCHANGED vars => UNCHANGED command_vars
  BY DEF vars
<1> QED  BY <1>1, <1>2, <1>3, <1>4, <1>5 DEF Next, MainStep

\* No step puts a command in a second place.
LEMMA CommandStep ==
  ASSUME CommandTypeOK, CommandInv, [Next]_vars PROVE CommandInv'
<1> USE DEF list, command_vars, life_vars, vars
<1>0. IsFiniteSet(command_list) /\ IsFiniteSet({}) /\ \A S : IsFiniteSet(command_list \ S)
  BY FS_EmptySet, FS_Difference DEF CommandInv
<1>1. CASE ypc = "dispatch" /\ event_callback
  BY <1>1, CallbackKeeps
<1>2. CASE cm_receives
  BY <1>2, ReceiveKeeps DEF cm_receives
<1>3. CASE \E r \in Repliers : Reply(r)
  BY <1>3, ReplyKeeps DEF Reply
<1>4. CASE UNCHANGED command_vars
  BY <1>0, <1>4, OthersKeep
<1>5. CASE Open
  <2>1. IsFiniteSet(command_list')
    BY <1>0, <1>5 DEF Open, master_open, master_open_fails
  <2>2. UNCHANGED <<commands, held, reply>> /\ (queue' = queue \/ queue' = <<>>)
    BY <1>5 DEF Open, master_open, master_open_fails
  <2> QED  BY <2>1, <2>2, OthersKeep
<1>6. CASE cm_connect \/ release
  <2>1. UNCHANGED <<commands, held, reply, command_list>> /\ (queue' = queue \/ queue' = <<>>)
    BY <1>6 DEF cm_connect, release
  <2> QED  BY <1>0, <2>1, OthersKeep
<1>7. CASE close_destroy \/ overtime_handle
  <2>1. IsFiniteSet(command_list')
    BY <1>0, <1>7 DEF close_destroy, service_list_destroy, overtime_handle, command_list_delete
  <2>2. UNCHANGED <<commands, held, reply, queue>>
    BY <1>7 DEF close_destroy, overtime_handle
  <2> QED  BY <2>1, <2>2, OthersKeep
<1>8. CASE dispatch_done
  BY <1>0, <1>8, OthersKeep DEF dispatch_done
<1>9. ASSUME NEW r \in Repliers, ReplyStep(r) PROVE CommandInv'
  <2>1. IsFiniteSet(command_list') /\ UNCHANGED <<commands, held, queue>>
    BY <1>0, <1>9 DEF ReplyStep, command_list_search, send_response, reply_delete, command_list_delete
  <2>2. \A t \in Repliers :
           reply'[t].pc = "idle" \/
           (reply[t].pc # "idle" /\ reply'[t].cmd = reply[t].cmd /\ reply'[t].addr = reply[t].addr)
    BY <1>9 DEF ReplyStep, command_list_search, send_response, reply_delete, CommandTypeOK, NoReply
  <2> QED  BY <2>1, <2>2, OthersKeep
<1> QED
  BY <1>1, <1>2, <1>3, <1>4, <1>5, <1>6, <1>7, <1>8, <1>9, CommandCases

-----------------------------------------------------------------------------
(* The list of nodes and its count *)

\* The count after some of the nodes of the list, or all, are deleted.
LEMMA DeleteCount ==
  ASSUME CommandTypeOK, IsFiniteSet(command_list), NEW nodes \in SUBSET command_list,
         command_list_num = Cardinality(command_list), command_list_delete(nodes)
  PROVE  command_list_num' = Cardinality(command_list') /\ command_list_num' <= command_list_num
<1>1. IsFiniteSet(nodes) /\ IsFiniteSet(command_list \ nodes)
  BY FS_Subset, FS_Difference
<1>2. Cardinality(nodes) \in Nat /\ Cardinality(command_list) \in Nat
  BY <1>1, FS_CardinalityType
<1>3. Cardinality(command_list \ nodes) = Cardinality(command_list) - Cardinality(nodes)
  <2>1. command_list \cap nodes = nodes
    OBVIOUS
  <2> QED  BY <1>1, <2>1, FS_Difference
<1>4. Cardinality(nodes) <= Cardinality(command_list)
  BY FS_Subset
<1>5. command_list' = command_list \ nodes
  BY DEF command_list_delete
<1>6. command_list_num' = IF command_list_num > Cardinality(nodes)
                          THEN command_list_num - Cardinality(nodes) ELSE 0
  BY DEF command_list_delete, num_after
<1> QED  BY <1>2, <1>3, <1>4, <1>5, <1>6

\* A new node is at an address the list does not have.
LEMMA CallbackLists ==
  ASSUME CommandTypeOK, CommandInv, ListInv, event_callback PROVE ListInv'
<1> DEFINE c == Head(queue)
<1>0. /\ queue \in Seq(Command) /\ queue # <<>> /\ queue' = Tail(queue)
      /\ UNCHANGED <<commands, reply, late>>
  BY DEF CommandTypeOK, event_callback
<1>1. c \in 1..commands
  BY <1>0, QueueFacts DEF CommandInv
<1>2. PICK ctx \in Addrs \cup {NoAddr} : command_list_insert(c, ctx)
  BY DEF event_callback
<1> HIDE DEF c
<1>3. InProgress' = InProgress
  BY <1>0 DEF InProgress
<1>4. commands \in Nat /\ command_list \subseteq Addrs /\ heap \in [Addrs -> Command]
      /\ command_list_num \in 0..COMMAND_LIST_MAXLEN
  BY CommandAssumption DEF CommandTypeOK, Command
<1>5. CASE UNCHANGED list
  BY <1>0, <1>3, <1>5 DEF ListInv, list, CountExact
<1>6. CASE /\ ~list_full /\ ctx \in Addrs /\ heap[ctx] = 0
           /\ heap' = [heap EXCEPT ![ctx] = c]
           /\ command_list' = command_list \cup {ctx}
           /\ command_list_num' = command_list_num + 1
  <2>1. ctx \notin command_list /\ c # 0
    BY <1>1, <1>4, <1>6 DEF ListInv
  <2>2. /\ \A a \in command_list' : heap'[a] # 0
        /\ ~late' => \A t \in InProgress' :
             reply'[t].addr \in command_list' /\ heap'[reply'[t].addr] = reply'[t].cmd
    BY <1>0, <1>3, <1>4, <1>6, <2>1 DEF ListInv
  <2>3. IsFiniteSet(command_list)
    BY DEF CommandInv
  <2>4. Cardinality(command_list') = Cardinality(command_list) + 1
    BY <1>6, <2>1, <2>3, FS_AddElement
  <2>5. command_list_num' <= COMMAND_LIST_MAXLEN
    BY <1>4, <1>6, CommandAssumption DEF list_full
  <2> QED  BY <1>0, <1>4, <1>6, <2>2, <2>4, <2>5 DEF ListInv, CountExact
<1> QED  BY <1>2, <1>5, <1>6 DEF command_list_insert

\* The nodes that expire are deleted and counted out.
LEMMA OvertimeLists ==
  ASSUME CommandTypeOK, CommandInv, ListInv, overtime_handle PROVE ListInv'
<1>0. PICK nodes \in SUBSET command_list :
        /\ command_list_delete(nodes)
        /\ late' = (late \/ \E t \in InProgress : reply[t].addr \in nodes)
  BY DEF overtime_handle
<1>1. UNCHANGED reply /\ InProgress' = InProgress
  BY DEF overtime_handle, InProgress
<1>2. /\ heap' = [a \in Addrs |-> IF a \in nodes THEN 0 ELSE heap[a]]
      /\ command_list' = command_list \ nodes /\ command_list \subseteq Addrs
  BY <1>0 DEF command_list_delete, CommandTypeOK
<1>3. /\ \A a \in command_list' : heap'[a] # 0
      /\ ~late' => \A t \in InProgress' :
           reply'[t].addr \in command_list' /\ heap'[reply'[t].addr] = reply'[t].cmd
  BY <1>0, <1>1, <1>2 DEF ListInv
<1>4. CountExact'
  <2>1. SUFFICES ASSUME ~late'
                 PROVE  command_list_num' = Cardinality(command_list') /\ command_list_num' <= COMMAND_LIST_MAXLEN
    BY DEF CountExact
  <2>2. ~late
    BY <1>0, <2>1
  <2>3. command_list_num = Cardinality(command_list) /\ command_list_num <= COMMAND_LIST_MAXLEN
    BY <2>2 DEF ListInv, CountExact
  <2>4. command_list_num' = Cardinality(command_list') /\ command_list_num' <= command_list_num
    BY <1>0, <2>3, DeleteCount DEF CommandInv
  <2>5. command_list_num' \in Int /\ command_list_num \in Int
    <3>1. IsFiniteSet(command_list \ nodes)
      BY FS_Difference DEF CommandInv
    <3> QED  BY <1>2, <2>4, <3>1, FS_CardinalityType, CommandAssumption DEF CommandTypeOK
  <2> QED  BY <2>3, <2>4, <2>5, CommandAssumption
<1> QED  BY <1>3, <1>4 DEF ListInv

\* A reply finds its own node and deletes it, until late.
LEMMA ReplyLists ==
  ASSUME CommandTypeOK, CommandInv, ListInv, NEW r \in Repliers, ReplyStep(r) PROVE ListInv'
<1>1. CASE command_list_search(r)
  <2>1. UNCHANGED <<heap, command_list, command_list_num>>
    BY <1>1 DEF command_list_search, list
  <2>2. \A t \in Repliers : t # r => reply'[t] = reply[t]
    BY <1>1 DEF command_list_search, CommandTypeOK
  <2>3. \/ reply[r].addr \notin command_list /\ reply'[r].pc = "idle"
        \/ /\ reply[r].addr \in command_list
           /\ reply'[r].cmd = reply[r].cmd /\ reply'[r].addr = reply[r].addr
    BY <1>1 DEF command_list_search, CommandTypeOK, NoReply
  <2>4. late' = (late \/ (reply[r].addr \in command_list /\ Gone(reply[r])))
    BY <1>1 DEF command_list_search
  <2>5. CountExact' /\ \A a \in command_list' : heap'[a] # 0
    BY <2>1, <2>4 DEF ListInv, CountExact
  <2>6. ASSUME ~late', NEW t \in InProgress'
        PROVE  reply'[t].addr \in command_list' /\ heap'[reply'[t].addr] = reply'[t].cmd
    <3>1. t \in Repliers /\ reply'[t].pc \in {"found", "sent"}
      BY <2>6 DEF InProgress
    <3>2. CASE t = r
      BY <2>1, <2>3, <2>4, <2>6, <3>1, <3>2 DEF Gone
    <3>3. CASE t # r
      <4>1. t \in InProgress
        BY <2>2, <3>1, <3>3 DEF InProgress
      <4> QED  BY <2>1, <2>2, <2>4, <2>6, <3>1, <3>3, <4>1 DEF ListInv
    <3> QED  BY <3>2, <3>3
  <2> QED  BY <2>5, <2>6 DEF ListInv
<1>2. CASE send_response(r)
  <2>1. UNCHANGED <<heap, command_list, command_list_num, late>> /\ reply[r].pc = "found"
    BY <1>2 DEF send_response, list
  <2>2. \A t \in Repliers : /\ t # r => reply'[t] = reply[t]
                            /\ reply'[t].cmd = reply[t].cmd /\ reply'[t].addr = reply[t].addr
    BY <1>2 DEF send_response, CommandTypeOK
  <2>3. InProgress' \subseteq InProgress /\ r \in InProgress
    BY <2>1, <2>2 DEF InProgress
  <2>4. \A t \in InProgress' : t \in InProgress /\ t \in Repliers
    BY <2>3 DEF InProgress
  <2> QED  BY <2>1, <2>2, <2>4 DEF ListInv, CountExact
<1>3. CASE reply_delete(r)
  <2>1. command_list_delete({reply[r].addr}) /\ UNCHANGED late /\ reply[r].pc = "sent"
    BY <1>3 DEF reply_delete
  <2>2. r \in InProgress /\ reply[r].addr \in Addrs
    BY <2>1 DEF InProgress, CommandInv
  <2>3. \A t \in Repliers : t # r => reply'[t] = reply[t]
    BY <1>3 DEF reply_delete, CommandTypeOK
  <2>4. reply'[r].pc = "idle"
    BY <1>3 DEF reply_delete, CommandTypeOK, NoReply
  <2>5. InProgress' \subseteq InProgress \ {r}
    BY <2>3, <2>4 DEF InProgress
  <2>6. /\ heap' = [a \in Addrs |-> IF a = reply[r].addr THEN 0 ELSE heap[a]]
        /\ command_list' = command_list \ {reply[r].addr} /\ command_list \subseteq Addrs
    BY <2>1 DEF command_list_delete, CommandTypeOK
  <2>7. ASSUME ~late, NEW t \in InProgress, t # r PROVE reply[t].addr # reply[r].addr
    <3>1. heap[reply[t].addr] = reply[t].cmd /\ heap[reply[r].addr] = reply[r].cmd
      BY <2>2, <2>7 DEF ListInv
    <3>2. t \in Repliers /\ reply[t].pc # "idle" /\ reply[r].pc # "idle"
      BY <2>1, <2>7 DEF InProgress
    <3>3. reply[t].cmd # reply[r].cmd
      BY <2>7, <3>2 DEF CommandInv
    <3> QED  BY <3>1, <3>3
  <2>8. InProgress' \subseteq Repliers
    BY DEF InProgress
  <2>9. /\ \A a \in command_list' : heap'[a] # 0
        /\ ~late' => \A t \in InProgress' :
             reply'[t].addr \in command_list' /\ heap'[reply'[t].addr] = reply'[t].cmd
    BY <2>1, <2>3, <2>5, <2>6, <2>7, <2>8 DEF ListInv
  <2>10. CountExact'
    <3>1. SUFFICES ASSUME ~late
                   PROVE  command_list_num' = Cardinality(command_list') /\ command_list_num' <= COMMAND_LIST_MAXLEN
      BY <2>1 DEF CountExact
    <3>2. {reply[r].addr} \in SUBSET command_list
      BY <2>2, <3>1 DEF ListInv
    <3>3. command_list_num = Cardinality(command_list) /\ command_list_num <= COMMAND_LIST_MAXLEN
      BY <3>1 DEF ListInv, CountExact
    <3>4. command_list_num' = Cardinality(command_list') /\ command_list_num' <= command_list_num
      BY <2>1, <3>2, <3>3, DeleteCount DEF CommandInv
    <3>5. command_list_num' \in Int /\ command_list_num \in Int
      <4>1. IsFiniteSet(command_list \ {reply[r].addr})
        BY FS_Difference DEF CommandInv
      <4> QED  BY <2>6, <3>4, <4>1, FS_CardinalityType, CommandAssumption DEF CommandTypeOK
    <3> QED  BY <3>3, <3>4, <3>5, CommandAssumption
  <2> QED  BY <2>9, <2>10 DEF ListInv
<1> QED  BY <1>1, <1>2, <1>3 DEF ReplyStep

\* Every step keeps the list allocated, the replies at their nodes and the count exact.
LEMMA ListStep ==
  ASSUME CommandTypeOK, CommandInv, ListInv, MainInv, [Next]_vars PROVE ListInv'
<1>0. Cardinality({}) = 0
  BY FS_EmptySet
<1>1. CASE UNCHANGED list /\ UNCHANGED <<reply, late>>
  BY <1>1 DEF list, ListInv, CountExact, InProgress
<1>2. CASE Open
  <2>1. UNCHANGED <<heap, reply, late>> /\ command_list = {} /\ command_list_num = 0
    BY <1>2 DEF Open, master_open, master_open_fails, MainInv, Closing
  <2>2. command_list' = {} /\ command_list_num' = 0
    BY <1>2, <2>1 DEF Open, master_open, master_open_fails
  <2>3. InProgress' = InProgress
    BY <2>1 DEF InProgress
  <2> QED  BY <2>1, <2>2, <2>3 DEF ListInv, CountExact
<1>3. CASE close_destroy
  <2>1. /\ UNCHANGED reply /\ command_list' = {} /\ command_list_num' = 0
        /\ late' = (late \/ InProgress # {}) /\ InProgress' = InProgress
    BY <1>3 DEF close_destroy, service_list_destroy, InProgress
  <2>2. ~late' => ~late /\ InProgress' = {}
    BY <2>1
  <2>3. CountExact'
    BY <1>0, <2>1, <2>2, CommandAssumption DEF ListInv, CountExact
  <2> QED  BY <2>1, <2>2, <2>3 DEF ListInv
<1>4. CASE cm_receives \/ cm_connect \/ release \/ dispatch_done \/ \E r \in Repliers : Reply(r)
  <2>1. UNCHANGED list /\ UNCHANGED late
    BY <1>4 DEF cm_receives, cloud_commands, cm_connect, release, dispatch_done, Reply, command_reply
  <2>2. \A t \in Repliers : reply'[t] = reply[t] \/ reply'[t].pc = "search"
    BY <1>4 DEF cm_receives, cloud_commands, cm_connect, release, dispatch_done, Reply, command_reply,
                CommandTypeOK
  <2>3. \A t \in InProgress' : t \in InProgress /\ reply'[t] = reply[t]
    BY <2>2 DEF InProgress
  <2> QED  BY <2>1, <2>3 DEF list, ListInv, CountExact
<1> QED
  BY <1>1, <1>2, <1>3, <1>4, CommandCases, CallbackLists, OvertimeLists, ReplyLists DEF command_vars

-----------------------------------------------------------------------------
(* Contexts *)

\* A reply leaves the contexts of the other commands their nodes.
LEMMA ReplyContexts ==
  ASSUME CommandTypeOK, CommandInv, ContextInv, ~expired, NEW r \in Repliers, ReplyStep(r)
  PROVE  ContextInv'
<1>1. UNCHANGED held /\ \A t \in Repliers : t # r => reply'[t] = reply[t]
  BY DEF ReplyStep, command_list_search, send_response, reply_delete, CommandTypeOK
<1>2. reply[r].pc # "idle" /\ reply[r].addr \in command_list /\ heap[reply[r].addr] = reply[r].cmd
  BY DEF ReplyStep, command_list_search, send_response, reply_delete, ContextInv
<1>3. CASE command_list_search(r)
  <2>1. UNCHANGED <<heap, command_list, responses>>
    BY <1>3 DEF command_list_search, list
  <2>2. reply'[r].cmd = reply[r].cmd /\ reply'[r].addr = reply[r].addr
    BY <1>2, <1>3 DEF command_list_search, CommandTypeOK
  <2> QED  BY <1>1, <1>2, <2>1, <2>2 DEF ContextInv
<1>4. CASE send_response(r)
  <2> DEFINE n == [to |-> response_id(r), meant |-> reply[r].cmd]
  <2>1. UNCHANGED <<heap, command_list>> /\ responses' = responses \cup {n}
    BY <1>4 DEF send_response, list
  <2>2. n.to = n.meant
    BY <1>2 DEF response_id
  <2> HIDE DEF n
  <2>3. reply'[r].cmd = reply[r].cmd /\ reply'[r].addr = reply[r].addr
    BY <1>4 DEF send_response, CommandTypeOK
  <2> QED  BY <1>1, <1>2, <2>1, <2>2, <2>3 DEF ContextInv
<1>5. CASE reply_delete(r)
  <2>1. /\ UNCHANGED responses /\ reply'[r].pc = "idle"
        /\ command_list' = command_list \ {reply[r].addr}
        /\ \A a \in Addrs \ {reply[r].addr} : heap'[a] = heap[a]
    BY <1>5 DEF reply_delete, command_list_delete, CommandTypeOK, NoReply
  <2>2. \A h \in held : h.addr # reply[r].addr /\ h.addr \in Addrs
    BY <1>2 DEF ContextInv, CommandInv
  <2>3. \A t \in Repliers : t # r /\ reply[t].pc # "idle" =>
          reply[t].addr # reply[r].addr /\ reply[t].addr \in Addrs
    BY <1>2 DEF ContextInv, CommandInv
  <2> QED  BY <1>1, <2>1, <2>2, <2>3 DEF ContextInv
<1> QED  BY <1>3, <1>4, <1>5 DEF ReplyStep

\* A context is a node's address from the insertion to the end of the reply,
\* or to the first expiry.
LEMMA ContextStep ==
  ASSUME CommandTypeOK, CommandInv, ListInv, ContextInv, MainInv, [Next]_vars PROVE ContextInv'
<1>1. CASE UNCHANGED command_vars \/ cm_receives \/ cm_connect \/ release \/ dispatch_done
  <2>1. UNCHANGED <<heap, command_list, reply, held, responses, expired>>
    BY <1>1 DEF command_vars, list, cm_receives, cloud_commands, cm_connect, release, dispatch_done
  <2> QED  BY <2>1 DEF ContextInv
<1>2. CASE Open
  <2>1. UNCHANGED <<heap, reply, held, responses, expired>> /\ command_list = {}
    BY <1>2 DEF Open, master_open, master_open_fails, MainInv, Closing
  <2>2. command_list' = {}
    BY <1>2, <2>1 DEF Open, master_open, master_open_fails
  <2> QED  BY <2>1, <2>2 DEF ContextInv
<1>3. CASE close_destroy
  <2>1. /\ UNCHANGED <<reply, held, responses>> /\ command_list' = {}
        /\ expired' = (expired \/ command_list # {})
    BY <1>3 DEF close_destroy, service_list_destroy
  <2> QED  BY <2>1 DEF ContextInv
<1>4. CASE overtime_handle
  <2>1. PICK nodes \in SUBSET command_list :
          command_list_delete(nodes) /\ expired' = (expired \/ nodes # {})
    BY <1>4 DEF overtime_handle
  <2>2. UNCHANGED <<reply, held, responses>>
    BY <1>4 DEF overtime_handle
  <2>3. ~expired' => command_list' = command_list /\ \A a \in Addrs : heap'[a] = heap[a]
    BY <2>1 DEF command_list_delete
  <2>4. ~expired' => ~expired /\ command_list \subseteq Addrs
    BY <2>1 DEF CommandTypeOK
  <2> QED  BY <2>2, <2>3, <2>4 DEF ContextInv
<1>5. CASE event_callback
  <2> DEFINE c == Head(queue)
  <2>1. UNCHANGED <<reply, responses, expired>>
    BY <1>5 DEF event_callback
  <2>2. PICK ctx \in Addrs \cup {NoAddr} :
          /\ command_list_insert(c, ctx)
          /\ held' = IF ctx = NoAddr THEN held ELSE held \cup {[cmd |-> c, addr |-> ctx]}
    BY <1>5 DEF event_callback
  <2> HIDE DEF c
  <2>3. CASE ctx = NoAddr
    <3>1. UNCHANGED <<heap, command_list, held>>
      BY <2>2, <2>3, CommandAssumption DEF command_list_insert, list
    <3> QED  BY <2>1, <3>1 DEF ContextInv
  <2>4. CASE ctx # NoAddr
    <3>1. ctx \in Addrs /\ heap[ctx] = 0 /\ heap' = [heap EXCEPT ![ctx] = c]
          /\ command_list' = command_list \cup {ctx}
      BY <2>2, <2>4 DEF command_list_insert
    <3>2. ctx \notin command_list /\ command_list \subseteq Addrs
      BY <3>1 DEF ListInv, CommandTypeOK
    <3>3. heap'[ctx] = c /\ \A a \in command_list : heap'[a] = heap[a]
      BY <3>1, <3>2 DEF CommandTypeOK
    <3> QED  BY <2>1, <2>2, <2>4, <3>1, <3>3 DEF ContextInv
  <2> QED  BY <2>3, <2>4
<1>6. ASSUME NEW r \in Repliers, Reply(r) PROVE ContextInv'
  <2>1. PICK ctx \in held : command_reply(r, ctx)
    BY <1>6 DEF Reply
  <2>2. /\ UNCHANGED <<heap, command_list, responses, expired>> /\ held' = held \ {ctx}
        /\ reply'[r].cmd = ctx.cmd /\ reply'[r].addr = ctx.addr
        /\ \A t \in Repliers : t # r => reply'[t] = reply[t]
    BY <2>1 DEF command_reply, list, CommandTypeOK
  <2> QED  BY <2>2 DEF ContextInv
<1>7. ASSUME NEW r \in Repliers, ReplyStep(r) PROVE ContextInv'
  <2>1. UNCHANGED expired
    BY <1>7 DEF ReplyStep, command_list_search, send_response, reply_delete
  <2> QED  BY <1>7, <2>1, ReplyContexts DEF ContextInv
<1> QED
  BY <1>1, <1>2, <1>3, <1>4, <1>5, <1>6, <1>7, CommandCases

-----------------------------------------------------------------------------
(* Types *)

\* The variables of the commands keep their types.
LEMMA CommandTypes ==
  ASSUME CommandTypeOK, CommandInv, [Next]_vars PROVE CommandTypeOK'
<1> USE CommandAssumption DEF Fault
<1>0. /\ COMMAND_LIST_MAXLEN \in Nat /\ command_list_num \in 0..COMMAND_LIST_MAXLEN
      /\ IsFiniteSet(command_list) /\ 0 \in Command /\ commands \in Nat
  BY DEF CommandTypeOK, CommandInv, Command
<1>1. CASE UNCHANGED command_vars
  BY <1>1 DEF command_vars, list, CommandTypeOK
<1>2. CASE event_callback
  <2> DEFINE c == Head(queue)
  <2>1. queue \in Seq(Command) /\ queue # <<>> /\ queue' = Tail(queue)
    BY <1>2 DEF CommandTypeOK, event_callback
  <2>2. c \in Command /\ queue' \in Seq(Command) /\ Len(queue') = Len(queue) - 1 /\ Len(queue) \in Nat
    BY <2>1, QueueFacts
  <2>3. PICK ctx \in Addrs \cup {NoAddr} :
          /\ command_list_insert(c, ctx)
          /\ held' = IF ctx = NoAddr THEN held ELSE held \cup {[cmd |-> c, addr |-> ctx]}
    BY <1>2 DEF event_callback
  <2> HIDE DEF c
  <2>4. heap' \in [Addrs -> Command] /\ command_list' \subseteq Addrs
        /\ command_list_num' \in 0..COMMAND_LIST_MAXLEN
    BY <1>0, <2>2, <2>3 DEF command_list_insert, CommandTypeOK, list, list_full
  <2>5. faults' \in 0..MaxFaults
    BY <2>3 DEF command_list_insert, CommandTypeOK
  <2>6. held' \subseteq Context
    <3>1. [cmd |-> c, addr |-> ctx] \in Context
      BY <2>2 DEF Context
    <3> QED  BY <2>3, <3>1 DEF CommandTypeOK
  <2>7. Len(queue') <= MaxCommands
    BY <2>2 DEF CommandTypeOK
  <2> QED  BY <1>2, <2>2, <2>4, <2>5, <2>6, <2>7 DEF event_callback, CommandTypeOK
<1>3. CASE cm_receives
  <2>1. cloud_commands /\ queue \in Seq(Command)
    BY <1>3 DEF cm_receives, CommandTypeOK
  <2>2. commands' = commands + 1 /\ commands' \in Command /\ queue' = Append(queue, commands')
    BY <1>0, <2>1 DEF cloud_commands, Command
  <2>3. queue' \in Seq(Command) /\ Len(queue') = Len(queue) + 1 /\ Len(queue) \in Nat
    BY <2>1, <2>2, QueueFacts
  <2>4. Len(queue') <= MaxCommands
    BY <1>0, <2>1, <2>3 DEF cloud_commands, CommandInv
  <2> QED  BY <2>1, <2>2, <2>3, <2>4 DEF cloud_commands, list, CommandTypeOK
<1>4. CASE Open
  <2>1. queue' \in Seq(Command) /\ Len(queue') <= MaxCommands
    <3>1. CASE queue' = <<>>
      BY <3>1
    <3>2. CASE queue' = queue
      BY <3>2 DEF CommandTypeOK
    <3> QED  BY <1>4, <3>1, <3>2 DEF Open, master_open, master_open_fails
  <2>2. faults' \in 0..MaxFaults /\ command_list' \subseteq Addrs
        /\ command_list_num' \in 0..COMMAND_LIST_MAXLEN
    BY <1>0, <1>4 DEF Open, master_open, master_open_fails, CommandTypeOK
  <2> QED  BY <1>4, <2>1, <2>2 DEF Open, CommandTypeOK
<1>5. CASE cm_connect
  <2>1. faults' \in 0..MaxFaults
    BY <1>5 DEF cm_connect, CommandTypeOK
  <2> QED  BY <1>5, <2>1 DEF cm_connect, list, CommandTypeOK
<1>6. CASE release
  <2>1. queue' \in Seq(Command) /\ Len(queue') <= MaxCommands
    BY <1>6 DEF release
  <2> QED  BY <1>6, <2>1 DEF release, list, CommandTypeOK
<1>7. CASE close_destroy
  BY <1>0, <1>7 DEF close_destroy, service_list_destroy, CommandTypeOK
<1>8. CASE overtime_handle
  <2>1. PICK nodes \in SUBSET command_list :
          /\ command_list_delete(nodes)
          /\ late' = (late \/ \E t \in InProgress : reply[t].addr \in nodes)
    BY <1>8 DEF overtime_handle
  <2>2. Cardinality(nodes) \in Nat
    BY <1>0, FS_Subset, FS_CardinalityType
  <2>3. /\ heap' \in [Addrs -> Command] /\ command_list' \subseteq Addrs
        /\ command_list_num' \in 0..COMMAND_LIST_MAXLEN
    BY <1>0, <2>1, <2>2 DEF command_list_delete, num_after, CommandTypeOK
  <2> QED  BY <1>8, <2>1, <2>3 DEF overtime_handle, CommandTypeOK
<1>9. CASE dispatch_done
  BY <1>9 DEF dispatch_done, list, CommandTypeOK
<1>10. ASSUME NEW r \in Repliers, Reply(r) PROVE CommandTypeOK'
  <2>1. PICK ctx \in held : command_reply(r, ctx)
    BY <1>10 DEF Reply
  <2>2. ctx.cmd \in Command /\ ctx.addr \in Addrs \cup {NoAddr}
    BY <2>1 DEF CommandTypeOK, Context
  <2> QED  BY <2>1, <2>2 DEF command_reply, list, CommandTypeOK
<1>11. ASSUME NEW r \in Repliers, ReplyStep(r) PROVE CommandTypeOK'
  <2>1. CASE command_list_search(r)
    BY <1>0, <2>1 DEF command_list_search, list, CommandTypeOK, NoReply
  <2>2. CASE send_response(r)
    <3> DEFINE n == [to |-> response_id(r), meant |-> reply[r].cmd]
    <3>1. reply[r].addr \in Addrs
      BY <2>2 DEF send_response, CommandInv
    <3>2. n \in [to : Command, meant : Command]
      BY <3>1 DEF response_id, CommandTypeOK
    <3>3. responses' = responses \cup {n}
      BY <2>2 DEF send_response
    <3> HIDE DEF n
    <3> QED  BY <2>2, <3>2, <3>3 DEF send_response, list, CommandTypeOK
  <2>3. CASE reply_delete(r)
    <3>1. Cardinality({reply[r].addr}) = 1
      BY FS_Singleton
    <3>2. /\ heap' \in [Addrs -> Command] /\ command_list' \subseteq Addrs
          /\ command_list_num' \in 0..COMMAND_LIST_MAXLEN
      BY <1>0, <2>3, <3>1 DEF reply_delete, command_list_delete, num_after, CommandTypeOK
    <3> QED  BY <1>0, <2>3, <3>2 DEF reply_delete, CommandTypeOK, NoReply
  <2> QED  BY <1>11, <2>1, <2>2, <2>3 DEF ReplyStep
<1> QED
  BY <1>1, <1>2, <1>3, <1>4, <1>5, <1>6, <1>7, <1>8, <1>9, <1>10, <1>11, CommandCases

\* The flags, and the rest of the state of EnosLifecycle.
FlagTypeOK ==
  /\ is_opened \in BOOLEAN /\ is_connected \in BOOLEAN
  /\ yield_running \in BOOLEAN /\ is_yield_running \in BOOLEAN
  /\ dm \in BOOLEAN /\ connection \in BOOLEAN /\ client \in BOOLEAN
  /\ yield_task_leave \in BOOLEAN

PlaceTypeOK ==
  /\ mutex \in {"null", "alive", "destroyed"}
  /\ owner \in Callers \cup {None, Main}
  /\ inited_conn_num \in 0..1
  /\ cm \in [CmThreads -> {"none", "created", "early", "loop", "yield"}]
  /\ mpc \in {"idle", "connect", "connecting", "subscribing", "close", "close_lock",
              "cm_close", "cm_wait", "release", "unlock", "destroy", "memset"}
  /\ ypc \in {"idle", "tested", "marked", "dispatch", "done"}
  /\ cpc \in [Callers -> {"idle", "passed", "using"}]
  /\ opens \in 0..MaxOpens
  /\ raced \subseteq Threads /\ misuse \subseteq Threads

\* The flags stay Boolean.
LEMMA FlagTypes ==
  ASSUME FlagTypeOK, [Next]_vars PROVE FlagTypeOK'
<1> USE DEF FlagTypeOK, ctx_flags, cm_vars
<1>1. CASE Open
  BY <1>1, Zenon DEF Open, master_open, master_open_fails
<1>2. CASE Connect \/ Close
  BY <1>2, Zenon DEF Connect, Close
<1>3. CASE master_connect \/ connected
  BY <1>3, Zenon DEF master_connect, connected
<1>4. CASE cm_connect
  BY <1>4, Zenon DEF cm_connect
<1>5. CASE close_test \/ cm_close \/ close_unlock
  BY <1>5, Zenon DEF close_test, cm_close, close_unlock
<1>6. CASE close_lock
  BY <1>6, Zenon DEF close_lock
<1>7. CASE close_memset
  BY <1>7, Zenon DEF close_memset
<1>8. CASE cm_wait
  BY <1>8, Zenon DEF cm_wait
<1>9. CASE release
  BY <1>9, Zenon DEF release, client_released
<1>10. CASE close_destroy
  BY <1>10, Zenon DEF close_destroy
<1>11. ASSUME NEW t \in CmThreads, CmStep(t) PROVE FlagTypeOK'
  BY <1>11, Zenon DEF CmStep, cm_start, cm_yield, cm_yielded, cm_leave, left
<1>12. CASE Yield /\ UNCHANGED <<mutex, owner, dm, cm_vars, mpc, cpc, opens>>
  BY <1>12, Zenon DEF Yield
<1>13. CASE YieldStep
  BY <1>13, Zenon DEF YieldStep, yield_mark, yield_enters, yield_dispatch, yield_returns
<1>14. ASSUME NEW c \in Callers,
              \/ Call(c) /\ UNCHANGED <<ctx_flags, mutex, dm, cm_vars, mpc, ypc, opens, command_vars>>
              \/ CallStep(c)
       PROVE FlagTypeOK'
  BY <1>14, Zenon DEF CallStep
<1>15. ASSUME NEW r \in Repliers, LifeReplyStep(r) PROVE FlagTypeOK'
  BY <1>15, Zenon DEF LifeReplyStep
<1>16. CASE cm_receives \/ \E r \in Repliers : Reply(r)
  BY <1>16, Zenon DEF cm_receives, Reply, life_vars
<1>17. CASE UNCHANGED vars
  BY <1>17, Zenon DEF vars, life_vars
<1> HIDE DEF FlagTypeOK, ctx_flags, cm_vars
<1> QED
  BY <1>1, <1>2, <1>3, <1>4, <1>5, <1>6, <1>7, <1>8, <1>9, <1>10, <1>11, <1>12, <1>13, <1>14,
     <1>15, <1>16, <1>17 DEF Next, MainStep

\* Threads stay in places the code has, and one connection is counted at most.
LEMMA PlaceTypes ==
  ASSUME PlaceTypeOK, MainInv, [Next]_vars PROVE PlaceTypeOK'
<1> USE LifecycleAssumption DEF PlaceTypeOK, ctx_flags, cm_vars
<1>1. CASE Open
  BY <1>1 DEF Open, master_open, master_open_fails, Threads
<1>2. CASE Connect \/ Close
  BY <1>2 DEF Connect, Close
<1>3. CASE master_connect \/ connected
  BY <1>3 DEF master_connect, connected
<1>4. CASE cm_connect
  <2>1. inited_conn_num = 0
    BY <1>4 DEF cm_connect, MainInv
  <2>2. inited_conn_num' \in 0..1
    BY <1>4, <2>1 DEF cm_connect, create_undone
  <2>3. cm' \in [CmThreads -> {"none", "created", "early", "loop", "yield"}] /\ raced' \subseteq Threads
    BY <1>4 DEF cm_connect, Live, Threads
  <2> QED  BY <1>4, <2>2, <2>3 DEF cm_connect
<1>5. CASE close_test
  BY <1>5 DEF close_test, Threads
<1>6. CASE close_lock
  <2>1. Inside \subseteq Threads /\ Main \in Threads
    BY DEF Inside, Threads
  <2> QED  BY <1>6, <2>1 DEF close_lock
<1>7. CASE cm_close \/ close_unlock \/ close_memset
  BY <1>7 DEF cm_close, close_unlock, close_memset
<1>8. CASE cm_wait
  BY <1>8 DEF cm_wait, Threads
<1>9. CASE release
  <2>1. UsersAtRelease \subseteq Threads
    BY DEF UsersAtRelease, Threads, InProgress
  <2> QED  BY <1>9, <2>1 DEF release
<1>10. CASE close_destroy
  BY <1>10 DEF close_destroy, Threads
<1>11. ASSUME NEW t \in CmThreads, CmStep(t) PROVE PlaceTypeOK'
  BY <1>11 DEF CmStep, cm_start, cm_yield, cm_yielded, cm_leave
<1>12. CASE Yield /\ UNCHANGED <<mutex, owner, dm, cm_vars, mpc, cpc, opens>>
  BY <1>12 DEF Yield
<1>13. CASE YieldStep
  BY <1>13 DEF YieldStep, yield_mark, yield_enters, yield_dispatch, yield_returns, Threads
<1>14. ASSUME NEW c \in Callers,
              \/ Call(c) /\ UNCHANGED <<ctx_flags, mutex, dm, cm_vars, mpc, ypc, opens, command_vars>>
              \/ CallStep(c)
       PROVE PlaceTypeOK'
  BY <1>14 DEF Call, CallStep, call_lock, call_returns, locked_by, Threads
<1>15. ASSUME NEW r \in Repliers, LifeReplyStep(r) PROVE PlaceTypeOK'
  BY <1>15 DEF LifeReplyStep, Threads
<1>16. CASE cm_receives \/ \E r \in Repliers : Reply(r)
  BY <1>16 DEF cm_receives, Reply, life_vars
<1>17. CASE UNCHANGED vars
  BY <1>17 DEF vars, life_vars
<1> HIDE DEF PlaceTypeOK, ctx_flags, cm_vars
<1> QED
  BY <1>1, <1>2, <1>3, <1>4, <1>5, <1>6, <1>7, <1>8, <1>9, <1>10, <1>11, <1>12, <1>13, <1>14,
     <1>15, <1>16, <1>17 DEF Next, MainStep

\* Every variable keeps its type.
LEMMA TypeStep ==
  ASSUME TypeOK, CommandInv, MainInv, [Next]_vars PROVE TypeOK'
<1>1. LifeTypeOK <=> FlagTypeOK /\ PlaceTypeOK
  BY Zenon DEF LifeTypeOK, FlagTypeOK, PlaceTypeOK
<1>2. (LifeTypeOK <=> FlagTypeOK /\ PlaceTypeOK)'
  BY Zenon DEF LifeTypeOK, FlagTypeOK, PlaceTypeOK
<1> QED  BY <1>1, <1>2, CommandTypes, FlagTypes, PlaceTypes DEF TypeOK

-----------------------------------------------------------------------------
(* The flags and what they stand for *)

\* The steps of the other threads leave main, what it opens and the flags
\* but is_yield_running alone.
LEMMA OtherThreads ==
  ASSUME Next
  PROVE  \/ Open \/ Connect \/ Close \/ MainStep
         \/ UNCHANGED <<is_opened, is_connected, yield_running, mutex, dm, connection, client,
                        inited_conn_num, mpc>>
<1> USE DEF ctx_flags, cm_vars, life_vars
<1>1. ASSUME NEW t \in CmThreads, CmStep(t)
      PROVE  UNCHANGED <<is_opened, is_connected, yield_running, mutex, dm, connection, client,
                         inited_conn_num, mpc>>
  BY <1>1, Zenon DEF CmStep
<1>2. YieldStep => UNCHANGED <<is_opened, is_connected, yield_running, mutex, dm, connection, client,
                               inited_conn_num, mpc>>
  BY Zenon DEF YieldStep, yield_mark, yield_enters, yield_dispatch, yield_returns
<1>3. Yield /\ UNCHANGED <<mutex, owner, dm, cm_vars, mpc, cpc, opens>> =>
        UNCHANGED <<is_opened, is_connected, yield_running, mutex, dm, connection, client,
                    inited_conn_num, mpc>>
  BY Zenon DEF Yield
<1>4. ASSUME NEW c \in Callers,
             \/ Call(c) /\ UNCHANGED <<ctx_flags, mutex, dm, cm_vars, mpc, ypc, opens, command_vars>>
             \/ CallStep(c)
      PROVE  UNCHANGED <<is_opened, is_connected, yield_running, mutex, dm, connection, client,
                         inited_conn_num, mpc>>
  BY <1>4, Zenon DEF CallStep
<1>5. ASSUME NEW r \in Repliers, Reply(r) \/ LifeReplyStep(r)
      PROVE  UNCHANGED <<is_opened, is_connected, yield_running, mutex, dm, connection, client,
                         inited_conn_num, mpc>>
  BY <1>5, Zenon DEF Reply, LifeReplyStep
<1>6. cm_receives => UNCHANGED <<is_opened, is_connected, yield_running, mutex, dm, connection, client,
                                 inited_conn_num, mpc>>
  BY Zenon DEF cm_receives
<1> QED  BY <1>1, <1>2, <1>3, <1>4, <1>5, <1>6 DEF Next

\* A thread leaves raced by itself; main only when Open succeeds.
LEMMA RacedStays ==
  ASSUME [Next]_vars PROVE Main \in raced => Main \in raced' \/ master_open
<1> USE LifecycleAssumption DEF ctx_flags, cm_vars, life_vars
<1>1. Open => raced \subseteq raced' \/ master_open
  BY DEF Open, master_open_fails
<1>2. Connect \/ Close \/ MainStep => raced \subseteq raced'
  BY DEF Connect, Close, MainStep, master_connect, cm_connect, connected, close_test, close_lock,
         cm_close, cm_wait, release, close_unlock, close_destroy, close_memset
<1>3. ASSUME NEW t \in CmThreads, CmStep(t) PROVE raced \ {t} \subseteq raced'
  BY <1>3 DEF CmStep, cm_start, cm_yield, cm_yielded, cm_leave
<1>4. Yield \/ YieldStep => raced \ {Yielder} \subseteq raced'
  BY DEF Yield, YieldStep, yield_mark, yield_enters, yield_dispatch, yield_returns
<1>5. ASSUME NEW c \in Callers, Call(c) \/ CallStep(c) PROVE raced \ {c} \subseteq raced'
  BY <1>5 DEF Call, CallStep, call_lock, call_returns
<1>6. ASSUME NEW r \in Repliers, Reply(r) \/ LifeReplyStep(r) PROVE raced \ {r} \subseteq raced'
  BY <1>6 DEF Reply, LifeReplyStep
<1>7. cm_receives \/ UNCHANGED vars => raced' = raced
  BY DEF cm_receives, vars
<1>8. Main # Yielder
  BY DEF Main, Yielder
<1> QED  BY <1>1, <1>2, <1>3, <1>4, <1>5, <1>6, <1>7, <1>8 DEF Next

\* Where the list is empty, it stays so until Open is done.
LEMMA ListStays ==
  ASSUME CommandTypeOK, CommandInv, [Next]_vars, command_list = {}, command_list_num = 0
  PROVE  (command_list' = {} /\ command_list_num' = 0) \/ (ypc = "dispatch" /\ event_callback)
<1> DEFINE Empty == command_list = {} /\ command_list_num = 0
<1>1. Cardinality({}) = 0
  BY FS_EmptySet
<1>2. ASSUME overtime_handle PROVE Empty'
  <2>1. PICK nodes \in SUBSET command_list : command_list_delete(nodes)
    BY <1>2 DEF overtime_handle
  <2>2. nodes = {}
    BY <2>1
  <2> QED  BY <1>1, <2>1, <2>2 DEF command_list_delete, num_after
<1>3. ASSUME NEW r \in Repliers, ReplyStep(r) PROVE Empty'
  <2>1. Cardinality({reply[r].addr}) = 1
    BY FS_Singleton
  <2> QED  BY <1>3, <2>1 DEF ReplyStep, command_list_search, send_response, reply_delete,
                             command_list_delete, num_after, list
<1>4. ASSUME Open \/ cm_connect \/ release \/ close_destroy \/ dispatch_done \/ UNCHANGED command_vars
      PROVE  Empty'
  BY <1>4 DEF Open, master_open, master_open_fails, cm_connect, release, close_destroy,
              service_list_destroy, dispatch_done, command_vars, list
<1>5. ASSUME cm_receives \/ \E r \in Repliers : Reply(r) PROVE Empty'
  BY <1>5 DEF cm_receives, cloud_commands, Reply, command_reply, list
<1>6. SUFFICES Empty' \/ (ypc = "dispatch" /\ event_callback)
  OBVIOUS
<1> HIDE DEF Empty
<1> QED  BY <1>2, <1>3, <1>4, <1>5, CommandCases

\* Main opens, connects, closes and releases in step with the flags.
LEMMA MainKeeps ==
  ASSUME TypeOK, CommandInv, MainInv, LockInv, [Next]_vars PROVE MainInv'
<1> USE DEF MainInv, Closing, ctx_flags, cm_vars
<1>0. CommandTypeOK
  BY DEF TypeOK
<1>1. Main \in raced => Main \in raced' \/ master_open
  BY RacedStays
<1>2. CASE Open
  BY <1>2 DEF Open, master_open, master_open_fails
<1>3. CASE Connect
  BY <1>3 DEF Connect, command_vars, list
<1>4. CASE Close
  BY <1>4 DEF Close, command_vars, list
<1>5. CASE master_connect
  BY <1>5 DEF master_connect, command_vars, list
<1>6. CASE cm_connect
  <2>1. /\ mpc = "connecting" /\ inited_conn_num = 0 /\ is_opened /\ is_connected /\ mutex = "alive" /\ dm
        /\ UNCHANGED <<is_opened, yield_running, mutex, dm, connection>>
    BY <1>6 DEF cm_connect
  <2>2. \/ mpc' = "subscribing" /\ is_connected' = is_connected
        \/ mpc' = "idle" /\ is_connected' = FALSE /\ inited_conn_num' = 0
    <3>1. create_undone(inited_conn_num + 1) = 0
      BY <2>1 DEF create_undone
    <3> QED  BY <1>6, <2>1, <3>1 DEF cm_connect
  <2> QED  BY <2>1, <2>2
<1>7. CASE connected
  BY <1>7 DEF connected, command_vars, list
<1>8. CASE close_test
  BY <1>8 DEF close_test, command_vars, list
<1>9. CASE close_lock
  BY <1>9 DEF close_lock, command_vars, list
<1>10. CASE cm_close
  <2>1. inited_conn_num' = 0
    BY <1>10 DEF cm_close, TypeOK, LifeTypeOK
  <2> QED  BY <1>10, <2>1 DEF cm_close, command_vars, list
<1>11. CASE cm_wait
  BY <1>11 DEF cm_wait, command_vars, list
<1>12. CASE release
  BY <1>12 DEF release, client_released, list
<1>13. CASE close_unlock
  BY <1>13 DEF close_unlock, command_vars, list
<1>14. CASE close_destroy
  BY <1>14 DEF close_destroy, service_list_destroy
<1>15. CASE close_memset
  BY <1>15 DEF close_memset, command_vars, list
<1>16. CASE Next /\ UNCHANGED <<is_opened, is_connected, yield_running, mutex, dm, connection, client,
                                inited_conn_num, mpc>>
  <2>1. ~master_open
    BY <1>16 DEF master_open
  <2>2. ypc = "dispatch" => dm
    BY <1>16 DEF Next, LockInv
  <2>3. ~dm /\ command_list = {} /\ command_list_num = 0 => command_list' = {} /\ command_list_num' = 0
    BY <1>0, <2>2, ListStays
  <2> QED  BY <1>1, <1>16, <2>1, <2>3
<1>17. CASE UNCHANGED vars
  BY <1>17 DEF vars, life_vars, command_vars, list
<1> HIDE DEF MainInv
<1> QED
  BY <1>2, <1>3, <1>4, <1>5, <1>6, <1>7, <1>8, <1>9, <1>10, <1>11, <1>12, <1>13, <1>14, <1>15,
     <1>16, <1>17, OtherThreads DEF Next, MainStep

\* Whoever is within a lock holds it.
LEMMA LockKeeps ==
  ASSUME TypeOK, MainInv, LockInv, [Next]_vars PROVE LockInv'
<1> USE LifecycleAssumption DEF LockInv, ctx_flags, cm_vars
<1>0. /\ Main # None /\ \A c \in Callers : c # Main /\ c # None
      /\ mutex \in {"null", "alive", "destroyed"}
      /\ cpc \in [Callers -> {"idle", "passed", "using"}]
      /\ reply \in [Repliers -> [pc : {"idle", "search", "found", "sent"}, cmd : Command,
                                 addr : Addrs \cup {NoAddr}]]
  BY DEF Main, None, TypeOK, LifeTypeOK, CommandTypeOK
<1>1. CASE misuse = {} /\ Open
  BY <1>1 DEF Open, master_open, master_open_fails, MainInv, Closing
<1>2. CASE misuse = {} /\ (Connect \/ Close)
  BY <1>2 DEF Connect, Close, command_vars
<1>3. CASE misuse = {} /\ (master_connect \/ connected)
  BY <1>0, <1>3 DEF master_connect, connected, command_vars
<1>4. CASE misuse = {} /\ cm_connect
  BY <1>0, <1>4 DEF cm_connect
<1>5. CASE misuse = {} /\ (close_test \/ cm_close \/ cm_wait)
  BY <1>5 DEF close_test, cm_close, cm_wait, command_vars
<1>6. CASE misuse = {} /\ close_lock
  BY <1>0, <1>6 DEF close_lock, command_vars
<1>7. CASE misuse = {} /\ close_unlock
  BY <1>0, <1>7 DEF close_unlock, command_vars
<1>8. CASE misuse = {} /\ release
  <2>1. misuse' = {} => UsersAtRelease = {}
    BY <1>8 DEF release
  <2>2. UsersAtRelease = {} =>
          /\ ypc # "dispatch" /\ \A c \in Callers : cpc[c] # "using"
          /\ \A r \in Repliers : reply[r].pc # "sent"
    BY DEF UsersAtRelease, InProgress
  <2> QED  BY <1>8, <2>1, <2>2 DEF release
<1>9. CASE misuse = {} /\ close_destroy
  BY <1>0, <1>9 DEF close_destroy
<1>10. CASE misuse = {} /\ close_memset
  BY <1>0, <1>10 DEF close_memset, command_vars
<1>11. ASSUME misuse = {}, NEW t \in CmThreads, CmStep(t) PROVE LockInv'
  BY <1>11 DEF CmStep, command_vars
<1>12. CASE misuse = {} /\ Yield /\ UNCHANGED <<mutex, owner, dm, cm_vars, mpc, cpc, opens>>
  BY <1>12 DEF Yield, command_vars
<1>13. CASE misuse = {} /\ YieldStep
  BY <1>13 DEF YieldStep, yield_mark, yield_enters, yield_dispatch, yield_returns, command_vars,
               overtime_handle, event_callback, dispatch_done
<1>14. ASSUME misuse = {}, NEW c \in Callers,
              \/ Call(c) /\ UNCHANGED <<ctx_flags, mutex, dm, cm_vars, mpc, ypc, opens, command_vars>>
              \/ CallStep(c)
       PROVE LockInv'
  <2>1. CASE Call(c) /\ UNCHANGED <<ctx_flags, mutex, dm, cm_vars, mpc, ypc, opens, command_vars>>
    BY <1>0, <1>14, <2>1 DEF Call, command_vars
  <2>2. CASE CallStep(c) /\ call_lock(c)
    BY <1>0, <1>14, <2>2 DEF CallStep, call_lock, locked_by, command_vars, MainInv, Closing
  <2>3. CASE CallStep(c) /\ call_returns(c)
    BY <1>0, <1>14, <2>3 DEF CallStep, call_returns, command_vars
  <2> QED  BY <1>14, <2>1, <2>2, <2>3 DEF CallStep
<1>15. ASSUME misuse = {}, NEW r \in Repliers, Reply(r) \/ LifeReplyStep(r) PROVE LockInv'
  <2>1. UNCHANGED <<owner, dm, mutex, mpc, ypc, cpc>>
    BY <1>15 DEF Reply, LifeReplyStep, life_vars
  <2>2. \A u \in Repliers : reply'[u].pc = "sent" => reply[u].pc = "sent" \/ (u = r /\ reply[r].pc = "found")
    BY <1>0, <1>15 DEF Reply, command_reply, LifeReplyStep, ReplyStep, command_list_search,
                       send_response, reply_delete, NoReply
  <2>3. ASSUME misuse' = {}, NEW u \in Repliers, reply'[u].pc = "sent" PROVE dm
    <3>1. CASE reply[u].pc = "sent"
      BY <1>15, <3>1
    <3>2. CASE u = r /\ reply[r].pc = "found"
      <4>1. LifeReplyStep(r)
        BY <1>0, <1>15, <2>3, <3>2 DEF Reply, command_reply
      <4> QED  BY <2>3, <3>2, <4>1 DEF LifeReplyStep, uses_released
    <3> QED  BY <2>2, <2>3, <3>1, <3>2
  <2> QED  BY <1>15, <2>1, <2>3
<1>16. CASE misuse = {} /\ cm_receives
  BY <1>16 DEF cm_receives, life_vars, cloud_commands
<1>17. CASE UNCHANGED vars
  BY <1>17 DEF vars, life_vars, command_vars
<1> HIDE DEF LockInv, ctx_flags, cm_vars
<1> QED
  BY <1>1, <1>2, <1>3, <1>4, <1>5, <1>6, <1>7, <1>8, <1>9, <1>10, <1>11, <1>12, <1>13, <1>14,
     <1>15, <1>16, <1>17 DEF Next, MainStep

-----------------------------------------------------------------------------
(* The windows of Close *)

\* Whoever is in a call when the device is not open was in it when Close
\* cleared the flag.
LEMMA InsideKeeps ==
  ASSUME TypeOK, MainInv, InsideInv, [Next]_vars PROVE InsideInv'
<1> USE LifecycleAssumption DEF ctx_flags, cm_vars
<1>0. /\ cpc \in [Callers -> {"idle", "passed", "using"}]
      /\ reply \in [Repliers -> [pc : {"idle", "search", "found", "sent"}, cmd : Command,
                                 addr : Addrs \cup {NoAddr}]]
      /\ Main \notin Callers \cup Repliers /\ Yielder \notin Callers \cup Repliers
      /\ \A t \in CmThreads : t \notin Callers \cup Repliers
      /\ \A c \in Callers : c \notin Repliers
  BY DEF TypeOK, LifeTypeOK, CommandTypeOK
<1>1. CASE UNCHANGED <<is_opened, cpc, reply>> /\ raced \cap (Callers \cup Repliers) \subseteq raced'
  BY <1>1 DEF InsideInv, Inside
<1>2. Open => is_opened' \/ (UNCHANGED <<is_opened, cpc, reply>> /\ raced \subseteq raced')
  BY DEF Open, master_open, master_open_fails
<1>3. Connect \/ Close \/ master_connect \/ connected \/ cm_connect \/ close_test \/ cm_close \/ cm_wait
      \/ release \/ close_unlock \/ close_destroy
        => UNCHANGED <<is_opened, cpc, reply>> /\ raced \subseteq raced'
  BY DEF Connect, Close, master_connect, connected, cm_connect, close_test, cm_close, cm_wait, release,
         close_unlock, close_destroy, command_vars
<1>4. CASE close_lock
  BY <1>4 DEF close_lock, InsideInv, Inside, command_vars
<1>5. close_memset => UNCHANGED <<cpc, reply, raced>> /\ ~is_opened
  BY DEF close_memset, command_vars, MainInv, Closing
<1>6. ASSUME NEW t \in CmThreads, CmStep(t)
      PROVE  UNCHANGED <<is_opened, cpc, reply>> /\ raced \ {t} \subseteq raced'
  BY <1>6 DEF CmStep, cm_start, cm_yield, cm_yielded, cm_leave, command_vars
<1>7. (Yield /\ UNCHANGED <<mutex, owner, dm, cm_vars, mpc, cpc, opens>>) \/ YieldStep
        => UNCHANGED <<is_opened, cpc, reply>> /\ raced \ {Yielder} \subseteq raced'
  BY DEF Yield, YieldStep, yield_mark, yield_enters, yield_dispatch, yield_returns, overtime_handle,
         event_callback, dispatch_done, command_vars
<1>8. cm_receives \/ UNCHANGED vars => UNCHANGED <<is_opened, cpc, reply, raced>>
  BY DEF cm_receives, cloud_commands, vars, life_vars, command_vars
<1>9. ASSUME NEW c \in Callers,
             \/ Call(c) /\ UNCHANGED <<ctx_flags, mutex, dm, cm_vars, mpc, ypc, opens, command_vars>>
             \/ CallStep(c)
      PROVE InsideInv'
  BY <1>0, <1>9 DEF Call, CallStep, call_lock, call_returns, InsideInv, Inside, command_vars
<1>10. ASSUME NEW r \in Repliers, Reply(r) PROVE InsideInv'
  BY <1>10 DEF Reply, life_vars, InsideInv
<1>11. ASSUME NEW r \in Repliers, LifeReplyStep(r) PROVE InsideInv'
  <2>1. UNCHANGED <<is_opened, cpc>> /\ (raced' = raced \/ (raced' = raced \ {r} /\ reply'[r].pc = "idle"))
    BY <1>11 DEF LifeReplyStep
  <2>2. reply[r].pc # "idle" /\ \A u \in Repliers : u # r => reply'[u] = reply[u]
    BY <1>0, <1>11 DEF LifeReplyStep, ReplyStep, command_list_search, send_response, reply_delete
  <2> QED  BY <1>0, <2>1, <2>2 DEF InsideInv, Inside
<1>12. CASE close_memset
  BY <1>5, <1>12 DEF InsideInv, Inside
<1>13. CASE Open
  BY <1>1, <1>2, <1>13 DEF InsideInv
<1> HIDE DEF ctx_flags, cm_vars
<1> QED
  BY <1>0, <1>1, <1>3, <1>4, <1>6, <1>7, <1>8, <1>9, <1>10, <1>11, <1>12, <1>13 DEF Next, MainStep

\* Close sees a Yield that runs, but for the one between its two flags.
LEMMA YielderKeeps ==
  ASSUME TypeOK, MainInv, YielderInv, [Next]_vars PROVE YielderInv'
<1> USE LifecycleAssumption DEF ctx_flags, cm_vars
<1>0. ypc \in {"idle", "tested", "marked", "dispatch", "done"} /\ Main # Yielder
      /\ Yielder \notin Callers \cup Repliers \cup CmThreads
  BY DEF TypeOK, LifeTypeOK, Main, Yielder
<1>1. CASE /\ UNCHANGED <<is_yield_running, ypc>>
           /\ mpc' \in Closing \cup {"close_lock"} => mpc \in Closing \cup {"close_lock"}
           /\ Yielder \in raced => Yielder \in raced'
  BY <1>1 DEF YielderInv
<1>2. Open \/ Connect \/ Close \/ master_connect \/ connected \/ cm_connect \/ close_lock \/ cm_close
      \/ cm_wait \/ release \/ close_unlock \/ close_destroy
        => /\ UNCHANGED <<is_yield_running, ypc>>
           /\ mpc' \in Closing \cup {"close_lock"} => mpc \in Closing \cup {"close_lock"}
           /\ Yielder \in raced => Yielder \in raced'
  BY <1>0 DEF Open, master_open, master_open_fails, Connect, Close, master_connect, connected, cm_connect,
         close_lock, cm_close, cm_wait, release, close_unlock, close_destroy, Closing
<1>3. CASE close_test
  BY <1>0, <1>3 DEF close_test, YielderInv, Closing
<1>4. CASE close_memset
  BY <1>4 DEF close_memset, YielderInv, Closing
<1>5. ASSUME NEW t \in CmThreads, CmStep(t)
      PROVE  UNCHANGED <<is_yield_running, ypc, mpc>> /\ (Yielder \in raced => Yielder \in raced')
  BY <1>0, <1>5 DEF CmStep, cm_start, cm_yield, cm_yielded, cm_leave
<1>6. ASSUME NEW c \in Callers,
             \/ Call(c) /\ UNCHANGED <<ctx_flags, mutex, dm, cm_vars, mpc, ypc, opens, command_vars>>
             \/ CallStep(c)
      PROVE  UNCHANGED <<is_yield_running, ypc, mpc>> /\ (Yielder \in raced => Yielder \in raced')
  BY <1>0, <1>6 DEF Call, CallStep, call_lock, call_returns
<1>7. ASSUME NEW r \in Repliers, Reply(r) \/ LifeReplyStep(r)
      PROVE  UNCHANGED <<is_yield_running, ypc, mpc>> /\ (Yielder \in raced => Yielder \in raced')
  BY <1>0, <1>7 DEF Reply, LifeReplyStep, life_vars
<1>8. cm_receives \/ UNCHANGED vars => UNCHANGED <<is_yield_running, ypc, mpc, raced>>
  BY DEF cm_receives, vars, life_vars
<1>9. CASE Yield /\ UNCHANGED <<mutex, owner, dm, cm_vars, mpc, cpc, opens>>
  BY <1>9 DEF Yield, YielderInv, MainInv, Closing
<1>10. CASE YieldStep
  BY <1>10 DEF YieldStep, yield_mark, yield_enters, yield_dispatch, yield_returns, YielderInv
<1> HIDE DEF ctx_flags, cm_vars
<1> QED
  BY <1>1, <1>2, <1>3, <1>4, <1>5, <1>6, <1>7, <1>8, <1>9, <1>10 DEF Next, MainStep

\* The threads of the connection manager.
LEMMA CmKeeps ==
  ASSUME TypeOK, MainInv, CmInv, [Next]_vars PROVE CmInv'
<1> USE LifecycleAssumption DEF ctx_flags, cm_vars
<1>0. /\ cm \in [CmThreads -> {"none", "created", "early", "loop", "yield"}]
      /\ Main \notin CmThreads /\ Yielder \notin CmThreads
      /\ \A c \in Callers \cup Repliers : c \notin CmThreads
  BY DEF TypeOK, LifeTypeOK
<1>1. CASE /\ UNCHANGED <<cm, yield_task_leave>> /\ (mpc' = "release" => mpc = "release")
           /\ raced \cap CmThreads \subseteq raced'
  BY <1>1 DEF CmInv, Live
<1>2. Open \/ Connect \/ Close \/ master_connect \/ connected \/ close_test \/ close_lock \/ cm_close
      \/ release \/ close_unlock \/ close_destroy \/ close_memset
        => /\ UNCHANGED <<cm, yield_task_leave>> /\ (mpc' = "release" => mpc = "release")
           /\ raced \ {Main} \subseteq raced'
  BY DEF Open, master_open, master_open_fails, Connect, Close, master_connect, connected, close_test,
         close_lock, cm_close, release, close_unlock, close_destroy, close_memset
<1>3. CASE cm_connect
  <2>1. CASE UNCHANGED <<cm, raced, yield_task_leave>> /\ mpc' = "idle"
    BY <2>1 DEF CmInv, Live
  <2>2. ASSUME NEW t \in CmThreads, cm[t] = "none", cm' = [cm EXCEPT ![t] = "created"],
               raced' = raced \cup (IF Live = {} THEN {} ELSE Live \cup {t}),
               mpc' = "subscribing", UNCHANGED yield_task_leave
        PROVE  CmInv'
    <3>1. Live' = Live \cup {t} /\ cm'[t] = "created"
      BY <1>0, <2>2 DEF Live
    <3> QED  BY <2>2, <3>1 DEF CmInv
  <2> QED  BY <1>3, <2>1, <2>2 DEF cm_connect
<1>4. CASE cm_wait
  <2>1. inited_conn_num = 0 /\ yield_task_leave /\ UNCHANGED <<cm, yield_task_leave>>
        /\ raced' = raced \cup {t \in CmThreads : cm[t] = "early"} /\ Live' = Live
    BY <1>4 DEF cm_wait, may_leave, MainInv, Closing, Live
  <2>2. ASSUME NEW t \in Live \ raced' PROVE cm[t] = "created" /\ Live = {t}
    <3>1. t \in CmThreads /\ cm[t] # "none" /\ cm[t] # "early" /\ t \in Live \ raced
      BY <2>1, <2>2 DEF Live
    <3>2. cm[t] \notin {"loop", "yield"} /\ Live = {t}
      BY <2>1, <3>1 DEF CmInv
    <3> QED  BY <1>0, <3>1, <3>2
  <2> QED  BY <2>1, <2>2 DEF CmInv
<1>5. ASSUME NEW t \in CmThreads, CmStep(t) PROVE CmInv'
  <2>1. UNCHANGED <<mpc, inited_conn_num>> /\ (mpc = "release" => inited_conn_num = 0)
    BY <1>5 DEF CmStep, MainInv, Closing
  <2>2. \A u \in CmThreads : u # t => cm'[u] = cm[u]
    BY <1>0, <1>5 DEF CmStep, cm_start, cm_yield, cm_yielded, cm_leave
  <2>3. t \in Live
    BY <1>0, <1>5 DEF CmStep, cm_start, cm_yield, cm_yielded, cm_leave, Live
  <2>4. CASE cm_leave(t)
    <3>1. Live' = Live \ {t} /\ raced' = raced \ {t} /\ yield_task_leave'
      BY <1>0, <2>2, <2>4 DEF cm_leave, Live, left
    <3>2. Live' \ raced' = {}
      BY <2>3, <3>1 DEF CmInv
    <3> QED  BY <3>1, <3>2 DEF CmInv
  <2>5. CASE cm_start(t) \/ cm_yield(t) \/ cm_yielded(t)
    <3>1. UNCHANGED raced /\ cm'[t] # "none" /\ (yield_task_leave' => yield_task_leave)
      BY <1>0, <2>5 DEF cm_start, cm_yield, cm_yielded
    <3>2. Live' = Live
      BY <2>2, <2>3, <3>1 DEF Live
    <3>3. ASSUME NEW u \in Live \ raced
          PROVE  /\ Live = {u} /\ (cm'[u] \in {"loop", "yield"} => ~yield_task_leave')
                 /\ mpc = "release" => cm'[u] \in {"created", "loop"}
      <4>1. Live = {u} /\ u = t
        BY <2>3, <3>3 DEF CmInv
      <4>2. cm[t] \in {"loop", "yield"} => ~yield_task_leave
        BY <3>3, <4>1 DEF CmInv
      <4>3. mpc = "release" => cm[t] \in {"created", "loop"} /\ inited_conn_num = 0
        BY <2>1, <3>3, <4>1 DEF CmInv
      <4>4. cm'[t] \in {"loop", "yield"} => ~yield_task_leave'
        BY <1>0, <2>5, <4>2 DEF cm_start, cm_yield, cm_yielded
      <4>5. mpc = "release" => cm'[t] \in {"created", "loop"}
        BY <1>0, <2>5, <4>3 DEF cm_start, cm_yield, cm_yielded
      <4> QED  BY <4>1, <4>4, <4>5
    <3> QED  BY <2>1, <2>3, <3>1, <3>2, <3>3 DEF CmInv
  <2> QED  BY <1>5, <2>4, <2>5 DEF CmStep
<1>6. ASSUME NEW c \in Callers,
             \/ Call(c) /\ UNCHANGED <<ctx_flags, mutex, dm, cm_vars, mpc, ypc, opens, command_vars>>
             \/ CallStep(c)
      PROVE  UNCHANGED <<cm, yield_task_leave, mpc>> /\ raced \ {c} \subseteq raced'
  BY <1>6 DEF Call, CallStep, call_lock, call_returns
<1>7. ASSUME NEW r \in Repliers, Reply(r) \/ LifeReplyStep(r)
      PROVE  UNCHANGED <<cm, yield_task_leave, mpc>> /\ raced \ {r} \subseteq raced'
  BY <1>7 DEF Reply, LifeReplyStep, life_vars
<1>8. cm_receives \/ UNCHANGED vars => UNCHANGED <<cm, yield_task_leave, mpc, raced>>
  BY DEF cm_receives, vars, life_vars
<1>9. (Yield /\ UNCHANGED <<mutex, owner, dm, cm_vars, mpc, cpc, opens>>) \/ YieldStep
        => UNCHANGED <<cm, yield_task_leave, mpc>> /\ raced \ {Yielder} \subseteq raced'
  BY DEF Yield, YieldStep, yield_mark, yield_enters, yield_dispatch, yield_returns
<1> HIDE DEF ctx_flags, cm_vars
<1> QED
  BY <1>0, <1>1, <1>2, <1>3, <1>4, <1>5, <1>6, <1>7, <1>8, <1>9 DEF Next, MainStep

\* A thread that uses what Close released had raced.
LEMMA NobodyKeeps ==
  ASSUME LifeInv, [Next]_vars PROVE ClosedUnderNobody'
<1> USE LifecycleAssumption DEF ctx_flags, cm_vars
<1>0. /\ cpc \in [Callers -> {"idle", "passed", "using"}]
      /\ reply \in [Repliers -> [pc : {"idle", "search", "found", "sent"}, cmd : Command,
                                 addr : Addrs \cup {NoAddr}]]
  BY DEF LifeInv, TypeOK, LifeTypeOK, CommandTypeOK
<1>1. CASE misuse = {} /\ UNCHANGED misuse
  BY <1>1 DEF ClosedUnderNobody
<1>2. Open \/ Connect \/ Close \/ master_connect \/ connected \/ cm_connect \/ close_test \/ cm_close
      \/ cm_wait \/ close_unlock \/ close_memset \/ cm_receives \/ Yield => UNCHANGED misuse
  BY DEF Open, Connect, Close, master_connect, connected, cm_connect, close_test, cm_close, cm_wait,
         close_unlock, close_memset, cm_receives, life_vars, Yield
<1>3. CASE misuse = {} /\ close_lock
  <2>1. mutex = "destroyed" => Main \in raced
    BY <1>3 DEF close_lock, LifeInv, MainInv
  <2> QED  BY <1>3, <2>1 DEF close_lock, ClosedUnderNobody
<1>4. CASE misuse = {} /\ release
  <2>1. ~is_opened /\ mpc = "release" /\ mpc \in Closing
    BY <1>4 DEF release, LifeInv, MainInv, Closing
  <2>2. Inside \subseteq raced /\ (ypc = "dispatch" => Yielder \in raced)
    BY <2>1 DEF LifeInv, InsideInv, YielderInv
  <2>3. \A t \in CmThreads : cm[t] = "yield" => t \in raced
    BY <2>1 DEF LifeInv, CmInv, Live
  <2>4. UsersAtRelease \subseteq raced
    BY <2>2, <2>3 DEF UsersAtRelease, Inside, InProgress
  <2> QED  BY <1>4, <2>4 DEF release, ClosedUnderNobody
<1>5. CASE misuse = {} /\ close_destroy
  <2>1. owner = None
    BY <1>5 DEF close_destroy, LifeInv, LockInv
  <2> QED  BY <1>5, <2>1 DEF close_destroy, ClosedUnderNobody
<1>6. ASSUME NEW t \in CmThreads, CmStep(t) PROVE UNCHANGED misuse
  BY <1>6 DEF CmStep
<1>7. CASE misuse = {} /\ YieldStep
  <2>1. is_opened => dm
    BY DEF LifeInv, MainInv
  <2>2. UNCHANGED misuse
    BY <1>7, <2>1 DEF YieldStep, yield_mark, yield_enters, yield_dispatch, yield_returns
  <2> QED  BY <1>1, <1>7, <2>2
<1>8. ASSUME misuse = {}, NEW c \in Callers, Call(c) \/ CallStep(c) PROVE ClosedUnderNobody'
  <2>1. CASE Call(c)
    BY <1>8, <2>1 DEF Call, ClosedUnderNobody
  <2>2. CASE call_lock(c)
    <3>1. ~dm \/ mutex = "destroyed" => ~is_opened
      BY DEF LifeInv, MainInv
    <3>2. ~is_opened => c \in raced
      BY <2>2 DEF call_lock, LifeInv, InsideInv, Inside
    <3> QED  BY <1>8, <2>2, <3>1, <3>2 DEF call_lock, ClosedUnderNobody
  <2>3. CASE call_returns(c)
    <3>1. mutex = "alive"
      BY <1>8, <2>3 DEF call_returns, LifeInv, LockInv
    <3> QED  BY <1>8, <2>3, <3>1 DEF call_returns, ClosedUnderNobody
  <2> QED  BY <1>8, <2>1, <2>2, <2>3 DEF CallStep
<1>9. ASSUME misuse = {}, NEW r \in Repliers, Reply(r) \/ LifeReplyStep(r) PROVE ClosedUnderNobody'
  <2>1. CASE Reply(r)
    BY <1>9, <2>1 DEF Reply, life_vars, ClosedUnderNobody
  <2>2. CASE LifeReplyStep(r) /\ ~uses_released(r)
    BY <1>9, <2>2 DEF LifeReplyStep, ClosedUnderNobody
  <2>3. CASE LifeReplyStep(r) /\ uses_released(r)
    <3>1. ~is_opened /\ reply[r].pc # "idle"
      BY <2>3 DEF uses_released, list_usable, LifeInv, MainInv
    <3>2. r \in raced
      BY <3>1 DEF LifeInv, InsideInv, Inside
    <3> QED  BY <1>9, <2>3, <3>2 DEF LifeReplyStep, ClosedUnderNobody
  <2> QED  BY <1>9, <2>1, <2>2, <2>3
<1>10. CASE UNCHANGED vars
  BY <1>10 DEF vars, life_vars, LifeInv, ClosedUnderNobody
<1> HIDE DEF ctx_flags, cm_vars
<1> QED
  BY <1>1, <1>2, <1>3, <1>4, <1>5, <1>6, <1>7, <1>8, <1>9, <1>10 DEF Next, MainStep

-----------------------------------------------------------------------------
(* The theorems *)

\* Nothing is open at the start.
LEMMA LifeInit == Init => LifeInv
<1> SUFFICES ASSUME Init PROVE LifeInv
  OBVIOUS
<1> USE DEF Init, CommandInit
<1>1. /\ heap = [a \in Addrs |-> 0] /\ command_list = {} /\ command_list_num = 0 /\ queue = <<>>
      /\ held = {} /\ responses = {} /\ commands = 0 /\ faults = 0 /\ reply = [t \in Repliers |-> NoReply]
  OBVIOUS
<1>2. FlagTypeOK
  BY Zenon DEF FlagTypeOK
<1>3. PlaceTypeOK
  BY LifecycleAssumption DEF PlaceTypeOK
<1>4. CommandTypeOK
  <2>1. queue \in Seq(Command) /\ Len(queue) <= MaxCommands
    BY CommandAssumption
  <2>2. heap \in [Addrs -> Command] /\ commands \in Command /\ command_list_num \in 0..COMMAND_LIST_MAXLEN
        /\ faults \in 0..MaxFaults
    BY CommandAssumption DEF Command
  <2>3. reply \in [Repliers -> [pc : {"idle", "search", "found", "sent"}, cmd : Command,
                                addr : Addrs \cup {NoAddr}]]
    BY CommandAssumption DEF NoReply, Command
  <2>4. late \in BOOLEAN /\ expired \in BOOLEAN
    BY Zenon
  <2> QED  BY <2>1, <2>2, <2>3, <2>4 DEF CommandTypeOK
<1>5. TypeOK
  BY <1>2, <1>3, <1>4, Zenon DEF TypeOK, LifeTypeOK, FlagTypeOK, PlaceTypeOK
<1>6. \A t \in Repliers : reply[t].pc = "idle"
  BY DEF NoReply
<1>7. CommandInv
  <2>1. IsFiniteSet(command_list)
    BY FS_EmptySet
  <2>2. Queued = {} /\ Len(queue) <= commands
    BY <1>1 DEF Queued
  <2>3. \A i, j \in 1..Len(queue) : queue[i] = queue[j] => i = j
    BY <1>1
  <2> QED  BY <1>1, <1>6, <2>1, <2>2, <2>3 DEF CommandInv
<1>8. ListInv /\ ContextInv
  <2>1. InProgress = {}
    BY <1>6 DEF InProgress
  <2>2. Cardinality({}) = 0
    BY FS_EmptySet
  <2>3. ListInv
    BY <1>1, <2>1, <2>2, CommandAssumption DEF ListInv, CountExact
  <2>4. ContextInv
    BY <1>1, <1>6 DEF ContextInv
  <2> QED  BY <2>3, <2>4
<1>9. MainInv
  BY DEF MainInv, Closing
<1>10. LockInv
  BY <1>6 DEF LockInv
<1>11. InsideInv /\ YielderInv /\ CmInv /\ ClosedUnderNobody
  BY <1>6 DEF InsideInv, Inside, YielderInv, CmInv, Live, Closing, ClosedUnderNobody
<1> QED  BY <1>5, <1>7, <1>8, <1>9, <1>10, <1>11 DEF LifeInv

\* The inductive invariant holds in every reachable state.
THEOREM LifeInvariance == Spec => []LifeInv
<1>1. Init => LifeInv
  BY LifeInit
<1>2. LifeInv /\ [Next]_vars => LifeInv'
  <2> SUFFICES ASSUME LifeInv, [Next]_vars PROVE LifeInv'
    OBVIOUS
  <2>1. /\ TypeOK /\ CommandTypeOK /\ CommandInv /\ ListInv /\ ContextInv /\ MainInv /\ LockInv
        /\ InsideInv /\ YielderInv /\ CmInv
    BY DEF LifeInv, TypeOK
  <2>2. TypeOK' /\ CommandInv' /\ ListInv' /\ ContextInv'
    BY <2>1, TypeStep, CommandStep, ListStep, ContextStep
  <2>3. MainInv' /\ LockInv'
    BY <2>1, MainKeeps, LockKeeps
  <2>4. InsideInv' /\ YielderInv' /\ CmInv' /\ ClosedUnderNobody'
    BY <2>1, InsideKeeps, YielderKeeps, CmKeeps, NobodyKeeps
  <2> QED  BY <2>2, <2>3, <2>4 DEF LifeInv
<1> QED  BY <1>1, <1>2, PTL DEF Spec

\* Every variable of the device's life and of its commands keeps its type:
\* no more than one connection is counted, and the count of commands stays
\* within the list.
THEOREM LifeTypesHold == Spec => []TypeOK
<1>1. LifeInv => TypeOK
  BY DEF LifeInv
<1> QED  BY <1>1, LifeInvariance, PTL

\* command_list_insert, command_list_delete, expiry and IOT_EnOS_Close keep the
\* count of the list exact until a node is freed under a reply.
THEOREM CountIsExact == Spec => []CountExact
<1>1. LifeInv => CountExact
  BY DEF LifeInv, ListInv
<1> QED  BY <1>1, LifeInvariance, PTL

\* With any number of commands, addresses and replying threads: while no command
\* outlives its time or its session, IOT_EnOS_CommandReply refuses none and
\* sends each response with the id of its own command.
THEOREM RepliesInTime == Spec => []RepliedInTime
<1>1. LifeInv => RepliedInTime
  BY DEF LifeInv, ContextInv, RepliedInTime
<1> QED  BY <1>1, LifeInvariance, PTL

\* IOT_EnOS_Close releases nothing under a thread that had not been in one of
\* the named windows.
THEOREM CloseHurtsNobody == Spec => []ClosedUnderNobody
<1>1. LifeInv => ClosedUnderNobody
  BY DEF LifeInv
<1> QED  BY <1>1, LifeInvariance, PTL

\* Between calls, a device that is not open has released everything.
THEOREM CloseReleases == Spec => []ClosedMeansReleased
<1>1. LifeInv => ClosedMeansReleased
  BY DEF LifeInv, MainInv, Closing, ClosedMeansReleased
<1> QED  BY <1>1, LifeInvariance, PTL

\* ctx->mutex keeps the calls that lock it apart, over sessions too.
THEOREM MutexExcludes == Spec => []MutexExclusion
<1>1. LifeInv => MutexExclusion
  <2> DEFINE M == {m \in {Main} : mpc \in {"connecting", "subscribing", "cm_close", "cm_wait",
                                           "release", "unlock"}}
             U == {c \in Callers : cpc[c] = "using"} \cup M
  <2>1. SUFFICES ASSUME LifeInv, misuse = {} PROVE Cardinality(U) <= 1
    BY DEF MutexExclusion
  <2>2. \A u \in U : u = owner
    BY <2>1 DEF LifeInv, LockInv
  <2>3. U = {} \/ U = {owner}
    BY <2>2
  <2> HIDE DEF U
  <2>4. Cardinality({}) = 0 /\ Cardinality({owner}) = 1
    BY FS_EmptySet, FS_Singleton
  <2> QED  BY <2>3, <2>4
<1> QED  BY <1>1, LifeInvariance, PTL

\* iotx_cm_close never sleeps for a thread that has gone.
THEOREM SomebodyIsLeft == Spec => []SomebodyLeaves
<1>1. LifeInv => SomebodyLeaves
  BY DEF LifeInv, CmInv, SomebodyLeaves, may_leave
<1> QED  BY <1>1, LifeInvariance, PTL

=============================================================================
