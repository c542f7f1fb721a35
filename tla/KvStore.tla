------------------------------ MODULE KvStore ------------------------------
(***************************************************************************)
(* The key-value store of the Linux wrapper (wrappers/os/ubuntu/           *)
(* HAL_KV_linux.c): a hash table in a file, rows of TABLE_ROW_SIZE items,  *)
(* read and written a row at a time.  Threads of the application share it; *)
(* a write may be short, an fsync may fail, and the device may lose power. *)
(*                                                                         *)
(* kv_open makes a kv_file_t with a lock of its own; the pointer to it is  *)
(* tested, set and read again without a lock, so there may be several.     *)
(*                                                                         *)
(* What write puts in the file is on the medium for certain only after an  *)
(* fsync.  Until then a loss of power may leave any version an item had    *)
(* since the last one, or a mix of them.  Assumed of a mix: the four bytes *)
(* of value_len stay together, and a mix of two keys is no key in use.     *)
(***************************************************************************)
EXTENDS Integers, FiniteSets

CONSTANTS
  Threads, Keys, Vals,
  Hash,                  \* hash_gen, the row of a key
  TABLE_COL_SIZE,        \* rows of the file
  TABLE_ROW_SIZE,        \* items of a row
  MaxCalls,              \* bound: calls
  MaxFaults,             \* bound: failures of the operating system
  MaxCrashes             \* bound: losses of power

None    == "none"
Torn    == "torn"        \* a mix of two keys, or of two values
Unknown == "unknown"     \* a value the application cannot count on

ASSUME KvAssumption ==
  /\ {TABLE_COL_SIZE, TABLE_ROW_SIZE} \subseteq Nat \ {0}
  /\ Hash \in [Keys -> 0..TABLE_COL_SIZE - 1]
  /\ {MaxCalls, MaxFaults, MaxCrashes} \subseteq Nat
  /\ {None, Torn, Unknown} \cap (Threads \cup Keys \cup Vals) = {}

VARIABLES
  exists, size,          \* KV_FILE_NAME: there is one, and how many rows it has
  rows,                  \* its rows, as they are read
  medium,                \* the versions of each item that the medium may hold
  solid,                 \* the file and its size are on the medium
  file,                  \* the static pointer: the thread whose kv_file_t it is
  lock,                  \* the lock of each kv_file_t
  th,                    \* the call each thread is in
  calls, faults, crashes,
  \* history
  map,                   \* what was set and not deleted
  unsynced,              \* keys written since the last fsync of their row
  raced,                 \* the store was opened twice
  holed,                 \* rows with an item behind one without a value
  lost                   \* keys that were unsynced at a loss of power

disk == <<exists, size, rows, medium, solid>>
hist == <<map, unsynced, raced, holed, lost>>
vars == <<disk, file, lock, th, calls, faults, crashes, hist>>

Rows  == 0..TABLE_COL_SIZE - 1
Slots == 1..TABLE_ROW_SIZE
Item  == [key : Keys \cup {Torn}, val : Vals \cup {Torn}]
Empty == [key |-> None, val |-> None]
EmptyRow == [j \in Slots |-> Empty]
Row   == [Slots -> Item \cup {Empty}]
Ops   == {"set", "get", "del"}
Idle  == [pc |-> "idle", op |-> "get", key |-> None, val |-> None, h |-> None, i |-> 0,
          buf |-> EmptyRow]

TypeOK ==
  /\ exists \in BOOLEAN /\ size \in 0..TABLE_COL_SIZE /\ rows \in [Rows -> Row]
  /\ medium \in [Rows -> [Slots -> SUBSET (Item \cup {Empty})]] /\ solid \in BOOLEAN
  /\ file \in Threads \cup {None}
  /\ lock \in [Threads -> Threads \cup {None}]
  /\ th \in [Threads -> [pc : {"idle", "open", "create", "load", "lock", "read", "write", "sync",
                               "unlock"},
                         op : Ops, key : Keys \cup {None}, val : Vals \cup {None},
                         h : Threads \cup {None}, i : 0..TABLE_COL_SIZE, buf : Row]]
  /\ calls \in 0..MaxCalls /\ faults \in 0..MaxFaults /\ crashes \in 0..MaxCrashes
  /\ map \in [Keys -> Vals \cup {None, Unknown}] /\ unsynced \cup lost \subseteq Keys
  /\ raced \in BOOLEAN /\ holed \subseteq Rows

Fault == faults < MaxFaults /\ faults' = faults + 1

-----------------------------------------------------------------------------
(* A row *)

\* The search ends at an item without a value or at the key's.
stops(row, key) == {j \in Slots : row[j] = Empty \/ row[j].key = key}

found(row, key) ==
  LET s == stops(row, key) IN
  {j \in s : row[j].key = key /\ \A i \in s : j <= i}

hash_table_get(row, key) ==
  IF found(row, key) = {} THEN None ELSE row[CHOOSE j \in found(row, key) : TRUE].val

hash_table_put_new(row, key, val) ==
  {[row EXCEPT ![j] = [key |-> key, val |-> val]] :
     j \in {j \in stops(row, Unknown) : \A i \in stops(row, Unknown) : j <= i}}

\* Updates the item or takes the first one without a value; no row when it is full.
hash_table_put(row, key, val) ==
  {[row EXCEPT ![j] = [key |-> key, val |-> val]] :
     j \in {j \in stops(row, key) : \A i \in stops(row, key) : j <= i}}

\* Goes on behind the item it clears, and ends at one that was clear.
hash_table_rm(row, key) ==
  [j \in Slots |->
     IF row[j].key = key /\ \A i \in 1..j : row[i] # Empty THEN Empty ELSE row[j]]

\* No search passes an item that was removed.
Holes(row) == \E i, j \in Slots : i < j /\ row[i] = Empty /\ row[j] # Empty

-----------------------------------------------------------------------------
(* The file and the medium *)

Mixed(ks) == IF \E k \in ks : ks = {k} THEN ks ELSE ks \cup {Torn}

\* What may be left of an item that has the versions S.
Tears(S) ==
  IF \E v \in S : S = {v} THEN S
  ELSE S \cup [key : Mixed({v.key : v \in S}) \ {None}, val : {Torn}]

\* A write ends early: the rest of the row is what it was.
Short(old, new) ==
  UNION {{[i \in Slots |-> CASE i < j -> new[i] [] i = j -> x [] i > j -> old[i]] :
            x \in Tears({old[j], new[j]})} : j \in Slots}

\* write: one version more of each item of the row.
Writes(loc, row) ==
  /\ rows' = [rows EXCEPT ![loc] = row]
  /\ medium' = [medium EXCEPT ![loc] = [j \in Slots |-> @[j] \cup {row[j]}]]
  /\ holed' = holed \cup (IF Holes(row) THEN {loc} ELSE {})

-----------------------------------------------------------------------------
(* kv_open *)

Opening(t) == th[t].pc \in {"open", "create"}

\* HAL_Kv_Set, HAL_Kv_Get, HAL_Kv_Del: open the store if the pointer is NULL.
call(t, op, key, val) ==
  /\ th[t].pc = "idle" /\ calls < MaxCalls
  /\ calls' = calls + 1
  /\ th' = [th EXCEPT ![t] = [Idle EXCEPT !.pc = IF file = None THEN "open" ELSE "load",
                                          !.op = op, !.key = key, !.val = val]]
  /\ raced' = (raced \/ (file = None /\ \E u \in Threads \ {t} : Opening(u)))
  /\ UNCHANGED <<disk, file, lock, faults, crashes, map, unsynced, holed, lost>>

\* The pointer is set, to a new kv_file_t or, when kv_open failed, to NULL.
Opened(t) ==
  /\ file' = t
  /\ lock' = [lock EXCEPT ![t] = None]
  /\ th' = [th EXCEPT ![t].pc = "load"]

Failed(t) ==
  /\ Fault
  /\ file' = None
  /\ th' = [th EXCEPT ![t] = Idle]
  /\ UNCHANGED lock

\* access: a file that exists is taken as it is.
kv_open(t) ==
  /\ th[t].pc = "open"
  /\ \/ exists /\ Opened(t) /\ UNCHANGED <<exists, faults>>
     \/ /\ ~exists
        /\ exists' = TRUE
        /\ th' = [th EXCEPT ![t].pc = "create"]
        /\ UNCHANGED <<file, lock, faults>>
     \/ Failed(t) /\ UNCHANGED exists
  /\ UNCHANGED <<size, rows, medium, solid, calls, crashes, hist>>

more_rows_last(i) == i <= TABLE_COL_SIZE

more_rows(i) == i < TABLE_COL_SIZE

\* One row after the other from the beginning, then an fsync; a failure leaves
\* the rest out, and the file.
create_hash_file(t) ==
  LET i == th[t].i IN
  /\ th[t].pc = "create"
  /\ \/ /\ more_rows(i)
        /\ Writes(i, EmptyRow)
        /\ size' = IF size > i THEN size ELSE i + 1
        /\ solid' = FALSE
        /\ th' = [th EXCEPT ![t].i = @ + 1]
        /\ UNCHANGED <<file, lock, faults>>
     \/ /\ more_rows(i) /\ Failed(t)
        /\ \E row \in Short(rows[i], EmptyRow) : Writes(i, row)
        /\ UNCHANGED <<size, solid>>
     \/ /\ ~more_rows(i)
        /\ \/ Opened(t) /\ solid' = TRUE /\ UNCHANGED faults
           \/ Failed(t) /\ UNCHANGED solid
        /\ UNCHANGED <<size, rows, medium, holed>>
  /\ UNCHANGED <<exists, calls, crashes, map, unsynced, raced, lost>>

-----------------------------------------------------------------------------
(* __kv_set, __kv_get, __kv_del *)

\* The pointer is read again, and may be NULL by now.
kv_load(t) ==
  /\ th[t].pc = "load"
  /\ th' = [th EXCEPT ![t] = IF file = None THEN Idle ELSE [@ EXCEPT !.pc = "lock", !.h = file]]
  /\ UNCHANGED <<disk, file, lock, calls, faults, crashes, hist>>

free_ignored(h) == TRUE

free(h) == lock[h] = None

kv_lock(t) ==
  /\ th[t].pc = "lock" /\ free(th[t].h)
  /\ lock' = [lock EXCEPT ![th[t].h] = t]
  /\ th' = [th EXCEPT ![t].pc = "read"]
  /\ UNCHANGED <<disk, file, calls, faults, crashes, hist>>

\* What the call writes for the row it has read: nothing for a get.
NewRows(row, c) ==
  CASE c.op = "set" -> hash_table_put(row, c.key, c.val)
    [] c.op = "del" -> {hash_table_rm(row, c.key)}
    [] c.op = "get" -> {}

\* A row behind the end of the file is an error.
read_kv_item(t) ==
  LET c == th[t]  loc == Hash[c.key] IN
  /\ c.pc = "read"
  /\ \/ /\ size > loc
        /\ \/ \E row \in NewRows(rows[loc], c) :
                th' = [th EXCEPT ![t].pc = "write", ![t].buf = row]
           \/ NewRows(rows[loc], c) = {} /\ th' = [th EXCEPT ![t].pc = "unlock"]
        /\ UNCHANGED faults
     \/ size <= loc /\ th' = [th EXCEPT ![t].pc = "unlock"] /\ UNCHANGED faults
     \/ Fault /\ th' = [th EXCEPT ![t].pc = "unlock"]
  /\ UNCHANGED <<disk, file, lock, calls, crashes, hist>>

\* The row is written, or a part of it, or the file cannot be opened or read.
write_kv_item(t) ==
  LET c == th[t]  loc == Hash[c.key] IN
  /\ c.pc = "write"
  /\ \/ /\ Writes(loc, c.buf)
        /\ map' = [map EXCEPT ![c.key] = c.val]
        /\ unsynced' = unsynced \cup {c.key}
        /\ th' = [th EXCEPT ![t].pc = "sync"]
        /\ UNCHANGED faults
     \/ /\ Fault
        /\ \E row \in Short(rows[loc], c.buf) : Writes(loc, row)
        /\ map' = [map EXCEPT ![c.key] = Unknown]
        /\ unsynced' = unsynced \cup {c.key}
        /\ th' = [th EXCEPT ![t].pc = "unlock"]
     \/ /\ Fault
        /\ th' = [th EXCEPT ![t].pc = "unlock"]
        /\ UNCHANGED <<rows, medium, map, unsynced, holed>>
  /\ UNCHANGED <<exists, size, solid, file, lock, calls, crashes, raced, lost>>

\* The row is on the medium; but the result of the fsync is ignored.  A row
\* written before whose fsync failed is not counted on to be among what this one
\* writes.
kv_fsync(t) ==
  LET loc == Hash[th[t].key] IN
  /\ th[t].pc = "sync"
  /\ \/ /\ solid' = TRUE
        /\ medium' = [medium EXCEPT ![loc] = [j \in Slots |-> {rows[loc][j]}]]
        /\ unsynced' = {k \in unsynced : Hash[k] # loc}
        /\ UNCHANGED faults
     \/ Fault /\ UNCHANGED <<solid, medium, unsynced>>
  /\ th' = [th EXCEPT ![t].pc = "unlock"]
  /\ UNCHANGED <<exists, size, rows, file, lock, calls, crashes, map, raced, holed, lost>>

kv_unlock(t) ==
  /\ th[t].pc = "unlock"
  /\ lock' = [lock EXCEPT ![th[t].h] = None]
  /\ th' = [th EXCEPT ![t] = Idle]
  /\ UNCHANGED <<disk, file, calls, faults, crashes, hist>>

-----------------------------------------------------------------------------
(* A loss of power *)

\* The rows that may be left of a file of n rows.
Left(n) ==
  {f \in [Rows -> {EmptyRow} \cup UNION {[Slots -> UNION {Tears(medium[r][j]) : j \in Slots}] : r \in Rows}] :
     \A r \in Rows : IF r < n THEN \A j \in Slots : f[r][j] \in Tears(medium[r][j])
                     ELSE f[r] = EmptyRow}

\* The medium is all that is left; the file, or its end, may be missing.
power_lost ==
  /\ crashes < MaxCrashes
  /\ crashes' = crashes + 1
  /\ exists' \in BOOLEAN /\ size' \in 0..size
  /\ IF solid THEN exists' = exists /\ size' = size
     ELSE (exists' => exists) /\ (~exists' => size' = 0)
  /\ rows' \in Left(size')
  /\ medium' = [r \in Rows |-> [j \in Slots |-> {rows'[r][j]}]]
  /\ solid' = exists'
  /\ file' = None
  /\ lock' = [t \in Threads |-> None]
  /\ th' = [t \in Threads |-> Idle]
  /\ map' = [k \in Keys |-> IF k \in unsynced THEN Unknown ELSE map[k]]
  /\ unsynced' = {}
  /\ holed' = holed \cup {r \in Rows : Holes(rows'[r])}
  /\ lost' = lost \cup unsynced
  /\ UNCHANGED <<calls, faults, raced>>

-----------------------------------------------------------------------------
(* The specification *)

Init ==
  /\ exists = FALSE /\ size = 0 /\ rows = [r \in Rows |-> EmptyRow]
  /\ medium = [r \in Rows |-> [j \in Slots |-> {Empty}]] /\ solid = FALSE
  /\ file = None /\ lock = [t \in Threads |-> None]
  /\ th = [t \in Threads |-> Idle]
  /\ calls = 0 /\ faults = 0 /\ crashes = 0
  /\ map = [k \in Keys |-> None] /\ unsynced = {} /\ lost = {}
  /\ raced = FALSE /\ holed = {}

Call(t) ==
  \E k \in Keys : \/ \E v \in Vals : call(t, "set", k, v)
                  \/ call(t, "get", k, None)
                  \/ call(t, "del", k, None)

Step(t) ==
  \/ kv_open(t) \/ create_hash_file(t) \/ kv_load(t)
  \/ kv_lock(t) \/ read_kv_item(t) \/ write_kv_item(t) \/ kv_fsync(t) \/ kv_unlock(t)

Next == power_lost \/ \E t \in Threads : Call(t) \/ Step(t)

Spec == Init /\ [][Next]_vars

-----------------------------------------------------------------------------
(* Properties *)

\* What HAL_Kv_Get reads for a key.
View(k) == IF size > Hash[k] THEN hash_table_get(rows[Hash[k]], k) ELSE None

\* What was set, and not deleted since, is what is read, across calls of several
\* threads, short writes, failed fsyncs and losses of power, and a torn write of
\* one key leaves the others of its row as they were.  Unknown until the next set
\* or del is only a key whose own write was short, or was not synced when power
\* was lost.  Excluded: two threads opened the store at the same time; an item of
\* the row lies behind one without a value.
MapKept ==
  ~raced => \A k \in Keys : Hash[k] \notin holed /\ map[k] # Unknown => View(k) = map[k]

\* A key has one item: a set that finds the key, torn or whole, does not add
\* another one, which a later get or del would take for it.  Excluded besides: a
\* key that was unsynced at a loss of power, of which an older item may come back.
OneItemEach ==
  ~raced => \A r \in Rows \ holed : \A i, j \in Slots :
    rows[r][i].key \in Keys \ lost /\ rows[r][i].key = rows[r][j].key => i = j

\* "insert or update a value indexed by key", "get a value indexed by key",
\* "remove a value indexed by key" (HAL_KV_linux.c): the store is a map.
StoreIsMap == \A k \in Keys : View(k) = map[k]

=============================================================================
