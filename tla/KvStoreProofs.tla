--------------------------- MODULE KvStoreProofs ---------------------------
(***************************************************************************)
(* Proofs about KvStore, for any number of threads, keys and rows, any     *)
(* hash function, and any number of calls, failures and losses of power.   *)
(***************************************************************************)
EXTENDS KvStore, TLAPS

-----------------------------------------------------------------------------
(* The inductive invariant *)

\* The arguments of the calls.
CallInv ==
  \A t \in Threads : th[t].pc # "idle" =>
    /\ th[t].key \in Keys
    /\ th[t].op = "set" => th[t].val \in Vals
    /\ th[t].op = "del" => th[t].val = None
    /\ th[t].pc = "open" => th[t].i = 0

\* holed has every row with an item behind one without a value.
HoleInv == \A r \in Rows \ holed : ~Holes(rows[r])

Locked == {"read", "write", "sync", "unlock"}

\* Unless the store was opened twice: one thread opens it, before any other
\* uses it; the others share one lock, and what a thread is about to write is
\* made from the row that is there.
OpenInv ==
  ~raced =>
    /\ ~exists => size = 0 /\ ~solid /\ \A r \in Rows : rows[r] = EmptyRow
    /\ \A t, u \in Threads : Opening(t) /\ Opening(u) => t = u
    /\ \A t \in Threads :
         /\ Opening(t) => file = None
         /\ th[t].pc \in Locked \cup {"load", "lock"} => file # None
         /\ th[t].pc \in Locked \cup {"lock"} => th[t].h = file
         /\ th[t].pc \in Locked => lock[file] = t
         /\ th[t].pc = "create" =>
              exists /\ ~solid /\ size = th[t].i /\ \A r \in Rows : rows[r] = EmptyRow
         /\ th[t].pc \in {"write", "sync"} => size > Hash[th[t].key]
         /\ th[t].pc = "write" => th[t].buf \in NewRows(rows[Hash[th[t].key]], th[t])

\* A key has one item in the row at most.
One(row, k) == \A i, j \in Slots : row[i].key = k /\ row[j].key = k => i = j

\* The keys of K are all that the items in which two rows differ have.
Touches(row, new, K) ==
  \A j \in Slots : new[j] # row[j] => row[j].key \notin Keys \ K /\ new[j].key \notin Keys \ K

\* The medium may hold what is read; what else it may hold is of unsynced keys.
\* Every key is in its row.
MediumInv ==
  \A r \in Rows, j \in Slots :
    /\ rows[r][j] \in medium[r][j]
    /\ \A v \in medium[r][j] :
         /\ v.key \in Keys => Hash[v.key] = r
         /\ v # rows[r][j] => v.key \notin Keys \ unsynced /\ rows[r][j].key \notin Keys \ unsynced

\* As long as the file may vanish, no value in it is synced.
SolidInv == ~solid => \A k \in Keys \ unsynced : map[k] \in {None, Unknown}

OneInv == \A r \in Rows \ holed, k \in Keys \ lost : One(rows[r], k)

MapInv == \A k \in Keys : Hash[k] \notin holed /\ map[k] # Unknown => View(k) = map[k]

DiskInv == MediumInv /\ SolidInv /\ OneInv /\ MapInv

KvInv == TypeOK /\ CallInv /\ HoleInv /\ OpenInv /\ (~raced => DiskInv)

-----------------------------------------------------------------------------
(* Rows *)

\* Items, empty ones and the empty row.
LEMMA ItemFacts ==
  /\ Empty.key = None /\ None \notin Keys /\ Torn \notin Keys /\ Empty \notin Item
  /\ \A it \in Item : it.key \in Keys \cup {Torn} /\ it # Empty
  /\ \A k \in Keys \cup {Torn} : k # None /\ \A v \in Vals \cup {Torn} : [key |-> k, val |-> v] \in Item
  /\ EmptyRow \in Row /\ ~Holes(EmptyRow) /\ \A j \in Slots : EmptyRow[j] = Empty
<1>1. None \notin Keys /\ Torn \notin Keys /\ Torn # None
  BY KvAssumption DEF None, Torn
<1>2. /\ Empty.key = None /\ Empty \notin Item
      /\ \A it \in Item : it.key \in Keys \cup {Torn} /\ it # Empty
      /\ \A k \in Keys \cup {Torn} : k # None /\ \A v \in Vals \cup {Torn} : [key |-> k, val |-> v] \in Item
  BY <1>1 DEF Empty, Item
<1>3. \A j \in Slots : EmptyRow[j] = Empty
  BY DEF EmptyRow
<1>4. EmptyRow \in Row
  BY DEF EmptyRow, Row
<1> QED  BY <1>1, <1>2, <1>3, <1>4 DEF Holes

\* An item of a row is empty or has a key.
LEMMA RowItems ==
  ASSUME NEW row \in Row, NEW j \in Slots
  PROVE  /\ row[j] \in Item \cup {Empty}
         /\ row[j] # Empty => row[j].key \in Keys \cup {Torn}
         /\ row[j] = Empty => row[j].key = None
         /\ j \in Int
<1>1. row[j] \in Item \cup {Empty} /\ j \in Int
  BY KvAssumption DEF Row, Slots
<1> QED  BY <1>1, ItemFacts

\* In a row without holes, a search finds the first item of the key.
LEMMA FoundFirst ==
  ASSUME NEW row \in Row, ~Holes(row), NEW k \in Keys
  PROVE  found(row, k) = {j \in Slots : row[j].key = k /\ \A i \in Slots : row[i].key = k => j <= i}
<1>1. ASSUME NEW j \in Slots, row[j].key = k, NEW i \in Slots, row[i] = Empty PROVE j <= i
  <2>1. row[j] # Empty /\ i \in Int /\ j \in Int
    BY <1>1, RowItems, ItemFacts
  <2> QED  BY <1>1, <2>1 DEF Holes
<1> QED  BY <1>1 DEF found, stops

\* A key that no difference of two rows is about has the same items in both, and
\* without holes the same value.
LEMMA Untouched ==
  ASSUME NEW row \in Row, NEW new \in Row, NEW K, Touches(row, new, K), NEW k \in Keys \ K
  PROVE  /\ One(row, k) => One(new, k)
         /\ ~Holes(row) /\ ~Holes(new) => hash_table_get(new, k) = hash_table_get(row, k)
<1>1. \A j \in Slots : (row[j].key = k <=> new[j].key = k) /\ (row[j].key = k => new[j] = row[j])
  BY DEF Touches
<1>2. One(row, k) => One(new, k)
  BY <1>1 DEF One
<1>3. ASSUME ~Holes(row), ~Holes(new) PROVE hash_table_get(new, k) = hash_table_get(row, k)
  <2>1. found(row, k) = found(new, k)
    <3>1. /\ found(row, k) = {j \in Slots : row[j].key = k /\ \A i \in Slots : row[i].key = k => j <= i}
          /\ found(new, k) = {j \in Slots : new[j].key = k /\ \A i \in Slots : new[i].key = k => j <= i}
      BY <1>3, FoundFirst
    <3> QED  BY <1>1, <3>1
  <2>2. ASSUME found(row, k) # {}
        PROVE  row[CHOOSE j \in found(row, k) : TRUE] = new[CHOOSE j \in found(row, k) : TRUE]
    <3>1. (CHOOSE j \in found(row, k) : TRUE) \in found(row, k)
      BY <2>2
    <3> QED  BY <1>1, <3>1 DEF found, stops
  <2> QED  BY <2>1, <2>2 DEF hash_table_get
<1> QED  BY <1>2, <1>3

\* The items of the key in either of two rows are one at most.
OneOf(row, new, k) ==
  \A i, j \in Slots : /\ row[i].key = k \/ new[i].key = k
                      /\ row[j].key = k \/ new[j].key = k
                      => i = j

\* A put changes one item: the key's, or an empty one when there is none.
LEMMA PutFacts ==
  ASSUME NEW row \in Row, NEW key \in Keys, NEW val \in Vals, NEW new \in hash_table_put(row, key, val)
  PROVE  /\ new \in Row
         /\ Touches(row, new, {key})
         /\ hash_table_get(new, key) = val
         /\ ~Holes(row) /\ One(row, key) => OneOf(row, new, key)
<1>1. PICK j \in stops(row, key) :
        /\ \A i \in stops(row, key) : j <= i
        /\ new = [row EXCEPT ![j] = [key |-> key, val |-> val]]
  BY DEF hash_table_put
<1>2. j \in Slots /\ (row[j] = Empty \/ row[j].key = key)
  BY DEF stops
<1> DEFINE it == [key |-> key, val |-> val]
<1>3. it.key = key /\ it.val = val /\ it \in Item
  BY ItemFacts
<1>4. new = [row EXCEPT ![j] = it]
  BY <1>1
<1> HIDE DEF it
<1>5. new \in Row /\ new[j] = it /\ \A i \in Slots : i # j => new[i] = row[i]
  BY <1>2, <1>3, <1>4 DEF Row
<1>6. Touches(row, new, {key})
  BY <1>2, <1>3, <1>5, ItemFacts DEF Touches
<1>7. hash_table_get(new, key) = val
  <2>1. \A i \in stops(new, key) : j <= i
    <3>1. j \in Int
      BY <1>2, RowItems
    <3>2. \A i \in stops(new, key) : i = j \/ i \in stops(row, key)
      BY <1>5 DEF stops
    <3> QED  BY <1>1, <3>1, <3>2
  <2>2. j \in found(new, key)
    BY <1>2, <1>3, <1>5, <2>1 DEF found, stops
  <2>3. \A i \in found(new, key) : i = j
    <3>1. ASSUME NEW i \in found(new, key) PROVE i = j
      <4>1. i \in Slots /\ i <= j /\ j <= i
        BY <2>1, <2>2, <3>1 DEF found, stops
      <4>2. i \in Int /\ j \in Int
        BY <1>2, <4>1, RowItems
      <4> QED  BY <4>1, <4>2
    <3> QED  BY <3>1
  <2>4. (CHOOSE i \in found(new, key) : TRUE) = j
    BY <2>2, <2>3
  <2> QED  BY <1>3, <1>5, <2>2, <2>4 DEF hash_table_get
<1>8. ASSUME ~Holes(row), One(row, key), NEW i \in Slots, row[i].key = key PROVE i = j
  <2>1. row[i] # Empty /\ i \in Int /\ j \in Int
    BY <1>2, <1>8, RowItems, ItemFacts
  <2>2. j <= i
    BY <1>1, <1>8 DEF stops
  <2>3. CASE row[j] = Empty
    BY <1>2, <1>8, <2>1, <2>2, <2>3 DEF Holes
  <2>4. CASE row[j].key = key
    BY <1>2, <1>8, <2>4 DEF One
  <2> QED  BY <1>2, <2>3, <2>4
<1>9. ~Holes(row) /\ One(row, key) => OneOf(row, new, key)
  BY <1>5, <1>8 DEF OneOf
<1> QED  BY <1>5, <1>6, <1>7, <1>9

\* A removal clears the items of the key it reaches: all, without holes.
LEMMA RmFacts ==
  ASSUME NEW row \in Row, NEW key \in Keys, NEW new, new = hash_table_rm(row, key)
  PROVE  /\ new \in Row
         /\ Touches(row, new, {key})
         /\ ~Holes(row) => hash_table_get(new, key) = None
         /\ ~Holes(row) /\ One(row, key) => OneOf(row, new, key)
<1>1. \A j \in Slots : new[j] = IF row[j].key = key /\ \A i \in 1..j : row[i] # Empty
                                THEN Empty ELSE row[j]
  BY DEF hash_table_rm
<1>2. new \in Row
  BY DEF hash_table_rm, Row
<1>3. ASSUME ~Holes(row), NEW j \in Slots PROVE new[j].key # key
  <2>1. SUFFICES ASSUME row[j].key = key PROVE new[j].key # key
    BY <1>1
  <2>2. row[j] # Empty /\ j \in Int
    BY <2>1, RowItems, ItemFacts
  <2>3. \A i \in 1..j : i \in Slots /\ i \in Int
    BY KvAssumption DEF Slots
  <2>4. \A i \in 1..j : row[i] # Empty
    BY <1>3, <2>2, <2>3 DEF Holes
  <2>5. new[j] = Empty
    BY <1>1, <2>1, <2>4
  <2> QED  BY <2>5, ItemFacts
<1>4. \A j \in Slots : new[j] # row[j] => new[j] = Empty /\ row[j].key = key
  BY <1>1
<1>5. Touches(row, new, {key})
  BY <1>4, ItemFacts DEF Touches
<1>6. ~Holes(row) => hash_table_get(new, key) = None
  BY <1>3 DEF hash_table_get, found, stops
<1>7. ~Holes(row) /\ One(row, key) => OneOf(row, new, key)
  BY <1>3 DEF One, OneOf
<1> QED  BY <1>2, <1>5, <1>6, <1>7

\* What a call makes of a row: it is about the call's key only, and without holes
\* the key reads as the call says.
LEMMA NewRowFacts ==
  ASSUME NEW row \in Row, NEW c, c.op \in Ops, c.key \in Keys, c.op = "set" => c.val \in Vals,
         c.op = "del" => c.val = None, NEW new \in NewRows(row, c)
  PROVE  /\ new \in Row
         /\ Touches(row, new, {c.key})
         /\ ~Holes(row) => hash_table_get(new, c.key) = c.val
         /\ ~Holes(row) /\ One(row, c.key) => OneOf(row, new, c.key)
<1>1. CASE c.op = "set"
  <2>1. c.val \in Vals /\ new \in hash_table_put(row, c.key, c.val)
    BY <1>1 DEF NewRows
  <2> QED  BY <2>1, PutFacts
<1>2. CASE c.op = "del"
  <2>1. c.val = None /\ new = hash_table_rm(row, c.key)
    BY <1>2 DEF NewRows
  <2> QED  BY <2>1, RmFacts
<1>3. c.op # "get"
  BY DEF NewRows
<1> QED  BY <1>1, <1>2, <1>3 DEF Ops

\* What is left of an item is one of its versions, or has the key of one, or none.
LEMMA TearFacts ==
  ASSUME NEW S, S \subseteq Item \cup {Empty}, NEW x \in Tears(S)
  PROVE  /\ x \in Item \cup {Empty}
         /\ x.key = Torn \/ \E v \in S : v.key = x.key
         /\ \A v : S = {v} => x = v
<1>1. CASE x \in S
  BY <1>1
<1>2. CASE x \notin S
  <2>1. /\ ~(\E v \in S : S = {v})
        /\ x \in [key : Mixed({v.key : v \in S}) \ {None}, val : {Torn}]
    BY <1>2 DEF Tears
  <2>2. x.key # None /\ x.val = Torn /\ (x.key = Torn \/ \E v \in S : v.key = x.key)
        /\ x = [key |-> x.key, val |-> x.val]
    BY <2>1 DEF Mixed
  <2>3. x.key \in Keys \cup {Torn}
    BY <2>2, ItemFacts
  <2>4. x \in Item
    BY <2>2, <2>3 DEF Item
  <2> QED  BY <2>1, <2>2, <2>4
<1> QED  BY <1>1, <1>2

\* A short write is about the keys the whole one is about.
LEMMA ShortFacts ==
  ASSUME NEW row \in Row, NEW new \in Row, NEW x \in Short(row, new)
  PROVE  /\ x \in Row
         /\ \A K : Touches(row, new, K) => Touches(row, x, K)
         /\ \A k \in Keys : OneOf(row, new, k) => One(x, k)
         /\ row = new => x = row
<1>0. PICK j \in Slots :
        x \in {[i \in Slots |-> CASE i < j -> new[i] [] i = j -> y [] i > j -> row[i]] :
               y \in Tears({row[j], new[j]})}
  BY Zenon DEF Short
<1>1. PICK y \in Tears({row[j], new[j]}) :
        x = [i \in Slots |-> CASE i < j -> new[i] [] i = j -> y [] i > j -> row[i]]
  BY <1>0
<1>2. \A i \in Slots : i \in Int /\ row[i] \in Item \cup {Empty} /\ new[i] \in Item \cup {Empty}
  BY RowItems
<1>3. /\ y \in Item \cup {Empty}
      /\ y.key = Torn \/ y.key = row[j].key \/ y.key = new[j].key
      /\ row[j] = new[j] => y = row[j]
  BY <1>2, TearFacts
<1>4. \A i \in Slots : x[i] = (IF i < j THEN new[i] ELSE IF i = j THEN y ELSE row[i])
  BY <1>1, <1>2
<1>5. x \in Row
  BY <1>1, <1>2, <1>3 DEF Row
<1>6. \A i \in Slots : /\ x[i].key = Torn \/ x[i].key = row[i].key \/ x[i].key = new[i].key
                       /\ row[i] = new[i] => x[i] = row[i]
  BY <1>3, <1>4
<1>7. \A K : Touches(row, new, K) => Touches(row, x, K)
  BY <1>6, ItemFacts DEF Touches
<1>8. \A k \in Keys : OneOf(row, new, k) => One(x, k)
  BY <1>6, ItemFacts DEF OneOf, One
<1>9. row = new => x = row
  BY <1>5, <1>6 DEF Row
<1> QED  BY <1>5, <1>7, <1>8, <1>9

-----------------------------------------------------------------------------
(* Types and arguments *)

\* The record of a call.
CallType == [pc : {"idle", "open", "create", "load", "lock", "read", "write", "sync", "unlock"},
             op : Ops, key : Keys \cup {None}, val : Vals \cup {None},
             h : Threads \cup {None}, i : 0..TABLE_COL_SIZE, buf : Row]

\* Constants, and the record of no call.
LEMMA IdleFacts ==
  /\ TABLE_COL_SIZE \in Nat /\ \A k \in Keys : Hash[k] \in Rows /\ Hash[k] \in Int
  /\ Idle \in CallType /\ Idle.pc = "idle" /\ Idle.i = 0
<1>1. TABLE_COL_SIZE \in Nat /\ \A k \in Keys : Hash[k] \in Rows /\ Hash[k] \in Int
  BY KvAssumption DEF Rows
<1>2. EmptyRow \in Row
  BY ItemFacts
<1> HIDE DEF EmptyRow
<1> QED  BY <1>1, <1>2 DEF Idle, CallType, Ops

\* The new record of the thread that moves, for each step of a call.
LEMMA CallRecords ==
  ASSUME TypeOK, CallInv, NEW t \in Threads, Call(t) \/ Step(t)
  PROVE  /\ th' \in [Threads -> CallType]
         /\ \A u \in Threads : u # t => th'[u] = th[u]
         /\ CallInv'
<1> USE IdleFacts
<1>0. th \in [Threads -> CallType]
  BY DEF TypeOK, CallType
<1>1. ASSUME NEW c \in CallType, th' = [th EXCEPT ![t] = c],
             c.pc # "idle" =>
               /\ c.key \in Keys
               /\ c.op = "set" => c.val \in Vals
               /\ c.op = "del" => c.val = None
               /\ c.pc = "open" => c.i = 0
      PROVE  /\ th' \in [Threads -> CallType]
             /\ \A u \in Threads : u # t => th'[u] = th[u]
             /\ CallInv'
  <2>1. th' \in [Threads -> CallType] /\ th'[t] = c /\ \A u \in Threads : u # t => th'[u] = th[u]
    BY <1>0, <1>1
  <2> QED  BY <1>1, <2>1 DEF CallInv
<1>2. CASE Call(t)
  <2>1. PICK op \in Ops, k \in Keys, v \in Vals \cup {None} :
          call(t, op, k, v) /\ (op = "set" => v \in Vals) /\ (op = "del" => v = None)
    BY <1>2 DEF Call, Ops
  <2> DEFINE c == [Idle EXCEPT !.pc = IF file = None THEN "open" ELSE "load",
                               !.op = op, !.key = k, !.val = v]
  <2>3. c \in CallType /\ c.key = k /\ c.op = op /\ c.val = v /\ c.i = 0
    BY DEF CallType
  <2>4. th' = [th EXCEPT ![t] = c]
    BY <2>1 DEF call
  <2> HIDE DEF c
  <2> QED  BY <1>1, <2>1, <2>3, <2>4
<1>3. ASSUME th[t].pc # "idle", file # None, th' = [th EXCEPT ![t] = [@ EXCEPT !.pc = "lock", !.h = file]]
      PROVE  \E c \in CallType : /\ th' = [th EXCEPT ![t] = c] /\ c.pc = "lock"
                                 /\ c.key = th[t].key /\ c.op = th[t].op /\ c.val = th[t].val
  <2> DEFINE c == [th[t] EXCEPT !.pc = "lock", !.h = file]
  <2>0. file \in Threads \cup {None}
    BY DEF TypeOK
  <2>1. c \in CallType /\ c.pc = "lock" /\ c.key = th[t].key /\ c.op = th[t].op /\ c.val = th[t].val
    BY <1>0, <2>0 DEF CallType
  <2>2. th' = [th EXCEPT ![t] = c]
    BY <1>0, <1>3 DEF CallType
  <2> QED  BY <2>1, <2>2
<1>4. ASSUME th[t].pc # "idle", NEW p \in {"create", "load", "read", "sync", "unlock"},
             th' = [th EXCEPT ![t].pc = p]
      PROVE  \E c \in CallType : /\ th' = [th EXCEPT ![t] = c] /\ c.pc = p
                                 /\ c.key = th[t].key /\ c.op = th[t].op /\ c.val = th[t].val
  <2> DEFINE c == [th[t] EXCEPT !.pc = p]
  <2>1. c \in CallType /\ c.pc = p /\ c.key = th[t].key /\ c.op = th[t].op /\ c.val = th[t].val
    BY <1>0 DEF CallType
  <2>2. th' = [th EXCEPT ![t] = c]
    BY <1>0, <1>4 DEF CallType
  <2> QED  BY <2>1, <2>2
<1>5. ASSUME th[t].pc = "create", more_rows(th[t].i), th' = [th EXCEPT ![t].i = @ + 1]
      PROVE  \E c \in CallType : /\ th' = [th EXCEPT ![t] = c] /\ c.pc = "create"
                                 /\ c.key = th[t].key /\ c.op = th[t].op /\ c.val = th[t].val
  <2> DEFINE c == [th[t] EXCEPT !.i = @ + 1]
  <2>0. th[t].i + 1 \in 0..TABLE_COL_SIZE
    BY <1>0, <1>5 DEF CallType, more_rows
  <2>1. c \in CallType /\ c.pc = "create" /\ c.key = th[t].key /\ c.op = th[t].op /\ c.val = th[t].val
    BY <1>0, <1>5, <2>0 DEF CallType
  <2>2. th' = [th EXCEPT ![t] = c]
    BY <1>0, <1>5 DEF CallType
  <2> QED  BY <2>1, <2>2
<1>6. ASSUME NEW row \in Row, th' = [th EXCEPT ![t].pc = "write", ![t].buf = row]
      PROVE  \E c \in CallType : /\ th' = [th EXCEPT ![t] = c] /\ c.pc = "write"
                                 /\ c.key = th[t].key /\ c.op = th[t].op /\ c.val = th[t].val
  <2> DEFINE c == [th[t] EXCEPT !.pc = "write", !.buf = row]
  <2>1. c \in CallType /\ c.pc = "write" /\ c.key = th[t].key /\ c.op = th[t].op /\ c.val = th[t].val
    BY <1>0, <1>6 DEF CallType
  <2>2. th' = [th EXCEPT ![t] = c]
    BY <1>0, <1>6 DEF CallType
  <2> QED  BY <2>1, <2>2
<1>7. CASE th' = [th EXCEPT ![t] = Idle]
  BY <1>1, <1>7
<1>8. CASE Step(t) /\ th' # [th EXCEPT ![t] = Idle]
  <2>1. th[t].pc # "idle"
    BY <1>8 DEF Step, kv_open, create_hash_file, kv_load, kv_lock, read_kv_item, write_kv_item, kv_fsync,
                kv_unlock
  <2>2. /\ th[t].key \in Keys
        /\ th[t].op = "set" => th[t].val \in Vals
        /\ th[t].op = "del" => th[t].val = None
    BY <2>1 DEF CallInv
  <2>3. \E c \in CallType : /\ th' = [th EXCEPT ![t] = c] /\ c.pc # "open"
                            /\ c.key = th[t].key /\ c.op = th[t].op /\ c.val = th[t].val
    <3>1. CASE kv_open(t)
      BY <1>4, <1>8, <2>1, <3>1 DEF kv_open, Opened, Failed
    <3>2. CASE create_hash_file(t)
      BY <1>4, <1>5, <1>8, <2>1, <3>2 DEF create_hash_file, Opened, Failed
    <3>3. CASE kv_lock(t) \/ write_kv_item(t) \/ kv_fsync(t)
      BY <1>4, <2>1, <3>3 DEF kv_lock, write_kv_item, kv_fsync
    <3>5. CASE kv_load(t)
      <4>1. file # None
        BY <1>8, <3>5 DEF kv_load
      <4> QED  BY <1>3, <2>1, <3>5, <4>1 DEF kv_load
    <3>4. CASE read_kv_item(t)
      <4>1. CASE th' = [th EXCEPT ![t].pc = "unlock"]
        BY <1>4, <2>1, <4>1
      <4>2. CASE \E row \in NewRows(rows[Hash[th[t].key]], th[t]) :
                   th' = [th EXCEPT ![t].pc = "write", ![t].buf = row]
        <5>1. rows[Hash[th[t].key]] \in Row /\ th[t].op \in Ops
          BY <1>0, <2>2 DEF TypeOK, CallType
        <5>2. \A row \in NewRows(rows[Hash[th[t].key]], th[t]) : row \in Row
          BY <2>2, <5>1, NewRowFacts
        <5> QED  BY <1>6, <4>2, <5>2
      <4> QED  BY <3>4, <4>1, <4>2 DEF read_kv_item
    <3> QED  BY <1>8, <3>1, <3>2, <3>3, <3>4, <3>5 DEF Step, kv_unlock
  <2> QED  BY <1>1, <2>2, <2>3
<1> QED  BY <1>2, <1>7, <1>8

\* A write changes one row, and adds a version to each of its items.
LEMMA WriteFacts ==
  ASSUME TypeOK, NEW loc \in Rows, NEW row \in Row, Writes(loc, row)
  PROVE  /\ rows' \in [Rows -> Row] /\ rows'[loc] = row
         /\ medium' \in [Rows -> [Slots -> SUBSET (Item \cup {Empty})]]
         /\ \A j \in Slots : medium'[loc][j] = medium[loc][j] \cup {row[j]}
         /\ \A r \in Rows : r # loc => rows'[r] = rows[r] /\ medium'[r] = medium[r]
         /\ holed' \subseteq Rows /\ holed \subseteq holed' /\ (loc \notin holed' => ~Holes(row))
         /\ \A r \in Rows : r # loc /\ r \notin holed => r \notin holed'
<1>1. /\ rows \in [Rows -> Row] /\ medium \in [Rows -> [Slots -> SUBSET (Item \cup {Empty})]]
      /\ holed \subseteq Rows
  BY DEF TypeOK
<1>2. rows' \in [Rows -> Row] /\ rows'[loc] = row /\ \A r \in Rows : r # loc => rows'[r] = rows[r]
  BY <1>1 DEF Writes
<1> DEFINE m == [j \in Slots |-> medium[loc][j] \cup {row[j]}]
<1>3. medium' = [medium EXCEPT ![loc] = m]
  BY <1>1 DEF Writes
<1>4. \A j \in Slots : medium[loc][j] \subseteq Item \cup {Empty} /\ row[j] \in Item \cup {Empty}
  BY <1>1, RowItems
<1>5. m \in [Slots -> SUBSET (Item \cup {Empty})] /\ \A j \in Slots : m[j] = medium[loc][j] \cup {row[j]}
  BY <1>4
<1> HIDE DEF m
<1>6. /\ medium' \in [Rows -> [Slots -> SUBSET (Item \cup {Empty})]] /\ medium'[loc] = m
      /\ \A r \in Rows : r # loc => medium'[r] = medium[r]
  BY <1>1, <1>3, <1>5
<1>7. /\ holed' \subseteq Rows /\ holed \subseteq holed' /\ (loc \notin holed' => ~Holes(row))
      /\ \A r \in Rows : r # loc /\ r \notin holed => r \notin holed'
  BY <1>1 DEF Writes
<1> QED  BY <1>2, <1>5, <1>6, <1>7

\* What may be left of the file are rows, made of what is left of its items.
LEMMA LeftFacts ==
  ASSUME TypeOK, NEW n, NEW f \in Left(n)
  PROVE  /\ f \in [Rows -> Row]
         /\ \A r \in Rows : r < n => \A j \in Slots : f[r][j] \in Tears(medium[r][j])
         /\ \A r \in Rows : ~(r < n) => f[r] = EmptyRow
<1>1. /\ \A r \in Rows : r < n => \A j \in Slots : f[r][j] \in Tears(medium[r][j])
      /\ \A r \in Rows : ~(r < n) => f[r] = EmptyRow
  BY Zenon DEF Left
<1> DEFINE R == {EmptyRow} \cup UNION {[Slots -> UNION {Tears(medium[r][j]) : j \in Slots}] : r \in Rows}
<1>2. f \in [Rows -> R]
  BY Zenon DEF Left
<1>3. \A row \in R : \E S : row \in [Slots -> S]
  <2>1. EmptyRow \in [Slots -> {Empty}]
    BY DEF EmptyRow
  <2> QED  BY <2>1, Zenon
<1> HIDE DEF R
<1>4. ASSUME NEW r \in Rows PROVE f[r] \in Row
  <2>1. CASE ~(r < n)
    BY <1>1, <2>1, ItemFacts
  <2>2. CASE r < n
    <3>1. ASSUME NEW j \in Slots PROVE f[r][j] \in Item \cup {Empty}
      <4>1. medium[r][j] \subseteq Item \cup {Empty}
        BY DEF TypeOK
      <4> QED  BY <1>1, <2>2, <4>1, TearFacts
    <3>2. PICK S : f[r] \in [Slots -> S]
      BY <1>2, <1>3
    <3> QED  BY <3>1, <3>2 DEF Row
  <2> QED  BY <2>1, <2>2
<1> QED  BY <1>1, <1>2, <1>4

\* The rows that a call and the creation of the file write.
LEMMA Written ==
  ASSUME TypeOK, CallInv, NEW t \in Threads
  PROVE  /\ \A i \in Rows : Short(rows[i], EmptyRow) \subseteq Row
         /\ th[t].pc # "idle" =>
              /\ th[t].key \in Keys /\ th[t].op \in Ops
              /\ th[t].op = "set" => th[t].val \in Vals
              /\ th[t].op = "del" => th[t].val = None
              /\ Hash[th[t].key] \in Rows /\ th[t].buf \in Row
              /\ Short(rows[Hash[th[t].key]], th[t].buf) \subseteq Row
<1>1. rows \in [Rows -> Row] /\ th[t] \in CallType
  BY DEF TypeOK, CallType
<1>2. \A i \in Rows : Short(rows[i], EmptyRow) \subseteq Row
  BY <1>1, ItemFacts, ShortFacts
<1>3. th[t].buf \in Row /\ th[t].op \in Ops
  BY <1>1 DEF CallType
<1>4. th[t].pc # "idle" =>
        /\ th[t].key \in Keys /\ Hash[th[t].key] \in Rows
        /\ th[t].op = "set" => th[t].val \in Vals
        /\ th[t].op = "del" => th[t].val = None
  BY IdleFacts DEF CallInv
<1>5. ASSUME th[t].pc # "idle" PROVE Short(rows[Hash[th[t].key]], th[t].buf) \subseteq Row
  <2>1. rows[Hash[th[t].key]] \in Row
    BY <1>1, <1>4, <1>5
  <2> QED  BY <1>3, <2>1, ShortFacts
<1> QED  BY <1>2, <1>3, <1>4, <1>5, Zenon

\* Every variable keeps its type, and calls keep their arguments.
LEMMA TypeStep ==
  ASSUME TypeOK, CallInv, [Next]_vars PROVE TypeOK' /\ CallInv'
<1> USE IdleFacts, KvAssumption
<1>0. /\ {MaxCalls, MaxFaults, MaxCrashes} \subseteq Nat /\ th \in [Threads -> CallType]
      /\ \A t \in Threads : th[t].i \in 0..TABLE_COL_SIZE /\ th[t].buf \in Row
  BY DEF TypeOK, CallType
<1>1. CASE power_lost
  <2>1. th' \in [Threads -> CallType] /\ \A t \in Threads : th'[t].pc = "idle"
    BY <1>1 DEF power_lost
  <2>2. crashes' \in 0..MaxCrashes
    BY <1>1 DEF power_lost, TypeOK
  <2>3. rows' \in [Rows -> Row]
    BY <1>1, LeftFacts DEF power_lost
  <2>4. medium' \in [Rows -> [Slots -> SUBSET (Item \cup {Empty})]]
    <3>1. \A r \in Rows, j \in Slots : {rows'[r][j]} \subseteq Item \cup {Empty}
      BY <2>3, RowItems
    <3>2. medium' = [r \in Rows |-> [j \in Slots |-> {rows'[r][j]}]]
      BY <1>1 DEF power_lost
    <3> QED  BY <3>1, <3>2
  <2>5. exists' \in BOOLEAN /\ solid' \in BOOLEAN /\ raced' \in BOOLEAN
    BY <1>1, Zenon DEF power_lost, TypeOK
  <2>6. size' \in 0..TABLE_COL_SIZE
    BY <1>1 DEF power_lost, TypeOK
  <2>7. /\ map' \in [Keys -> Vals \cup {None, Unknown}]
        /\ unsynced' \cup lost' \subseteq Keys /\ holed' \subseteq Rows
    BY <1>1 DEF power_lost, TypeOK
  <2>8. file' \in Threads \cup {None} /\ lock' \in [Threads -> Threads \cup {None}]
    BY <1>1 DEF power_lost
  <2>9. calls' \in 0..MaxCalls /\ faults' \in 0..MaxFaults
    BY <1>1 DEF power_lost, TypeOK
  <2>10. CallInv'
    BY <2>1 DEF CallInv
  <2> QED  BY <2>1, <2>2, <2>3, <2>4, <2>5, <2>6, <2>7, <2>8, <2>9, <2>10 DEF TypeOK, CallType
<1>2. ASSUME NEW t \in Threads, Call(t) \/ Step(t) PROVE TypeOK' /\ CallInv'
  <2>1. th' \in [Threads -> CallType] /\ CallInv'
    BY <1>2, CallRecords
  <2>2. exists' \in BOOLEAN /\ raced' \in BOOLEAN /\ solid' \in BOOLEAN
    BY <1>2, Zenon DEF TypeOK, Call, Step, call, kv_open, create_hash_file, kv_load, kv_lock, read_kv_item,
                       write_kv_item, kv_fsync, kv_unlock, disk, hist
  <2>3. calls' \in 0..MaxCalls /\ crashes' \in 0..MaxCrashes
    <3>1. CASE Call(t)
      <4>1. calls < MaxCalls /\ calls' = calls + 1 /\ UNCHANGED crashes
        BY <3>1, Zenon DEF Call, call
      <4> QED  BY <4>1 DEF TypeOK
    <3>2. CASE Step(t)
      <4>1. UNCHANGED <<calls, crashes>>
        BY <3>2, Zenon DEF Step, kv_open, create_hash_file, kv_load, kv_lock, read_kv_item, write_kv_item,
                           kv_fsync, kv_unlock
      <4> QED  BY <4>1 DEF TypeOK
    <3> QED  BY <1>2, <3>1, <3>2
  <2>4. faults' \in 0..MaxFaults
    <3>1. faults' = faults \/ Fault
      BY <1>2, Zenon DEF Call, call, Step, kv_open, create_hash_file, kv_load, kv_lock, read_kv_item,
                         write_kv_item, kv_fsync, kv_unlock, Failed
    <3> QED  BY <3>1 DEF TypeOK, Fault
  <2>5. /\ size' \in 0..TABLE_COL_SIZE /\ rows' \in [Rows -> Row] /\ holed' \subseteq Rows
        /\ medium' \in [Rows -> [Slots -> SUBSET (Item \cup {Empty})]]
    <3>1. CASE create_hash_file(t)
      <4>0. more_rows(th[t].i) => th[t].i \in Rows
        BY <1>0 DEF more_rows, Rows
      <4>1. \/ UNCHANGED <<rows, medium, holed>>
            \/ th[t].i \in Rows /\ \E row \in Row : Writes(th[t].i, row)
        BY <3>1, <4>0, Written, ItemFacts DEF create_hash_file
      <4>2. size' = size \/ (more_rows(th[t].i) /\ size' = (IF size > th[t].i THEN size ELSE th[t].i + 1))
        BY <3>1 DEF create_hash_file
      <4>3. size' \in 0..TABLE_COL_SIZE
        BY <1>0, <4>2 DEF more_rows, TypeOK
      <4> QED  BY <4>1, <4>3, WriteFacts DEF TypeOK
    <3>2. CASE write_kv_item(t)
      <4>0. th[t].pc # "idle"
        BY <3>2 DEF write_kv_item
      <4>1. \/ UNCHANGED <<rows, medium, holed>>
            \/ Hash[th[t].key] \in Rows /\ \E row \in Row : Writes(Hash[th[t].key], row)
        BY <3>2, <4>0, Written DEF write_kv_item
      <4>2. UNCHANGED size
        BY <3>2 DEF write_kv_item
      <4> QED  BY <4>1, <4>2, WriteFacts DEF TypeOK
    <3>3. CASE kv_fsync(t)
      <4>1. UNCHANGED <<size, rows, holed>> /\ Hash[th[t].key] \in Rows
        BY <3>3, Written DEF kv_fsync
      <4>2. rows[Hash[th[t].key]] \in Row
        BY <4>1 DEF TypeOK
      <4> DEFINE m == [j \in Slots |-> {rows[Hash[th[t].key]][j]}]
      <4>3. m \in [Slots -> SUBSET (Item \cup {Empty})]
        BY <4>2, RowItems
      <4>4. medium' = medium \/ medium' = [medium EXCEPT ![Hash[th[t].key]] = m]
        BY <3>3, Zenon DEF kv_fsync
      <4> HIDE DEF m
      <4>5. medium' \in [Rows -> [Slots -> SUBSET (Item \cup {Empty})]]
        BY <4>1, <4>3, <4>4 DEF TypeOK
      <4> QED  BY <4>1, <4>5 DEF TypeOK
    <3> QED  BY <1>2, <3>1, <3>2, <3>3 DEF TypeOK, Call, Step, call, kv_open, kv_load, kv_lock, read_kv_item,
                                           kv_unlock, disk, hist
  <2>6. file' \in Threads \cup {None} /\ lock' \in [Threads -> Threads \cup {None}]
    <3>1. \/ UNCHANGED <<file, lock>> \/ Opened(t) \/ Failed(t)
          \/ UNCHANGED file /\ \E h : lock' = [lock EXCEPT ![h] = t] \/ lock' = [lock EXCEPT ![h] = None]
      BY <1>2, Zenon DEF Call, call, Step, kv_open, create_hash_file, kv_load, kv_lock, read_kv_item,
                         write_kv_item, kv_fsync, kv_unlock
    <3> QED  BY <3>1 DEF TypeOK, Opened, Failed
  <2>7. map' \in [Keys -> Vals \cup {None, Unknown}] /\ unsynced' \cup lost' \subseteq Keys
    <3>1. CASE write_kv_item(t)
      <4>1. th[t].key \in Keys /\ th[t].val \in Vals \cup {None}
        BY <1>0, <3>1 DEF write_kv_item, CallInv, CallType
      <4>2. map \in [Keys -> Vals \cup {None, Unknown}] /\ unsynced \cup lost \subseteq Keys
        BY DEF TypeOK
      <4>3. /\ \E v \in Vals \cup {None, Unknown} : map' = map \/ map' = [map EXCEPT ![th[t].key] = v]
            /\ unsynced' \subseteq unsynced \cup {th[t].key} /\ lost' = lost
        BY <3>1, <4>1 DEF write_kv_item
      <4> QED  BY <4>1, <4>2, <4>3
    <3>2. CASE kv_fsync(t)
      BY <3>2 DEF TypeOK, kv_fsync
    <3> QED  BY <1>2, <3>1, <3>2 DEF TypeOK, Call, Step, call, kv_open, create_hash_file, kv_load, kv_lock,
                                     read_kv_item, kv_unlock, hist
  <2> QED  BY <2>1, <2>2, <2>3, <2>4, <2>5, <2>6, <2>7 DEF TypeOK, CallType
<1>3. CASE UNCHANGED vars
  BY <1>3 DEF vars, disk, hist, TypeOK, CallInv
<1> QED  BY <1>1, <1>2, <1>3 DEF Next

-----------------------------------------------------------------------------
(* The steps of a call *)

\* What the file and the medium hold, and what it stands for.
data == <<size, rows, medium, solid, map, unsynced, holed, lost>>

\* What each step does to the record of its thread, the file and the lock.
CallEffect(t) ==
  /\ UNCHANGED <<exists, file, lock, data>> /\ th[t].pc = "idle"
  /\ th'[t].pc = (IF file = None THEN "open" ELSE "load")
  /\ raced' = (raced \/ (file = None /\ \E u \in Threads \ {t} : Opening(u)))

OpenEffect(t) ==
  /\ UNCHANGED <<data, raced>> /\ th[t].pc = "open"
  /\ \/ exists /\ exists' /\ file' = t /\ lock' = [lock EXCEPT ![t] = None] /\ th'[t].pc = "load"
     \/ ~exists /\ exists' /\ UNCHANGED <<file, lock>> /\ th'[t].pc = "create" /\ th'[t].i = 0
     \/ UNCHANGED <<exists, lock>> /\ file' = None /\ th'[t].pc = "idle"

CreateEffect(t) ==
  /\ UNCHANGED <<exists, map, unsynced, lost, raced>> /\ th[t].pc = "create"
  /\ \/ /\ th[t].i \in Rows /\ Writes(th[t].i, EmptyRow) /\ ~solid'
        /\ size' = (IF size > th[t].i THEN size ELSE th[t].i + 1)
        /\ th'[t].pc = "create" /\ th'[t].i = th[t].i + 1 /\ UNCHANGED <<file, lock>>
     \/ /\ th[t].i \in Rows /\ \E row \in Short(rows[th[t].i], EmptyRow) : Writes(th[t].i, row)
        /\ UNCHANGED <<size, solid, lock>> /\ file' = None /\ th'[t].pc = "idle"
     \/ /\ UNCHANGED <<size, rows, medium, holed>> /\ solid'
        /\ file' = t /\ lock' = [lock EXCEPT ![t] = None] /\ th'[t].pc = "load"
     \/ UNCHANGED <<size, rows, medium, holed, solid, lock>> /\ file' = None /\ th'[t].pc = "idle"

LoadEffect(t) ==
  /\ UNCHANGED <<exists, file, lock, data, raced>> /\ th[t].pc = "load"
  /\ \/ th'[t].pc = "idle"
     \/ file # None /\ th'[t].pc = "lock" /\ th'[t].h = file

LockEffect(t) ==
  /\ UNCHANGED <<exists, file, data, raced>> /\ th[t].pc = "lock"
  /\ lock[th[t].h] = None /\ lock' = [lock EXCEPT ![th[t].h] = t]
  /\ th'[t].pc = "read" /\ th'[t].h = th[t].h

ReadEffect(t) ==
  /\ UNCHANGED <<exists, file, lock, data, raced>> /\ th[t].pc = "read"
  /\ th'[t].h = th[t].h /\ th'[t].key = th[t].key /\ th'[t].op = th[t].op /\ th'[t].val = th[t].val
  /\ \/ th'[t].pc = "unlock"
     \/ /\ th'[t].pc = "write" /\ size > Hash[th[t].key]
        /\ th'[t].buf \in NewRows(rows[Hash[th[t].key]], th[t])

WriteEffect(t) ==
  /\ UNCHANGED <<exists, size, solid, file, lock, lost, raced>> /\ th[t].pc = "write"
  /\ th'[t].h = th[t].h /\ th'[t].key = th[t].key
  /\ \/ /\ Writes(Hash[th[t].key], th[t].buf) /\ th'[t].pc = "sync"
        /\ map' = [map EXCEPT ![th[t].key] = th[t].val] /\ unsynced' = unsynced \cup {th[t].key}
     \/ /\ \E row \in Short(rows[Hash[th[t].key]], th[t].buf) : Writes(Hash[th[t].key], row)
        /\ map' = [map EXCEPT ![th[t].key] = Unknown] /\ unsynced' = unsynced \cup {th[t].key}
        /\ th'[t].pc = "unlock"
     \/ UNCHANGED <<rows, medium, map, unsynced, holed>> /\ th'[t].pc = "unlock"

SyncEffect(t) ==
  /\ UNCHANGED <<exists, size, rows, file, lock, map, holed, lost, raced>> /\ th[t].pc = "sync"
  /\ th'[t].h = th[t].h /\ th'[t].pc = "unlock"
  /\ \/ UNCHANGED <<solid, medium, unsynced>>
     \/ /\ solid' /\ unsynced' = {k \in unsynced : Hash[k] # Hash[th[t].key]}
        /\ medium' = [medium EXCEPT ![Hash[th[t].key]] = [j \in Slots |-> {rows[Hash[th[t].key]][j]}]]

UnlockEffect(t) ==
  /\ UNCHANGED <<exists, file, data, raced>> /\ th[t].pc = "unlock"
  /\ lock' = [lock EXCEPT ![th[t].h] = None] /\ th'[t].pc = "idle"

\* Every step has one of these effects.
LEMMA Effects ==
  ASSUME TypeOK, CallInv, NEW t \in Threads, Call(t) \/ Step(t)
  PROVE  \/ CallEffect(t) \/ OpenEffect(t) \/ CreateEffect(t) \/ LoadEffect(t) \/ LockEffect(t)
         \/ ReadEffect(t) \/ WriteEffect(t) \/ SyncEffect(t) \/ UnlockEffect(t)
<1> USE IdleFacts DEF disk, hist, data
<1>0. th \in [Threads -> CallType]
  BY DEF TypeOK, CallType
<1>1. ASSUME Call(t) PROVE CallEffect(t)
  <2>1. PICK op \in Ops, k \in Keys, v \in Vals \cup {None} : call(t, op, k, v)
    BY <1>1 DEF Call, Ops
  <2>2. th'[t] = [Idle EXCEPT !.pc = IF file = None THEN "open" ELSE "load",
                              !.op = op, !.key = k, !.val = v]
    BY <1>0, <2>1 DEF call
  <2>3. th'[t].pc = (IF file = None THEN "open" ELSE "load")
    BY <2>2 DEF CallType
  <2>4. raced' = (raced \/ (file = None /\ \E u \in Threads \ {t} : Opening(u)))
    BY <2>1, Zenon DEF call
  <2>5. UNCHANGED <<exists, file, lock, data>> /\ th[t].pc = "idle"
    BY <2>1 DEF call
  <2> QED  BY <2>3, <2>4, <2>5, Zenon DEF CallEffect
<1>2. ASSUME NEW p, th' = [th EXCEPT ![t].pc = p]
      PROVE  /\ th'[t].pc = p /\ th'[t].h = th[t].h /\ th'[t].key = th[t].key
             /\ th'[t].i = th[t].i
  BY <1>0, <1>2 DEF CallType
<1>3. ASSUME Opened(t)
      PROVE  /\ file' = t /\ lock' = [lock EXCEPT ![t] = None] /\ th'[t].pc = "load"
  BY <1>2, <1>3 DEF Opened
<1>4. ASSUME Failed(t) PROVE file' = None /\ th'[t].pc = "idle" /\ UNCHANGED lock
  BY <1>0, <1>4 DEF Failed
<1>5. ASSUME kv_open(t) PROVE OpenEffect(t)
  <2>1. UNCHANGED <<data, raced>> /\ th[t].pc = "open" /\ th[t].i = 0
    BY <1>5 DEF kv_open, CallInv
  <2>2. CASE exists /\ Opened(t) /\ UNCHANGED exists
    BY <1>3, <2>1, <2>2 DEF OpenEffect
  <2>3. CASE ~exists /\ exists' = TRUE /\ th' = [th EXCEPT ![t].pc = "create"] /\ UNCHANGED <<file, lock>>
    BY <1>2, <2>1, <2>3 DEF OpenEffect
  <2>4. CASE Failed(t) /\ UNCHANGED exists
    BY <1>4, <2>1, <2>4 DEF OpenEffect
  <2> QED  BY <1>5, <2>2, <2>3, <2>4 DEF kv_open
<1>6. ASSUME create_hash_file(t) PROVE CreateEffect(t)
  <2>1. UNCHANGED <<exists, map, unsynced, lost, raced>> /\ th[t].pc = "create"
    BY <1>6 DEF create_hash_file
  <2>2. more_rows(th[t].i) => th[t].i \in Rows
    BY <1>0 DEF CallType, more_rows, Rows
  <2>3. CASE /\ more_rows(th[t].i)
             /\ Writes(th[t].i, EmptyRow)
             /\ size' = (IF size > th[t].i THEN size ELSE th[t].i + 1)
             /\ solid' = FALSE
             /\ th' = [th EXCEPT ![t].i = @ + 1]
             /\ UNCHANGED <<file, lock, faults>>
    <3>1. th'[t].pc = "create" /\ th'[t].i = th[t].i + 1
      BY <1>0, <2>1, <2>3 DEF CallType
    <3> QED  BY <2>1, <2>2, <2>3, <3>1, Zenon DEF CreateEffect
  <2>4. CASE /\ more_rows(th[t].i) /\ Failed(t)
             /\ \E row \in Short(rows[th[t].i], EmptyRow) : Writes(th[t].i, row)
             /\ UNCHANGED <<size, solid>>
    BY <1>4, <2>1, <2>2, <2>4, Zenon DEF CreateEffect
  <2>5. CASE /\ Opened(t) /\ solid' = TRUE
             /\ UNCHANGED <<size, rows, medium, holed>>
    BY <1>3, <2>1, <2>5, Zenon DEF CreateEffect
  <2>6. CASE /\ Failed(t) /\ UNCHANGED solid
             /\ UNCHANGED <<size, rows, medium, holed>>
    BY <1>4, <2>1, <2>6, Zenon DEF CreateEffect
  <2> QED  BY <1>6, <2>3, <2>4, <2>5, <2>6, Zenon DEF create_hash_file
<1>7. ASSUME kv_load(t) PROVE LoadEffect(t)
  <2>1. UNCHANGED <<exists, file, lock, data, raced>> /\ th[t].pc = "load"
    BY <1>7 DEF kv_load
  <2>2. CASE file = None
    BY <1>0, <1>7, <2>1, <2>2 DEF kv_load, LoadEffect
  <2>3. CASE file # None
    <3>1. th'[t] = [th[t] EXCEPT !.pc = "lock", !.h = file]
      BY <1>0, <1>7, <2>3 DEF kv_load
    <3>2. th'[t].pc = "lock" /\ th'[t].h = file
      BY <1>0, <3>1 DEF CallType
    <3> QED  BY <2>1, <2>3, <3>2 DEF LoadEffect
  <2> QED  BY <2>2, <2>3
<1>8. ASSUME kv_lock(t) PROVE LockEffect(t)
  BY <1>2, <1>8 DEF kv_lock, free, LockEffect
<1>9. ASSUME read_kv_item(t) PROVE ReadEffect(t)
  <2>1. UNCHANGED <<exists, file, lock, data, raced>> /\ th[t].pc = "read"
    BY <1>9 DEF read_kv_item
  <2>2. CASE th' = [th EXCEPT ![t].pc = "unlock"]
    BY <1>0, <2>1, <2>2 DEF CallType, ReadEffect
  <2>3. CASE size > Hash[th[t].key] /\ \E row \in NewRows(rows[Hash[th[t].key]], th[t]) :
               th' = [th EXCEPT ![t].pc = "write", ![t].buf = row]
    BY <1>0, <2>1, <2>3 DEF CallType, ReadEffect
  <2> QED  BY <1>9, <2>2, <2>3 DEF read_kv_item
<1>10. ASSUME write_kv_item(t) PROVE WriteEffect(t)
  <2>1. UNCHANGED <<exists, size, solid, file, lock, lost, raced>> /\ th[t].pc = "write"
    BY <1>10 DEF write_kv_item
  <2> QED  BY <1>2, <1>10, <2>1, Zenon DEF write_kv_item, WriteEffect
<1>11. ASSUME kv_fsync(t) PROVE SyncEffect(t)
  <2>1. UNCHANGED <<exists, size, rows, file, lock, map, holed, lost, raced>> /\ th[t].pc = "sync"
    BY <1>11 DEF kv_fsync
  <2> QED  BY <1>2, <1>11, <2>1, Zenon DEF kv_fsync, SyncEffect
<1>12. ASSUME kv_unlock(t) PROVE UnlockEffect(t)
  BY <1>0, <1>12 DEF kv_unlock, UnlockEffect
<1> QED  BY <1>1, <1>5, <1>6, <1>7, <1>8, <1>9, <1>10, <1>11, <1>12, Zenon DEF Step

-----------------------------------------------------------------------------
(* Rows with holes *)

\* A row that gets a hole is in holed from then on.
LEMMA HoleStep ==
  ASSUME TypeOK, CallInv, HoleInv, [Next]_vars PROVE HoleInv'
<1>1. CASE power_lost
  BY <1>1 DEF power_lost, HoleInv
<1>2. ASSUME NEW loc \in Rows, NEW row \in Row, Writes(loc, row) PROVE HoleInv'
  BY <1>2, WriteFacts DEF HoleInv
<1>3. ASSUME UNCHANGED <<rows, holed>> PROVE HoleInv'
  BY <1>3 DEF HoleInv
<1>4. ASSUME NEW t \in Threads, Call(t) \/ Step(t) PROVE HoleInv'
  <2>1. CASE CreateEffect(t)
    <3>1. CASE UNCHANGED <<rows, holed>>
      BY <1>3, <3>1
    <3>2. CASE th[t].i \in Rows /\ \E row \in Row : Writes(th[t].i, row)
      BY <1>2, <3>2
    <3> QED  BY <2>1, <3>1, <3>2, Written, ItemFacts DEF CreateEffect
  <2>2. CASE WriteEffect(t)
    <3>1. CASE UNCHANGED <<rows, holed>>
      BY <1>3, <3>1
    <3>2. CASE Hash[th[t].key] \in Rows /\ \E row \in Row : Writes(Hash[th[t].key], row)
      BY <1>2, <3>2
    <3>3. th[t].pc # "idle"
      BY <2>2 DEF WriteEffect
    <3> QED  BY <2>2, <3>1, <3>2, <3>3, Written DEF WriteEffect
  <2>3. CASE UNCHANGED <<rows, holed>>
    BY <1>3, <2>3
  <2> QED  BY <1>4, <2>1, <2>2, <2>3, Effects DEF CallEffect, OpenEffect, LoadEffect, LockEffect, ReadEffect,
                                              SyncEffect, UnlockEffect, data
<1>5. CASE UNCHANGED vars
  BY <1>3, <1>5 DEF vars, disk, hist
<1> QED  BY <1>1, <1>4, <1>5 DEF Next

-----------------------------------------------------------------------------
(* One thread opens, one is within the lock *)

\* Every step keeps openings and holders of the lock apart, until one races.
LEMMA OpenStep ==
  ASSUME TypeOK, CallInv, OpenInv, [Next]_vars PROVE OpenInv'
<1> USE IdleFacts
<1>0. /\ rows \in [Rows -> Row] /\ th \in [Threads -> CallType]
      /\ lock \in [Threads -> Threads \cup {None}] /\ file \in Threads \cup {None}
      /\ None \notin Threads
  BY KvAssumption DEF TypeOK, CallType
<1>1. CASE power_lost
  <2>1. \A t \in Threads : th'[t].pc = "idle"
    BY <1>1 DEF power_lost
  <2>2. ASSUME ~exists', ~raced' PROVE size' = 0 /\ ~solid' /\ \A r \in Rows : rows'[r] = EmptyRow
    <3>1. ~solid' /\ rows' \in Left(size') /\ ~raced
      BY <1>1, <2>2 DEF power_lost
    <3>2. size' = 0
      BY <1>1, <2>2, <3>1 DEF power_lost, OpenInv
    <3>3. \A r \in Rows : ~(r < size')
      BY <3>2 DEF Rows
    <3> QED  BY <3>1, <3>2, <3>3, LeftFacts
  <2> QED  BY <2>1, <2>2 DEF OpenInv, Opening, Locked
<1>2. ASSUME NEW t \in Threads, Call(t) \/ Step(t), ~raced' PROVE OpenInv'
  <2>0. \A u \in Threads : u # t => th'[u] = th[u]
    BY <1>2, CallRecords
  <2>2. CASE CallEffect(t)
    <3>1. /\ UNCHANGED <<exists, size, solid, rows, file, lock>>
          /\ th'[t].pc = (IF file = None THEN "open" ELSE "load")
          /\ ~raced /\ (file = None => \A u \in Threads \ {t} : ~Opening(u))
      BY <1>2, <2>2 DEF CallEffect, data
    <3> QED  BY <2>0, <3>1 DEF OpenInv, Opening, Locked
  <2>3. ASSUME Opening(t), ~raced
        PROVE  file = None /\ \A u \in Threads \ {t} : th[u].pc = "idle"
    <3>1. file = None /\ \A u \in Threads \ {t} : ~Opening(u) /\ th[u].pc \notin Locked \cup {"load", "lock"}
      BY <2>3 DEF OpenInv
    <3> QED  BY <1>0, <3>1 DEF CallType, Opening, Locked
  <2>4. ASSUME Opening(t), ~raced, exists', th'[t].pc = "idle" \/ (file' = t /\ th'[t].pc = "load")
        PROVE  OpenInv'
    BY <1>0, <2>0, <2>3, <2>4 DEF OpenInv, Opening, Locked
  <2>5. CASE OpenEffect(t)
    <3>1. th[t].pc = "open" /\ Opening(t) /\ UNCHANGED <<size, rows, solid>> /\ ~raced
      BY <1>2, <2>5 DEF OpenEffect, Opening, data
    <3>2. CASE exists' /\ file' = t /\ th'[t].pc = "load"
      BY <2>4, <3>1, <3>2
    <3>3. CASE ~exists /\ exists' /\ UNCHANGED <<file, lock>> /\ th'[t].pc = "create" /\ th'[t].i = 0
      BY <2>0, <2>3, <3>1, <3>3 DEF OpenInv, Opening, Locked
    <3>4. CASE UNCHANGED exists /\ th'[t].pc = "idle"
      BY <1>0, <2>0, <2>3, <3>1, <3>4 DEF OpenInv, Opening, Locked
    <3> QED  BY <2>5, <3>2, <3>3, <3>4 DEF OpenEffect
  <2>6. CASE CreateEffect(t)
    <3>1. /\ th[t].pc = "create" /\ Opening(t) /\ UNCHANGED exists /\ exists /\ ~raced
          /\ size = th[t].i /\ \A r \in Rows : rows[r] = EmptyRow
      BY <1>2, <2>6 DEF CreateEffect, Opening, OpenInv
    <3>2. CASE /\ th[t].i \in Rows /\ Writes(th[t].i, EmptyRow) /\ ~solid'
               /\ size' = (IF size > th[t].i THEN size ELSE th[t].i + 1)
               /\ th'[t].pc = "create" /\ th'[t].i = th[t].i + 1 /\ UNCHANGED <<file, lock>>
      <4>1. \A r \in Rows : rows'[r] = EmptyRow
        BY <3>1, <3>2, WriteFacts, ItemFacts
      <4>2. size' = th'[t].i
        BY <3>1, <3>2 DEF Rows
      <4> QED  BY <2>0, <2>3, <3>1, <3>2, <4>1, <4>2 DEF OpenInv, Opening, Locked
    <3>3. CASE th'[t].pc = "idle" \/ (file' = t /\ th'[t].pc = "load")
      BY <2>4, <3>1, <3>3
    <3> QED  BY <2>6, <3>2, <3>3 DEF CreateEffect
  <2>7. CASE LoadEffect(t)
    <3>1. UNCHANGED <<exists, size, solid, rows, file, lock>> /\ ~raced /\ th[t].pc = "load"
      BY <1>2, <2>7 DEF LoadEffect, data
    <3> QED  BY <2>0, <2>7, <3>1 DEF LoadEffect, OpenInv, Opening, Locked
  <2>8. CASE LockEffect(t)
    <3>1. /\ UNCHANGED <<exists, size, solid, rows, file>> /\ th[t].pc = "lock" /\ ~raced
          /\ lock[th[t].h] = None /\ lock' = [lock EXCEPT ![th[t].h] = t]
          /\ th'[t].pc = "read" /\ th'[t].h = th[t].h
      BY <1>2, <2>8 DEF LockEffect, data
    <3>2. file \in Threads /\ th[t].h = file
      BY <1>0, <3>1 DEF OpenInv
    <3>3. \A u \in Threads : th[u].pc \notin Locked
      BY <1>0, <3>1, <3>2 DEF OpenInv
    <3>4. lock'[file] = t
      BY <1>0, <3>1, <3>2
    <3> QED  BY <2>0, <3>1, <3>2, <3>3, <3>4 DEF OpenInv, Opening, Locked
  <2>9. CASE ReadEffect(t)
    <3>1. /\ UNCHANGED <<exists, size, solid, rows, file, lock>> /\ th[t].pc = "read" /\ ~raced
          /\ th'[t].h = th[t].h /\ th'[t].key = th[t].key /\ th'[t].op = th[t].op
          /\ th'[t].val = th[t].val
      BY <1>2, <2>9 DEF ReadEffect, data
    <3>2. th'[t].pc = "unlock"
          \/ (th'[t].pc = "write" /\ size > Hash[th[t].key] /\ th'[t].buf \in NewRows(rows[Hash[th[t].key]], th[t]))
      BY <2>9 DEF ReadEffect
    <3>3. NewRows(rows[Hash[th[t].key]], th'[t]) = NewRows(rows[Hash[th[t].key]], th[t])
      BY <3>1 DEF NewRows
    <3> QED  BY <2>0, <3>1, <3>2, <3>3 DEF OpenInv, Opening, Locked
  <2>10. ASSUME th[t].pc \in Locked, ~raced
         PROVE  /\ file \in Threads /\ lock[file] = t /\ th[t].h = file
                /\ \A u \in Threads \ {t} : th[u].pc \in {"idle", "load", "lock"}
    <3>1. file \in Threads /\ lock[file] = t /\ th[t].h = file
      BY <1>0, <2>10 DEF OpenInv
    <3>2. \A u \in Threads \ {t} : ~Opening(u) /\ th[u].pc \notin Locked
      BY <1>0, <2>10, <3>1 DEF OpenInv
    <3> QED  BY <1>0, <3>1, <3>2 DEF CallType, Opening, Locked
  <2>11. ASSUME th[t].pc \in {"write", "sync"}, ~raced PROVE exists /\ size > Hash[th[t].key]
    <3>1. size > Hash[th[t].key] /\ th[t].key \in Keys
      BY <2>11 DEF OpenInv, CallInv
    <3> QED  BY <2>11, <3>1 DEF OpenInv, Rows
  <2>12. CASE WriteEffect(t)
    <3>1. UNCHANGED <<exists, size, solid, file, lock>> /\ th[t].pc = "write" /\ ~raced
          /\ th'[t].pc \in {"sync", "unlock"} /\ th'[t].h = th[t].h /\ th'[t].key = th[t].key
      BY <1>2, <2>12 DEF WriteEffect
    <3>2. th[t].pc \in Locked
      BY <3>1 DEF Locked
    <3> QED  BY <2>0, <2>10, <2>11, <3>1, <3>2 DEF OpenInv, Opening, Locked
  <2>13. CASE SyncEffect(t)
    <3>1. UNCHANGED <<exists, size, rows, file, lock>> /\ th[t].pc = "sync" /\ ~raced
          /\ th'[t].pc = "unlock" /\ th'[t].h = th[t].h
      BY <1>2, <2>13 DEF SyncEffect
    <3>2. th[t].pc \in Locked
      BY <3>1 DEF Locked
    <3> QED  BY <2>0, <2>10, <2>11, <3>1, <3>2 DEF OpenInv, Opening, Locked
  <2>14. CASE UnlockEffect(t)
    <3>1. /\ UNCHANGED <<exists, size, solid, rows, file>> /\ th[t].pc = "unlock" /\ ~raced
          /\ lock' = [lock EXCEPT ![th[t].h] = None] /\ th'[t].pc = "idle"
      BY <1>2, <2>14 DEF UnlockEffect, data
    <3>2. th[t].pc \in Locked
      BY <3>1 DEF Locked
    <3> QED  BY <2>0, <2>10, <3>1, <3>2 DEF OpenInv, Opening, Locked
  <2> QED  BY <1>2, <2>2, <2>5, <2>6, <2>7, <2>8, <2>9, <2>12, <2>13, <2>14, Effects
<1>3. CASE UNCHANGED vars
  BY <1>3 DEF vars, disk, hist, OpenInv, Opening
<1>4. raced' => OpenInv'
  BY DEF OpenInv
<1> QED  BY <1>1, <1>2, <1>3, <1>4 DEF Next

-----------------------------------------------------------------------------
(* What is in the file and on the medium *)

\* A write that is about one key, and leaves the key unsynced.
LEMMA DiskWrite ==
  ASSUME TypeOK, HoleInv, DiskInv, NEW key \in Keys, NEW new \in Row, Writes(Hash[key], new),
         Touches(rows[Hash[key]], new, {key}), Hash[key] \notin holed /\ key \notin lost => One(new, key),
         NEW v \in Vals \cup {None, Unknown}, map' = [map EXCEPT ![key] = v],
         unsynced' = unsynced \cup {key}, UNCHANGED <<size, solid, lost>>,
         Hash[key] \notin holed' /\ v # Unknown => hash_table_get(new, key) = v /\ size > Hash[key]
  PROVE  DiskInv'
<1> DEFINE loc == Hash[key]
<1>0. /\ loc \in Rows /\ rows \in [Rows -> Row] /\ rows[loc] \in Row
      /\ map \in [Keys -> Vals \cup {None, Unknown}]
  BY IdleFacts DEF TypeOK
<1>1. /\ rows' \in [Rows -> Row] /\ rows'[loc] = new
      /\ \A j \in Slots : medium'[loc][j] = medium[loc][j] \cup {new[j]}
      /\ \A r \in Rows : r # loc => rows'[r] = rows[r] /\ medium'[r] = medium[r]
      /\ holed \subseteq holed' /\ (loc \notin holed' => ~Holes(new))
  BY <1>0, WriteFacts
<1>2. map'[key] = v /\ \A k \in Keys : k # key => map'[k] = map[k]
  BY <1>0
<1>3. MediumInv'
  <2>1. ASSUME NEW r \in Rows, r # loc, NEW j \in Slots
        PROVE  /\ rows'[r][j] \in medium'[r][j]
               /\ \A x \in medium'[r][j] :
                    /\ x.key \in Keys => Hash[x.key] = r
                    /\ x # rows'[r][j] =>
                         x.key \notin Keys \ unsynced' /\ rows'[r][j].key \notin Keys \ unsynced'
    BY <1>1, <2>1 DEF DiskInv, MediumInv
  <2>2. ASSUME NEW j \in Slots
        PROVE  /\ new[j] \in medium'[loc][j]
               /\ \A x \in medium'[loc][j] :
                    /\ x.key \in Keys => Hash[x.key] = loc
                    /\ x # new[j] => x.key \notin Keys \ unsynced' /\ new[j].key \notin Keys \ unsynced'
    <3>1. /\ rows[loc][j] \in medium[loc][j]
          /\ \A x \in medium[loc][j] :
               /\ x.key \in Keys => Hash[x.key] = loc
               /\ x # rows[loc][j] => x.key \notin Keys \ unsynced /\ rows[loc][j].key \notin Keys \ unsynced
      BY <1>0, <2>2, Zenon DEF DiskInv, MediumInv
    <3>2. new[j] # rows[loc][j] => rows[loc][j].key \notin Keys \ {key} /\ new[j].key \notin Keys \ {key}
      BY DEF Touches
    <3>3. new[j].key \in Keys => Hash[new[j].key] = loc
      BY <3>1, <3>2
    <3>4. ASSUME NEW x \in medium[loc][j], x # new[j]
          PROVE  x.key \notin Keys \ unsynced' /\ new[j].key \notin Keys \ unsynced'
      BY <3>1, <3>2, <3>4
    <3> QED  BY <1>1, <3>1, <3>3, <3>4
  <2> QED  BY <1>0, <1>1, <2>1, <2>2 DEF MediumInv
<1>4. SolidInv'
  BY <1>2 DEF DiskInv, SolidInv
<1>5. ASSUME NEW r \in Rows \ holed', NEW k \in Keys \ lost' PROVE One(rows'[r], k)
  <2>1. r \notin holed /\ k \notin lost
    BY <1>1, <1>5
  <2>2. One(rows[r], k)
    BY <2>1 DEF DiskInv, OneInv
  <2>3. CASE r # loc
    BY <1>1, <2>2, <2>3
  <2>4. CASE r = loc /\ k = key
    BY <1>1, <2>1, <2>4
  <2>5. CASE r = loc /\ k # key
    BY <1>0, <1>1, <2>2, <2>5, Untouched
  <2> QED  BY <2>3, <2>4, <2>5
<1>6. ASSUME NEW k \in Keys, Hash[k] \notin holed', map'[k] # Unknown PROVE View(k)' = map'[k]
  <2>1. Hash[k] \notin holed /\ Hash[k] \in Rows
    BY <1>1, <1>6, IdleFacts
  <2>2. CASE k = key
    BY <1>1, <1>2, <1>6, <2>2 DEF View
  <2>3. CASE k # key
    <3>1. map'[k] = map[k] /\ View(k) = map[k]
      BY <1>2, <1>6, <2>1, <2>3 DEF DiskInv, MapInv
    <3>2. CASE Hash[k] # loc
      BY <1>1, <2>1, <3>1, <3>2 DEF View
    <3>3. CASE Hash[k] = loc
      <4>1. ~Holes(rows[loc]) /\ ~Holes(new)
        BY <1>1, <1>6, <2>1, <3>3 DEF HoleInv
      <4>2. hash_table_get(new, k) = hash_table_get(rows[loc], k)
        BY <1>0, <2>3, <4>1, Untouched
      <4> QED  BY <1>1, <3>1, <3>3, <4>2 DEF View
    <3> QED  BY <3>2, <3>3
  <2> QED  BY <2>2, <2>3
<1> QED  BY <1>3, <1>4, <1>5, <1>6 DEF DiskInv, OneInv, MapInv

\* After a loss of power a row differs from what it was in items of unsynced keys.
LEMMA LeftTouches ==
  ASSUME TypeOK, MediumInv, NEW n, NEW f \in Left(n), NEW r \in Rows, r < n
  PROVE  /\ Touches(rows[r], f[r], unsynced)
         /\ \A j \in Slots : f[r][j].key \in Keys => Hash[f[r][j].key] = r
<1>1. ASSUME NEW j \in Slots
      PROVE  /\ f[r][j] # rows[r][j] =>
                   rows[r][j].key \notin Keys \ unsynced /\ f[r][j].key \notin Keys \ unsynced
             /\ f[r][j].key \in Keys => Hash[f[r][j].key] = r
  <2>1. /\ f[r][j] \in Tears(medium[r][j]) /\ medium[r][j] \subseteq Item \cup {Empty}
    BY LeftFacts DEF TypeOK
  <2>2. PICK x : x = f[r][j]
    OBVIOUS
  <2>3. /\ x.key = Torn \/ \E v \in medium[r][j] : v.key = x.key
        /\ \A v : medium[r][j] = {v} => x = v
    BY <2>1, <2>2, TearFacts
  <2>4. /\ rows[r][j] \in medium[r][j]
        /\ \A v \in medium[r][j] :
             /\ v.key \in Keys => Hash[v.key] = r
             /\ v # rows[r][j] => v.key \notin Keys \ unsynced /\ rows[r][j].key \notin Keys \ unsynced
    BY DEF MediumInv
  <2>5. x.key \in Keys => Hash[x.key] = r
    BY <2>3, <2>4, ItemFacts
  <2>6. ASSUME x # rows[r][j]
        PROVE  rows[r][j].key \notin Keys \ unsynced /\ x.key \notin Keys \ unsynced
    <3>1. PICK v \in medium[r][j] : v # rows[r][j]
      BY <2>3, <2>4, <2>6
    <3>2. rows[r][j].key \notin Keys \ unsynced
      BY <2>4, <3>1
    <3>3. \A w \in medium[r][j] : w.key \notin Keys \ unsynced
      BY <2>4, <3>2
    <3> QED  BY <2>3, <3>2, <3>3, ItemFacts
  <2> QED  BY <2>2, <2>5, <2>6
<1> QED  BY <1>1 DEF Touches

\* A loss of power costs unsynced keys only.
LEMMA DiskLost ==
  ASSUME TypeOK, HoleInv, DiskInv, OpenInv, ~raced, power_lost PROVE DiskInv'
<1>0. /\ rows \in [Rows -> Row] /\ size \in Int /\ map \in [Keys -> Vals \cup {None, Unknown}]
      /\ MediumInv /\ SolidInv /\ OneInv /\ MapInv
  BY DEF TypeOK, DiskInv
<1>1. /\ rows' \in Left(size') /\ holed' = holed \cup {r \in Rows : Holes(rows'[r])}
      /\ lost' = lost \cup unsynced /\ unsynced' = {}
      /\ medium' = [r \in Rows |-> [j \in Slots |-> {rows'[r][j]}]]
      /\ \A k \in Keys : map'[k] = IF k \in unsynced THEN Unknown ELSE map[k]
  BY DEF power_lost
<1>2. size' \in 0..size /\ (solid => size' = size)
  BY DEF power_lost
<1>3. PICK f : f = rows'
  OBVIOUS
<1>4. /\ f \in Left(size') /\ f \in [Rows -> Row]
      /\ \A r \in Rows : ~(r < size') => f[r] = EmptyRow
  BY <1>1, <1>3, LeftFacts
<1>5. \A r \in Rows : r < size' => /\ Touches(rows[r], f[r], unsynced)
                                  /\ \A j \in Slots : f[r][j].key \in Keys => Hash[f[r][j].key] = r
  BY <1>0, <1>4, LeftTouches
<1>6. MediumInv'
  <2>1. ASSUME NEW r \in Rows, NEW j \in Slots PROVE f[r][j].key \in Keys => Hash[f[r][j].key] = r
    <3>1. CASE r < size'
      BY <1>5, <3>1
    <3>2. CASE ~(r < size')
      BY <1>4, <3>2, ItemFacts
    <3> QED  BY <3>1, <3>2
  <2>2. \A r \in Rows, j \in Slots : medium'[r][j] = {f[r][j]}
    BY <1>1, <1>3
  <2> QED  BY <1>3, <2>1, <2>2 DEF MediumInv
<1>7. SolidInv'
  <2>1. ASSUME ~solid' PROVE ~solid
    BY <2>1 DEF power_lost, OpenInv
  <2>2. ASSUME ~solid, NEW k \in Keys PROVE map'[k] \in {None, Unknown}
    BY <1>0, <1>1, <2>2 DEF SolidInv
  <2> QED  BY <2>1, <2>2 DEF SolidInv
<1>8. ASSUME NEW r \in Rows \ holed', NEW k \in Keys \ lost' PROVE One(f[r], k)
  <2>1. r \notin holed /\ k \notin lost /\ k \notin unsynced
    BY <1>1, <1>8
  <2>2. CASE r < size'
    <3>1. One(rows[r], k)
      BY <1>0, <2>1 DEF OneInv
    <3> QED  BY <1>0, <1>4, <1>5, <2>1, <2>2, <3>1, Untouched
  <2>3. CASE ~(r < size')
    BY <1>4, <2>3, ItemFacts DEF One
  <2> QED  BY <2>2, <2>3
<1>9. ASSUME NEW k \in Keys, Hash[k] \notin holed', map'[k] # Unknown PROVE View(k)' = map'[k]
  <2>1. /\ Hash[k] \notin holed /\ Hash[k] \in Rows /\ Hash[k] \in Int /\ ~Holes(f[Hash[k]])
        /\ k \notin unsynced /\ map'[k] = map[k]
    BY <1>1, <1>3, <1>9, IdleFacts
  <2>2. View(k) = map[k]
    BY <1>0, <1>9, <2>1 DEF MapInv
  <2>3. CASE size' > Hash[k]
    <3>1. size > Hash[k] /\ Hash[k] < size'
      BY <1>0, <1>2, <2>1, <2>3
    <3>2. ~Holes(rows[Hash[k]])
      BY <2>1 DEF HoleInv
    <3>3. hash_table_get(f[Hash[k]], k) = hash_table_get(rows[Hash[k]], k)
      BY <1>0, <1>4, <1>5, <2>1, <3>1, <3>2, Untouched
    <3> QED  BY <1>3, <2>1, <2>2, <2>3, <3>1, <3>3 DEF View
  <2>4. CASE ~(size' > Hash[k])
    <3>1. View(k)' = None
      BY <2>4 DEF View
    <3>2. CASE solid
      BY <1>2, <2>1, <2>2, <2>4, <3>1, <3>2 DEF View
    <3>3. CASE ~solid
      BY <1>0, <1>9, <2>1, <3>1, <3>3 DEF SolidInv
    <3> QED  BY <3>2, <3>3
  <2> QED  BY <2>3, <2>4
<1> QED  BY <1>3, <1>6, <1>7, <1>8, <1>9 DEF DiskInv, OneInv, MapInv

\* Every step keeps the file, the medium and the map together, until one races.
LEMMA DiskStep ==
  ASSUME KvInv, [Next]_vars, ~raced' PROVE DiskInv'
<1> USE IdleFacts
<1>0. /\ TypeOK /\ CallInv /\ HoleInv /\ OpenInv /\ (~raced => DiskInv)
      /\ rows \in [Rows -> Row] /\ th \in [Threads -> CallType]
  BY DEF KvInv, TypeOK, CallType
<1>1. ASSUME UNCHANGED data, ~raced PROVE DiskInv'
  BY <1>0, <1>1 DEF DiskInv, MediumInv, SolidInv, OneInv, MapInv, View, data
<1>2. CASE power_lost
  <2>1. ~raced
    BY <1>2 DEF power_lost
  <2> QED  BY <1>0, <1>2, <2>1, DiskLost
<1>3. CASE UNCHANGED vars
  BY <1>1, <1>3 DEF vars, disk, hist, data
<1>4. ASSUME NEW t \in Threads, Call(t) \/ Step(t) PROVE DiskInv'
  <2>1. CASE CallEffect(t) \/ OpenEffect(t) \/ LoadEffect(t) \/ LockEffect(t) \/ ReadEffect(t) \/ UnlockEffect(t)
    BY <1>1, <2>1 DEF CallEffect, OpenEffect, LoadEffect, LockEffect, ReadEffect, UnlockEffect, data
  <2>2. CASE CreateEffect(t)
    <3>0. /\ ~raced /\ ~solid /\ (\A r \in Rows : rows[r] = EmptyRow) /\ DiskInv
          /\ UNCHANGED <<map, unsynced, lost>>
      BY <1>0, <2>2 DEF CreateEffect, OpenInv
    <3>1. /\ \A r \in Rows : rows'[r] = EmptyRow
          /\ \A r \in Rows, j \in Slots : medium'[r][j] = medium[r][j] \/ medium'[r][j] = medium[r][j] \cup {Empty}
          /\ holed \subseteq holed'
      <4>1. CASE UNCHANGED <<rows, medium, holed>>
        BY <3>0, <4>1
      <4>2. CASE th[t].i \in Rows /\ Writes(th[t].i, EmptyRow)
        BY <1>0, <3>0, <4>2, WriteFacts, ItemFacts
      <4>3. CASE th[t].i \in Rows /\ \E row \in Short(rows[th[t].i], EmptyRow) : Writes(th[t].i, row)
        <5>1. \A row \in Short(rows[th[t].i], EmptyRow) : row = EmptyRow
          BY <3>0, <4>3, ItemFacts, ShortFacts
        <5> QED  BY <4>2, <4>3, <5>1
      <4> QED  BY <2>2, <4>1, <4>2, <4>3 DEF CreateEffect
    <3>2. MediumInv'
      <4>1. ASSUME NEW r \in Rows, NEW j \in Slots
            PROVE  /\ Empty \in medium'[r][j]
                   /\ \A v \in medium'[r][j] :
                        /\ v.key \in Keys => Hash[v.key] = r
                        /\ v # Empty => v.key \notin Keys \ unsynced
        <5>1. rows[r][j] = Empty
          BY <3>0, ItemFacts
        <5>2. /\ Empty \in medium[r][j]
              /\ \A v \in medium[r][j] :
                   /\ v.key \in Keys => Hash[v.key] = r
                   /\ v # Empty => v.key \notin Keys \ unsynced
          BY <3>0, <5>1 DEF DiskInv, MediumInv
        <5> QED  BY <3>1, <5>2, ItemFacts
      <4>2. \A r \in Rows, j \in Slots : rows'[r][j] = Empty
        BY <3>1, ItemFacts
      <4> QED  BY <3>0, <4>1, <4>2, ItemFacts DEF MediumInv
    <3>3. SolidInv'
      BY <3>0 DEF DiskInv, SolidInv
    <3>4. OneInv'
      BY <3>1, ItemFacts DEF OneInv, One
    <3>5. MapInv'
      <4>1. \A k \in Keys : hash_table_get(EmptyRow, k) = None
        BY ItemFacts DEF hash_table_get, found, stops
      <4>2. \A k \in Keys : View(k) = None /\ View(k)' = None
        BY <3>0, <3>1, <4>1 DEF View
      <4> QED  BY <3>0, <3>1, <4>2 DEF DiskInv, MapInv
    <3> QED  BY <3>2, <3>3, <3>4, <3>5 DEF DiskInv
  <2>3. CASE WriteEffect(t)
    <3> DEFINE key == th[t].key
               loc == Hash[key]
    <3>1. /\ ~raced /\ DiskInv /\ th[t].pc = "write" /\ UNCHANGED <<size, solid, lost>>
      BY <1>0, <2>3 DEF WriteEffect
    <3>2. /\ key \in Keys /\ th[t].op \in Ops /\ loc \in Rows /\ rows[loc] \in Row
          /\ th[t].op = "set" => th[t].val \in Vals
          /\ th[t].op = "del" => th[t].val = None
      BY <1>0, <3>1, Written
    <3>3. size > loc /\ th[t].buf \in NewRows(rows[loc], th[t])
      BY <1>0, <3>1 DEF OpenInv
    <3>4. th[t].op # "get"
      BY <3>3 DEF NewRows
    <3>5. th[t].val \in Vals \cup {None}
      BY <3>2, <3>4 DEF Ops
    <3>6. /\ th[t].buf \in Row
          /\ Touches(rows[loc], th[t].buf, {key})
          /\ ~Holes(rows[loc]) => hash_table_get(th[t].buf, key) = th[t].val
          /\ ~Holes(rows[loc]) /\ One(rows[loc], key) => OneOf(rows[loc], th[t].buf, key)
      BY <3>2, <3>3, NewRowFacts
    <3>7. loc \notin holed => ~Holes(rows[loc])
      BY <1>0, <3>2 DEF HoleInv
    <3>8. loc \notin holed /\ key \notin lost => OneOf(rows[loc], th[t].buf, key)
      BY <3>1, <3>2, <3>6, <3>7 DEF DiskInv, OneInv
    <3> HIDE DEF key, loc
    <3>9. CASE UNCHANGED <<rows, medium, map, unsynced, holed>>
      BY <1>1, <3>1, <3>9 DEF data
    <3>10. CASE /\ Writes(loc, th[t].buf)
                /\ map' = [map EXCEPT ![key] = th[t].val] /\ unsynced' = unsynced \cup {key}
      <4>1. loc \notin holed /\ key \notin lost => One(th[t].buf, key)
        BY <3>8 DEF OneOf, One
      <4>2. loc \notin holed' => loc \notin holed
        BY <3>10 DEF Writes
      <4>3. loc \notin holed' => hash_table_get(th[t].buf, key) = th[t].val /\ size > loc
        BY <3>3, <3>6, <3>7, <4>2 DEF loc
      <4> QED  BY <1>0, <3>1, <3>2, <3>5, <3>6, <3>10, <4>1, <4>3, DiskWrite DEF loc
    <3>11. CASE /\ \E row \in Short(rows[loc], th[t].buf) : Writes(loc, row)
                /\ map' = [map EXCEPT ![key] = Unknown] /\ unsynced' = unsynced \cup {key}
      <4>1. PICK row \in Short(rows[loc], th[t].buf) : Writes(loc, row)
        BY <3>11
      <4>2. /\ row \in Row /\ Touches(rows[loc], row, {key})
            /\ loc \notin holed /\ key \notin lost => One(row, key)
        BY <3>2, <3>6, <3>8, ShortFacts
      <4> QED  BY <1>0, <3>1, <3>2, <3>11, <4>1, <4>2, DiskWrite DEF loc
    <3> QED  BY <2>3, <3>9, <3>10, <3>11 DEF WriteEffect, key, loc
  <2>4. CASE SyncEffect(t)
    <3> DEFINE loc == Hash[th[t].key]
    <3>0. /\ ~raced /\ DiskInv /\ UNCHANGED <<size, rows, map, holed, lost>> /\ loc \in Rows
          /\ medium \in [Rows -> [Slots -> SUBSET (Item \cup {Empty})]]
      BY <1>0, <2>4, Written DEF SyncEffect, TypeOK
    <3>1. CASE UNCHANGED <<solid, medium, unsynced>>
      BY <1>1, <3>0, <3>1 DEF data
    <3>2. CASE /\ solid' /\ unsynced' = {k \in unsynced : Hash[k] # loc}
               /\ medium' = [medium EXCEPT ![loc] = [j \in Slots |-> {rows[loc][j]}]]
      <4> HIDE DEF loc
      <4>1. /\ \A j \in Slots : medium'[loc][j] = {rows[loc][j]}
            /\ \A r \in Rows : r # loc => medium'[r] = medium[r]
        BY <3>0, <3>2
      <4>2. \A r \in Rows, j \in Slots :
              /\ rows[r][j] \in medium[r][j]
              /\ \A v \in medium[r][j] :
                   /\ v.key \in Keys => Hash[v.key] = r
                   /\ v # rows[r][j] => v.key \notin Keys \ unsynced /\ rows[r][j].key \notin Keys \ unsynced
        BY <3>0, Zenon DEF DiskInv, MediumInv
      <4>3. ASSUME NEW r \in Rows, NEW j \in Slots
            PROVE  /\ rows[r][j] \in medium'[r][j]
                   /\ \A v \in medium'[r][j] :
                        /\ v.key \in Keys => Hash[v.key] = r
                        /\ v # rows[r][j] =>
                             v.key \notin Keys \ unsynced' /\ rows[r][j].key \notin Keys \ unsynced'
        <5>1. CASE r = loc
          BY <4>1, <4>2, <5>1
        <5>2. CASE r # loc
          BY <3>2, <4>1, <4>2, <5>2
        <5> QED  BY <5>1, <5>2
      <4>4. MediumInv'
        BY <3>0, <4>3, Zenon DEF MediumInv
      <4>5. SolidInv' /\ OneInv' /\ MapInv'
        BY <3>0, <3>2 DEF DiskInv, SolidInv, OneInv, MapInv, View
      <4> QED  BY <4>4, <4>5 DEF DiskInv
    <3> QED  BY <2>4, <3>1, <3>2 DEF SyncEffect
  <2> QED  BY <1>0, <1>4, <2>1, <2>2, <2>3, <2>4, Effects
<1> QED  BY <1>2, <1>3, <1>4 DEF Next

-----------------------------------------------------------------------------
(* The theorems *)

\* There is no file at the start.
LEMMA KvInit == Init => KvInv
<1> SUFFICES ASSUME Init PROVE KvInv
  OBVIOUS
<1> USE IdleFacts, ItemFacts
<1>1. /\ rows = [r \in Rows |-> EmptyRow] /\ \A r \in Rows : rows[r] = EmptyRow
      /\ medium = [r \in Rows |-> [j \in Slots |-> {Empty}]]
      /\ th = [t \in Threads |-> Idle] /\ \A t \in Threads : th[t].pc = "idle"
  BY DEF Init
<1>2. rows \in [Rows -> Row] /\ th \in [Threads -> CallType]
  BY <1>1
<1>3. exists \in BOOLEAN /\ raced \in BOOLEAN /\ solid \in BOOLEAN
  BY Zenon DEF Init
<1>4. medium \in [Rows -> [Slots -> SUBSET (Item \cup {Empty})]] /\ \A r \in Rows, j \in Slots : medium[r][j] = {Empty}
  BY <1>1
<1>5. /\ size \in 0..TABLE_COL_SIZE /\ file \in Threads \cup {None}
      /\ lock \in [Threads -> Threads \cup {None}] /\ map \in [Keys -> Vals \cup {None, Unknown}]
      /\ holed \subseteq Rows /\ unsynced \cup lost \subseteq Keys
      /\ calls \in 0..MaxCalls /\ faults \in 0..MaxFaults /\ crashes \in 0..MaxCrashes
  BY KvAssumption DEF Init
<1>6. TypeOK
  BY <1>2, <1>3, <1>4, <1>5 DEF TypeOK, CallType
<1>7. CallInv /\ HoleInv
  BY <1>1 DEF CallInv, HoleInv
<1>8. OpenInv
  BY <1>1 DEF OpenInv, Opening, Locked, Init
<1>9. MediumInv
  BY <1>1, <1>4 DEF MediumInv
<1>10. OneInv
  BY <1>1 DEF OneInv, One
<1>11. SolidInv /\ MapInv
  <2>1. \A k \in Keys : View(k) = None
    BY DEF View, Init, Rows
  <2> QED  BY <2>1 DEF MapInv, SolidInv, Init
<1> QED  BY <1>6, <1>7, <1>8, <1>9, <1>10, <1>11 DEF KvInv, DiskInv

\* The inductive invariant holds in every reachable state.
THEOREM KvInvariance == Spec => []KvInv
<1>1. KvInv /\ [Next]_vars => KvInv'
  <2> SUFFICES ASSUME KvInv, [Next]_vars PROVE KvInv'
    OBVIOUS
  <2>1. TypeOK /\ CallInv /\ HoleInv /\ OpenInv
    BY DEF KvInv
  <2>2. TypeOK' /\ CallInv' /\ HoleInv'
    BY <2>1, TypeStep, HoleStep
  <2>3. OpenInv' /\ (~raced' => DiskInv')
    BY <2>1, OpenStep, DiskStep
  <2> QED  BY <2>2, <2>3 DEF KvInv
<1> QED  BY <1>1, KvInit, PTL DEF Spec

\* Every variable of the store keeps its type: rows are rows of items, whole or
\* torn, and the file never has more than TABLE_COL_SIZE of them.
THEOREM KvTypes == Spec => []TypeOK
<1>1. KvInv => TypeOK
  BY DEF KvInv
<1> QED  BY <1>1, KvInvariance, PTL

\* hash_table_put never adds a second item for a key, over short writes, failed
\* fsyncs and losses of power, but for the exceptions OneItemEach names.
THEOREM OneItem == Spec => []OneItemEach
<1>1. KvInv => OneItemEach
  BY DEF KvInv, DiskInv, OneInv, One, OneItemEach
<1> QED  BY <1>1, KvInvariance, PTL

\* HAL_Kv_Get reads what HAL_Kv_Set stored and HAL_Kv_Del did not remove, over
\* interleavings of any number of threads, short writes, failed fsyncs and losses
\* of power that leave any mix of what was not synced, but for the exceptions
\* MapKept names.
THEOREM StoreKeepsMap == Spec => []MapKept
<1>1. KvInv => MapKept
  BY DEF KvInv, DiskInv, MapInv, MapKept
<1> QED  BY <1>1, KvInvariance, PTL

=============================================================================
