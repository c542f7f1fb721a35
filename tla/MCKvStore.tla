----------------------------- MODULE MCKvStore -----------------------------
(* Keys and rows for the runs of KvStore. *)
EXTENDS KvStore, TLC

\* The keys share the last row.
MCHash == [k \in Keys |-> TABLE_COL_SIZE - 1]

Symmetry == Permutations(Threads) \cup Permutations(Vals) \cup Permutations(Keys)

=============================================================================
