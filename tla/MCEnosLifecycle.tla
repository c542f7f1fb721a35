-------------------------- MODULE MCEnosLifecycle --------------------------
(* Symmetric threads and addresses for the run of EnosLifecycle. *)
EXTENDS EnosLifecycle, TLC

\* Threads of a kind run the same code, and malloc returns any free address.
Symmetry == Permutations(Repliers) \cup Permutations(CmThreads) \cup Permutations(Addrs)

=============================================================================
