------------------------ MODULE MCProcessLifecycle ------------------------
(* Small instances of ProcessLifecycle for TLC. *)
EXTENDS ProcessLifecycle_inv, TLC

\* Callers, managers and processes are interchangeable; used for safety only.
Symmetry == Permutations(Caller) \cup Permutations(Manager) \cup Permutations(Pid)
=============================================================================
