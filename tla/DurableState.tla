--------------------------- MODULE DurableState ---------------------------
(***************************************************************************)
(* What the persistence of the server's state promises: the state file     *)
(* always holds one whole version that memory once had, a reboot finds     *)
(* exactly that version, and no save brings back anything older than what  *)
(* the server booted with.                                                 *)
(* Versions are numbered in the order they come into being; 0 is the empty *)
(* state of a first start.                                                 *)
(***************************************************************************)
EXTENDS Integers

VARIABLES
    memory,  \* the version in memory; Gone while the server is down
    base,    \* the version the server booted with; Gone while it is down
    stored,  \* the version in the state file; None before the first save
    issued   \* the latest version there has been

Gone == -1
None == -2

Init ==
    /\ memory = Gone /\ base = Gone
    /\ stored = None
    /\ issued = 0

Change ==
    /\ memory # Gone
    /\ issued' = issued + 1
    /\ memory' = issued + 1
    /\ UNCHANGED <<base, stored>>

\* A save may be of an older version: it was copied before it was written.
Save ==
    /\ memory # Gone
    /\ \E v \in 0..issued : v >= base /\ stored' = v
    /\ UNCHANGED <<memory, base, issued>>

Stop ==
    /\ memory # Gone
    /\ memory' = Gone /\ base' = Gone
    /\ UNCHANGED <<stored, issued>>

Reboot ==
    /\ memory = Gone
    /\ memory' = IF stored = None THEN 0 ELSE stored
    /\ base' = memory'
    /\ UNCHANGED <<stored, issued>>

Next == Change \/ Save \/ Stop \/ Reboot

Spec == Init /\ [][Next]_<<memory, base, stored, issued>>
=============================================================================
