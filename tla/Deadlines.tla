----------------------------- MODULE Deadlines -----------------------------
(***************************************************************************)
(* What ttl.Scheduler promises: every key has at most one deadline, which  *)
(* the latest Schedule sets and Cancel withdraws; the callback for a key   *)
(* is begun only when its deadline is due, takes the deadline with it, and *)
(* runs alone.                                                             *)
(***************************************************************************)
EXTENDS Integers

CONSTANTS Key, Time, None

VARIABLES
    deadline,  \* the deadline of each key; Never when it has none
    running,   \* the key whose callback runs, or None
    now

Never == -1

Init ==
    /\ deadline = [k \in Key |-> Never]
    /\ running = None
    /\ now = 0

Arm(k) ==
    /\ \E t \in Time : deadline' = [deadline EXCEPT ![k] = t]
    /\ UNCHANGED <<running, now>>

Disarm(k) ==
    /\ deadline' = [deadline EXCEPT ![k] = Never]
    /\ UNCHANGED <<running, now>>

Expire(k) ==
    /\ running = None
    /\ deadline[k] # Never
    /\ deadline[k] <= now
    /\ deadline' = [deadline EXCEPT ![k] = Never]
    /\ running' = k
    /\ UNCHANGED now

Return ==
    /\ running' = None
    /\ UNCHANGED <<deadline, now>>

Tick ==
    /\ now' = now + 1
    /\ UNCHANGED <<deadline, running>>

Next ==
    \/ \E k \in Key : Arm(k) \/ Disarm(k) \/ Expire(k)
    \/ Return \/ Tick

Spec == Init /\ [][Next]_<<deadline, running, now>>
=============================================================================
