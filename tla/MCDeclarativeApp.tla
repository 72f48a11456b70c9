------------------------- MODULE MCDeclarativeApp -------------------------
(* DeclarativeApp for TLC. *)
EXTENDS DeclarativeApp, TLC

CONSTANT MaxLeased  \* bound of the model: processes an app with a TTL may start

\* The callers are interchangeable.
Symmetry == Permutations(Caller)

\* The safety properties say nothing any more once an update was lost, which
\* stays so.
NothingLost == ~lost

\* The same configuration is applied throughout.  Without a TTL nothing expires,
\* and more processes are within reach: the stopped and the started process of a
\* restart, and one that another caller starts.
OneConfig ==
    \E k \in Config :
        /\ {record.config} \cup {want[c] : c \in Caller} \subseteq {k, Nobody}
        /\ k \in Leased => started <= MaxLeased

Small == NothingLost /\ OneConfig

\* What they and the guards depend on: not what the directories and processes
\* hold, nor which processes have had a deadline.
View == <<proc, managed, lock, late, record, armed, work # Nobody, backup # Nobody, callVars,
          firing, started, life, lost, crossed>>
=============================================================================
