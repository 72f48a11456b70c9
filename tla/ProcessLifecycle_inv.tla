----------------------- MODULE ProcessLifecycle_inv -----------------------
(***************************************************************************)
(* The inductive invariant of ProcessLifecycle, in named parts.  Each part *)
(* says what one piece of the protocol keeps true between steps; together  *)
(* they are what the safety properties follow from.                        *)
(***************************************************************************)
EXTENDS ProcessLifecycle

\* The program points at which a caller holds the app lock.
Holding == {"notifyStart", "insert", "join", "notifyStop", "relaunch", "readPid",
            "notifyRestart"}

\* The lock is held by exactly the caller that is at such a point.
LockInv == \A c \in Caller : pc[c] \in Holding <=> lock = c

\* The holder works on a manager: a new one, kept out of the registry until
\* it is inserted, or the registered one.
TargetInv ==
    \A c \in Caller : pc[c] \in Holding =>
        /\ target[c] \in Manager
        /\ op[c] = "start" => pc[c] \in {"notifyStart", "insert"} /\ registry = Nobody
        /\ op[c] # "start" => pc[c] # "insert" /\ registry = target[c]

\* Managers in use have been created, so StartApp's new one is in nobody's way.
MadeInv ==
    /\ registry # Nobody => registry \in made
    /\ \A m \in Manager : running[m] => m \in made
    /\ \A c \in Caller : pc[c] \in Holding => target[c] \in made

\* A running manager has a process, and is registered, about to be, or lost.
RunningInv ==
    \A m \in Manager : running[m] =>
        /\ cmd[m] \in Pid
        /\ registry = m \/ m \in orphaned \/ (lock # Nobody /\ target[lock] = m)

\* A live process is the cmd of a running manager, unless a kill failed.
AliveInv ==
    \A p \in Pid : proc[p] = "alive" /\ p \notin leaked =>
        \E m \in Manager : running[m] /\ cmd[m] = p

\* The watcher of a running manager waits for that manager's process.
WatchInv ==
    \A m \in Manager :
        /\ watch[m] \in {"waiting", "reaped"} =>
              watchCmd[m] \in Pid /\ (running[m] => cmd[m] = watchCmd[m])
        /\ watch[m] = "reaped" => proc[watchCmd[m]] = "reaped"

\* A manager being stopped does not run, and once Stop has waited for its
\* watcher, the watcher has nothing left to do.
JoinInv ==
    \A c \in Caller :
        /\ pc[c] \in {"join", "notifyStop", "relaunch"} => ~running[target[c]]
        /\ pc[c] \in {"notifyStop", "relaunch"} => watch[target[c]] \in {"none", "done"}

\* While the record says manual_stop, no start has been announced since, and
\* the watcher of the registered manager is gone or not yet announced.
SilenceInv ==
    record.reason = "manual_stop" =>
        /\ \A c \in Caller : pc[c] \notin {"insert", "readPid", "notifyRestart"}
        /\ registry # Nobody /\ (\A c \in Caller : pc[c] # "notifyStart") =>
              watch[registry] \in {"none", "done"}

\* The processes, the managers and their watchers.
CoreInv ==
    /\ TypeOK
    /\ LockInv
    /\ TargetInv
    /\ MadeInv
    /\ RunningInv
    /\ AliveInv
    /\ WatchInv
    /\ JoinInv
    /\ SilenceInv
    /\ RestartsAreBounded

----------------------------------------------------------------------------
(* Why the record is truthful.  A disagreement between manager m and what   *)
(* the record says is always owed to an event that is still to come: the    *)
(* one m's watcher has posted, or one of the caller that holds the app lock. *)

\* The record's status and pid, or those about to be put there, fit manager m,
\* or m's watcher has an event to send.
Told(m, status, pid) ==
    \/ watch[m] = "notify"
    \/ IF running[m] THEN status = "running" /\ pid = cmd[m]
                     ELSE status # "running" /\ pid = Nobody

Ended(m) == watch[m] = "notify" /\ event[m].type \in {"stop", "failed"}

\* A posted event fits its manager, unless a caller that stops the manager
\* waits for the watcher: that caller's event comes after it.
PostedInv ==
    \A m \in Manager : watch[m] = "notify" =>
        IF running[m]
        THEN event[m] = RestartEvent(cmd[m])
        ELSE Ended(m) \/ \E c \in Caller : pc[c] = "join" /\ target[c] = m

\* With the lock free, the record fits the registered manager; with none, it
\* shows no process, or an event or the deregister is still to come.
FreeInv ==
    lock = Nobody =>
        IF registry # Nobody
        THEN Told(registry, record.status, record.pid)
        ELSE \/ record.status # "running" /\ record.pid = Nobody
             \/ \E m \in Manager : watch[m] = "notify"
             \/ \E c \in Caller : pc[c] = "deregister"

\* What the holder of the lock is about to announce, or has announced, fits
\* the manager it works on.
HolderInv ==
    \A c \in Caller :
        /\ pc[c] \in {"notifyStart", "notifyRestart"} => Told(target[c], "running", carried[c])
        /\ pc[c] \in {"insert", "relaunch"} => Told(target[c], record.status, record.pid)
        /\ pc[c] = "readPid" => running[target[c]] \/ Ended(target[c])

TruthInv == ~overtaken /\ leaked = {} => PostedInv /\ FreeInv /\ HolderInv

\* The inductive invariant.
IInv == CoreInv /\ TruthInv
=============================================================================
