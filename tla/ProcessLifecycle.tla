------------------------- MODULE ProcessLifecycle -------------------------
(***************************************************************************)
(* The life of one application as an OS process: the handlers Start,       *)
(* Deploy, Stop, Restart and RemoveApp, the MultiManager entry points they *)
(* call, the Manager behind those, the goroutine that watches the process  *)
(* (monitor when the app restarts automatically, waitProcess otherwise),   *)
(* and the events that keep the app's state record up to date.             *)
(*                                                                         *)
(* Granularity.  Manager.mu makes every locked section of runtime.go one   *)
(* step; an event is delivered after the lock is released, so delivering   *)
(* it is a step of its own.  The per-app lock of MultiManager is explicit  *)
(* (lock), because it is held across several steps.  Calls the code        *)
(* refuses ("already running", "not found", "no running application")      *)
(* change nothing and have no action.                                      *)
(***************************************************************************)
EXTENDS Naturals, FiniteSets

CONSTANTS
    Caller,       \* request threads that call the entry points
    Manager,      \* the Manager objects the app may have, one after another
    Pid,          \* the processes the OS may create (each used once)
    Nobody,       \* the null value: no caller, no manager, no process
    MaxRestarts,  \* ProcessConfig.MaxRestarts; 0 means no limit
    OldRestarts,  \* restart counts a saved record may hand to Restore
    KillMayFail   \* whether a kill may be refused by the OS (EPERM)

ASSUME ConstantsAssumption ==
    /\ Nobody \notin Caller \cup Manager \cup Pid
    /\ MaxRestarts \in Nat
    /\ OldRestarts \subseteq Nat
    /\ KillMayFail \in BOOLEAN

VARIABLES
    \* MultiManager
    lock,      \* appLocks[app]: the caller inside an entry point
    registry,  \* managers[app]
    made,      \* the Manager objects created so far
    \* Manager
    running, cmd, restarts, auto, recovered,
    \* the watching goroutine of each manager
    watch, watchCmd, event,
    \* callers
    pc, op, target, carried,
    \* the operating system and the app's state record
    proc, record,
    \* history, read by properties only
    leaked,    \* processes Stop left alive: a failed or a refused kill
    orphaned,  \* managers RemoveApp dropped while they were running
    overtaken  \* an event was applied after a newer fact about the app

mgrVars    == <<running, cmd, restarts, auto, recovered>>
watchVars  == <<watch, watchCmd, event>>
callVars   == <<pc, op, target, carried>>
histVars   == <<leaked, orphaned, overtaken>>
vars == <<lock, registry, made, mgrVars, watchVars, callVars, proc, record, histVars>>

----------------------------------------------------------------------------
(* Types *)

Status   == {"none", "stopped", "running", "failed"}
Reason   == {"", "manual_stop", "crash", "max_restart", "restart_failure"}
Record   == [status : Status, pid : Pid \cup {Nobody}, reason : Reason]
NoRecord == [status |-> "none", pid |-> Nobody, reason |-> ""]

\* What notify is called with, and the events a watcher can have posted.
RegisterEvent   == [type |-> "register", pid |-> Nobody, reason |-> ""]
StartEvent(p)   == [type |-> "start", pid |-> p, reason |-> ""]
RestartEvent(p) == [type |-> "restart", pid |-> p, reason |-> ""]
StopEvent(r) == [type |-> "stop", pid |-> Nobody, reason |-> r]
FailedEvent(r) == [type |-> "failed", pid |-> Nobody, reason |-> r]
NoEvent         == [type |-> "none", pid |-> Nobody, reason |-> ""]

WatchEvent ==
    {NoEvent, StopEvent("")}
        \cup {RestartEvent(p) : p \in Pid}
        \cup {FailedEvent(r) : r \in {"crash", "max_restart", "restart_failure"}}

CallPC == {"idle", "checked", "registered", "notifyStart", "insert", "join", "notifyStop", "relaunch",
           "readPid", "notifyRestart", "unregister", "deregister"}
Op     == {"none", "start", "stop", "restart", "deploy", "remove"}

\* A process is killed once SIGKILL is sent, exited once it is gone, and
\* reaped once cmd.Wait has returned.
ProcState == {"unborn", "alive", "killed", "exited", "reaped"}

TypeOK ==
    /\ lock \in Caller \cup {Nobody}
    /\ registry \in Manager \cup {Nobody}
    /\ made \subseteq Manager
    /\ running \in [Manager -> BOOLEAN]
    /\ cmd \in [Manager -> Pid \cup {Nobody}]
    /\ restarts \in [Manager -> Nat]
    /\ auto \in [Manager -> BOOLEAN]
    /\ recovered \in [Manager -> {"no", "verified", "unverified"}]
    /\ watch \in [Manager -> {"none", "spawned", "waiting", "reaped", "notify", "done"}]
    /\ watchCmd \in [Manager -> Pid \cup {Nobody}]
    /\ event \in [Manager -> WatchEvent]
    /\ pc \in [Caller -> CallPC]
    /\ op \in [Caller -> Op]
    /\ target \in [Caller -> Manager \cup {Nobody}]
    /\ carried \in [Caller -> Pid \cup {Nobody}]
    /\ proc \in [Pid -> ProcState]
    /\ record \in Record
    /\ leaked \subseteq Pid
    /\ orphaned \subseteq Manager
    /\ overtaken \in BOOLEAN

----------------------------------------------------------------------------
(* Initial states: a server with no app, or one that Restore gave a process *)
(* of the previous server run, verified or not (no goroutine watches it).   *)

Fresh ==
    /\ registry = Nobody
    /\ made = {}
    /\ running = [m \in Manager |-> FALSE]
    /\ cmd = [m \in Manager |-> Nobody]
    /\ recovered = [m \in Manager |-> "no"]
    /\ restarts = [m \in Manager |-> 0]
    /\ proc = [p \in Pid |-> "unborn"]
    /\ record = NoRecord

Restore ==
    \E m \in Manager, p \in Pid, v \in {"verified", "unverified"}, r \in OldRestarts :
        /\ registry = m
        /\ made = {m}
        /\ running = [n \in Manager |-> n = m]
        /\ cmd = [n \in Manager |-> IF n = m THEN p ELSE Nobody]
        /\ recovered = [n \in Manager |-> IF n = m THEN v ELSE "no"]
        /\ restarts = [n \in Manager |-> IF n = m THEN r ELSE 0]
        /\ proc = [q \in Pid |-> IF q = p THEN "alive" ELSE "unborn"]
        /\ record = [status |-> "running", pid |-> p, reason |-> ""]

Init ==
    /\ lock = Nobody
    /\ Fresh \/ Restore
    /\ auto \in [Manager -> BOOLEAN]
    /\ watch = [m \in Manager |-> "none"]
    /\ watchCmd = [m \in Manager |-> Nobody]
    /\ event = [m \in Manager |-> NoEvent]
    /\ pc = [c \in Caller |-> "idle"]
    /\ op = [c \in Caller |-> "none"]
    /\ target = [c \in Caller |-> Nobody]
    /\ carried = [c \in Caller |-> Nobody]
    /\ leaked = {}
    /\ orphaned = {}
    /\ overtaken = FALSE

----------------------------------------------------------------------------
(* Helpers *)

\* SyncManager.updateAppState: what an event makes of the record, which it
\* creates when there is none.
Apply(e) ==
    CASE e.type = "register" ->
            [record EXCEPT !.status = "stopped", !.reason = ""]
      [] e.type \in {"start", "restart"} ->
            [status |-> "running", pid |-> e.pid, reason |-> ""]
      [] e.type = "stop" ->
            [status |-> "stopped", pid |-> Nobody, reason |-> e.reason]
      [] e.type = "failed" ->
            [status |-> "failed", pid |-> Nobody, reason |-> e.reason]
      [] OTHER -> record  \* log_path and config_change leave these fields alone

\* The caller's entry point returns: the deferred unlock runs.
Return(c) ==
    /\ lock' = Nobody
    /\ pc' = [pc EXCEPT ![c] = "idle"]
    /\ op' = [op EXCEPT ![c] = "none"]
    /\ target' = [target EXCEPT ![c] = Nobody]
    /\ carried' = [carried EXCEPT ![c] = Nobody]

\* MultiManager's view: the app has a manager and it is running.
AppRunning == registry # Nobody /\ running[registry]

Goto(c, label) == pc' = [pc EXCEPT ![c] = label]

\* startProcess creates process p for manager m, and the watcher is spawned
\* before the lock is released.
Launch(m, p) ==
    /\ proc[p] = "unborn"
    /\ proc' = [proc EXCEPT ![p] = "alive"]
    /\ cmd' = [cmd EXCEPT ![m] = p]
    /\ running' = [running EXCEPT ![m] = TRUE]
    /\ restarts' = [restarts EXCEPT ![m] = 0]
    /\ recovered' = [recovered EXCEPT ![m] = "no"]
    /\ watch' = [watch EXCEPT ![m] = "spawned"]
    /\ watchCmd' = [watchCmd EXCEPT ![m] = Nobody]

----------------------------------------------------------------------------
(* Starting: Handler.Start and Handler.Deploy test that the app is not      *)
(* running (Deploy stops it first), send the register event, and call       *)
(* MultiManager.StartApp, none of it under one lock.  RestoreState and      *)
(* Apply call StartApp directly.                                            *)

CheckNotRunning(c) ==
    /\ pc[c] = "idle"
    /\ ~AppRunning
    /\ Goto(c, "checked")
    /\ UNCHANGED <<lock, registry, made, mgrVars, watchVars, op, target, carried,
                   proc, record, histVars>>

RegisterApp(c) ==
    /\ pc[c] = "checked"
    /\ record' = Apply(RegisterEvent)
    /\ overtaken' = (overtaken \/ AppRunning \/ lock # Nobody)
    /\ Goto(c, "registered")
    /\ UNCHANGED <<lock, registry, made, mgrVars, watchVars, op, target, carried,
                   proc, leaked, orphaned>>

\* StartApp finds the app started by someone else since the test.
StartRefused(c) ==
    /\ pc[c] = "registered"
    /\ lock = Nobody
    /\ AppRunning
    /\ Goto(c, "idle")
    /\ UNCHANGED <<lock, registry, made, mgrVars, watchVars, op, target, carried,
                   proc, record, histVars>>

\* Faults: the test for a running process, or the app lock, is left out.
MayStartUnchecked(c) == pc[c] \in {"idle", "registered"} /\ lock = Nobody
MayStartUnlocked(c)  == pc[c] \in {"idle", "registered"} /\ ~AppRunning

MayStart(c) ==
    /\ pc[c] \in {"idle", "registered"}
    /\ lock = Nobody
    /\ ~AppRunning

\* The old manager leaves the registry, a new one launches the process.
StartApp(c) ==
    /\ MayStart(c)
    /\ \E m \in Manager \ made, p \in Pid :
        /\ Launch(m, p)
        /\ made' = made \cup {m}
        /\ target' = [target EXCEPT ![c] = m]
        /\ carried' = [carried EXCEPT ![c] = p]
    /\ lock' = c
    /\ registry' = Nobody
    /\ op' = [op EXCEPT ![c] = "start"]
    /\ Goto(c, "notifyStart")
    /\ UNCHANGED <<auto, event, record, histVars>>

\* The logger or the process cannot be started: the app is left unregistered
\* and the new manager is dropped.
StartAppFails(c) ==
    /\ MayStart(c)
    /\ registry' = Nobody
    /\ Goto(c, "idle")
    /\ UNCHANGED <<lock, made, mgrVars, watchVars, op, target, carried, proc, record,
                   histVars>>

\* The start event, sent after Manager.mu is released.
NotifyStart(c) ==
    /\ pc[c] = "notifyStart"
    /\ record' = Apply(StartEvent(carried[c]))
    /\ Goto(c, IF op[c] = "start" THEN "insert" ELSE "readPid")
    /\ UNCHANGED <<lock, registry, made, mgrVars, watchVars, op, target, carried, proc, histVars>>

InsertManager(c) ==
    /\ pc[c] = "insert"
    /\ registry' = target[c]
    /\ Return(c)
    /\ UNCHANGED <<made, mgrVars, watchVars, proc, record, histVars>>

----------------------------------------------------------------------------
(* Stopping: MultiManager.StopApp and Manager.Stop *)

MayStop(c) ==
    /\ pc[c] = "idle"
    /\ lock = Nobody
    /\ AppRunning

\* A recovered process whose identity is not verified is never killed.
Refused(m) == recovered[m] = "unverified"

\* The locked section of Stop that succeeds; the caller keeps the app lock
\* and goes on to wait for the watcher.  Cancelling the context is part of
\* it: the watcher's test of ctx.Done and its test of running agree.
Stop(c) ==
    /\ MayStop(c)
    /\ \E o \in {"stop", "restart", "deploy", "remove"} : op' = [op EXCEPT ![c] = o]
    /\ LET p == cmd[registry]
           kill == proc[p] = "alive" /\ ~Refused(registry)
       IN /\ proc' = IF kill THEN [proc EXCEPT ![p] = "killed"] ELSE proc
          /\ leaked' = IF Refused(registry) THEN leaked \cup {p} ELSE leaked
    /\ running' = [running EXCEPT ![registry] = FALSE]
    /\ cmd' = [cmd EXCEPT ![registry] = Nobody]
    /\ lock' = c
    /\ target' = [target EXCEPT ![c] = registry]
    /\ Goto(c, "join")
    /\ UNCHANGED <<registry, made, restarts, auto, recovered, watchVars, carried,
                   record, orphaned, overtaken>>

\* The kill is refused by the OS: Stop returns its error with running already
\* cleared, cmd still set, and no event.
StopKillFails(c) ==
    /\ KillMayFail
    /\ MayStop(c)
    /\ ~Refused(registry)
    /\ proc[cmd[registry]] = "alive"
    /\ running' = [running EXCEPT ![registry] = FALSE]
    /\ leaked' = leaked \cup {cmd[registry]}
    /\ UNCHANGED <<lock, registry, made, cmd, restarts, auto, recovered, watchVars,
                   callVars, proc, record, orphaned, overtaken>>

\* Fault: Stop does not wait for monitorDone.
JoinAtOnce(c) ==
    /\ pc[c] = "join"
    /\ Goto(c, "notifyStop")
    /\ UNCHANGED <<lock, registry, made, mgrVars, watchVars, op, target, carried,
                   proc, record, histVars>>

\* <-monitorDone, outside the lock; a recovered process has no watcher.
Join(c) ==
    /\ pc[c] = "join"
    /\ watch[target[c]] \in {"none", "done"}
    /\ Goto(c, "notifyStop")
    /\ UNCHANGED <<lock, registry, made, mgrVars, watchVars, op, target, carried,
                   proc, record, histVars>>

NotifyStop(c) ==
    /\ pc[c] = "notifyStop"
    /\ record' = Apply(StopEvent("manual_stop"))
    /\ \/ /\ op[c] = "stop"
          /\ Return(c)
       \/ /\ op[c] = "restart"
          /\ Goto(c, "relaunch")
          /\ UNCHANGED <<lock, op, target, carried>>
       \/ /\ op[c] \in {"deploy", "remove"}
          /\ lock' = Nobody
          /\ Goto(c, IF op[c] = "deploy" THEN "checked" ELSE "unregister")
          /\ op' = [op EXCEPT ![c] = "none"]
          /\ target' = [target EXCEPT ![c] = Nobody]
          /\ UNCHANGED carried
    /\ UNCHANGED <<registry, made, mgrVars, watchVars, proc, histVars>>

----------------------------------------------------------------------------
(* Restarting: the second half of Manager.Restart, on the same Manager *)

Relaunch(c) ==
    /\ pc[c] = "relaunch"
    /\ \E p \in Pid : /\ Launch(target[c], p)
                      /\ carried' = [carried EXCEPT ![c] = p]
    /\ Goto(c, "notifyStart")
    /\ UNCHANGED <<lock, registry, made, auto, event, op, target, record, histVars>>

RelaunchFails(c) ==
    /\ pc[c] = "relaunch"
    /\ restarts' = [restarts EXCEPT ![target[c]] = 0]
    /\ recovered' = [recovered EXCEPT ![target[c]] = "no"]
    /\ Return(c)
    /\ UNCHANGED <<registry, made, running, cmd, auto, watchVars, proc, record, histVars>>

\* Restart reads the new PID under the lock (0 when the process is gone) and
\* then sends its restart event with it.
ReadPid(c) ==
    /\ pc[c] = "readPid"
    /\ carried' = [carried EXCEPT ![c] = cmd[target[c]]]
    /\ Goto(c, "notifyRestart")
    /\ UNCHANGED <<lock, registry, made, mgrVars, watchVars, op, target, proc, record, histVars>>

NotifyRestart(c) ==
    /\ pc[c] = "notifyRestart"
    /\ record' = Apply(RestartEvent(carried[c]))
    /\ Return(c)
    /\ UNCHANGED <<registry, made, mgrVars, watchVars, proc, histVars>>

----------------------------------------------------------------------------
(* Removing: the process branch of Handler.RemoveApp.  Its StopApp and its  *)
(* MultiManager.RemoveApp take the app lock one after the other, and its    *)
(* deregister event is sent without it.                                     *)

\* StopApp answered "not found" or "no running application": ignored.
RemoveStopped(c) ==
    /\ pc[c] = "idle"
    /\ lock = Nobody
    /\ ~AppRunning
    /\ Goto(c, "unregister")
    /\ UNCHANGED <<lock, registry, made, mgrVars, watchVars, op, target, carried, proc,
                   record, histVars>>

RemoveApp(c) ==
    /\ pc[c] = "unregister"
    /\ lock = Nobody
    /\ registry' = Nobody
    /\ orphaned' = orphaned \cup (IF AppRunning THEN {registry} ELSE {})
    /\ Goto(c, "deregister")
    /\ UNCHANGED <<lock, made, mgrVars, watchVars, op, target, carried, proc, record,
                   leaked, overtaken>>

Deregister(c) ==
    /\ pc[c] = "deregister"
    /\ record' = NoRecord
    /\ overtaken' = (overtaken \/ lock # Nobody \/ registry # Nobody)
    /\ Goto(c, "idle")
    /\ UNCHANGED <<lock, registry, made, mgrVars, watchVars, op, target, carried, proc,
                   leaked, orphaned>>

----------------------------------------------------------------------------
(* The watching goroutine: monitor (auto) or waitProcess (not auto) *)

\* The first read of cmd: monitor also tests running.  With no process to
\* wait for the goroutine returns, and the process is never waited for.
WatchRead(m) ==
    /\ watch[m] = "spawned"
    /\ LET wait == cmd[m] # Nobody /\ (auto[m] => running[m])
       IN /\ watch' = [watch EXCEPT ![m] = IF wait THEN "waiting" ELSE "done"]
          /\ watchCmd' = [watchCmd EXCEPT ![m] = IF wait THEN cmd[m] ELSE Nobody]
    /\ UNCHANGED <<lock, registry, made, mgrVars, event, callVars, proc, record, histVars>>

\* cmd.Wait returns, without the lock.
WatchReap(m) ==
    /\ watch[m] = "waiting"
    /\ proc[watchCmd[m]] = "exited"
    /\ proc' = [proc EXCEPT ![watchCmd[m]] = "reaped"]
    /\ watch' = [watch EXCEPT ![m] = "reaped"]
    /\ UNCHANGED <<lock, registry, made, mgrVars, watchCmd, event, callVars, record, histVars>>

Post(m, e) ==
    /\ event' = [event EXCEPT ![m] = e]
    /\ watch' = [watch EXCEPT ![m] = "notify"]

\* waitProcess takes the lock: an exit nobody asked for is reported.
WaitExited(m) ==
    /\ watch[m] = "reaped"
    /\ ~auto[m]
    /\ running' = [running EXCEPT ![m] = FALSE]
    /\ cmd' = [cmd EXCEPT ![m] = Nobody]
    /\ \/ /\ running[m]
          /\ \/ Post(m, FailedEvent("crash"))
             \/ Post(m, StopEvent(""))
       \/ /\ ~running[m]
          /\ watch' = [watch EXCEPT ![m] = "done"]
          /\ event' = event
    /\ UNCHANGED <<lock, registry, made, restarts, auto, recovered, watchCmd, callVars,
                   proc, record, histVars>>

\* Fault: a stopped monitor keeps looking instead of returning.
MonitorStoppedSpins(m) ==
    /\ watch[m] = "reaped"
    /\ auto[m]
    /\ ~running[m]
    /\ UNCHANGED vars

\* monitor takes the lock: stopped by hand, it returns.
MonitorStopped(m) ==
    /\ watch[m] = "reaped"
    /\ auto[m]
    /\ ~running[m]
    /\ watch' = [watch EXCEPT ![m] = "done"]
    /\ UNCHANGED <<lock, registry, made, mgrVars, watchCmd, event, callVars, proc, record, histVars>>

AtLimit(m) == MaxRestarts > 0 /\ restarts[m] >= MaxRestarts

\* Fault: the terminal event is not sent.
MonitorGivesUpSilently(m) ==
    /\ watch[m] = "reaped"
    /\ auto[m]
    /\ running[m]
    /\ AtLimit(m)
    /\ running' = [running EXCEPT ![m] = FALSE]
    /\ cmd' = [cmd EXCEPT ![m] = Nobody]
    /\ watch' = [watch EXCEPT ![m] = "done"]
    /\ UNCHANGED <<lock, registry, made, restarts, auto, recovered, watchCmd, event,
                   callVars, proc, record, histVars>>

MonitorGivesUp(m) ==
    /\ watch[m] = "reaped"
    /\ auto[m]
    /\ running[m]
    /\ AtLimit(m)
    /\ running' = [running EXCEPT ![m] = FALSE]
    /\ cmd' = [cmd EXCEPT ![m] = Nobody]
    /\ Post(m, FailedEvent("max_restart"))
    /\ UNCHANGED <<lock, registry, made, restarts, auto, recovered, watchCmd, callVars,
                   proc, record, histVars>>

\* Below the limit the process is started again, the lock held throughout.
MonitorRestarts(m) ==
    /\ watch[m] = "reaped"
    /\ auto[m]
    /\ running[m]
    /\ ~AtLimit(m)
    /\ restarts' = [restarts EXCEPT ![m] = restarts[m] + 1]
    /\ \E p \in Pid :
        /\ proc[p] = "unborn"
        /\ proc' = [proc EXCEPT ![p] = "alive"]
        /\ cmd' = [cmd EXCEPT ![m] = p]
        /\ Post(m, RestartEvent(p))
    /\ UNCHANGED <<lock, registry, made, running, auto, recovered, watchCmd, callVars,
                   record, histVars>>

\* Fault: the terminal event is not sent.
MonitorRestartFailsSilently(m) ==
    /\ watch[m] = "reaped"
    /\ auto[m]
    /\ running[m]
    /\ ~AtLimit(m)
    /\ restarts' = [restarts EXCEPT ![m] = restarts[m] + 1]
    /\ running' = [running EXCEPT ![m] = FALSE]
    /\ cmd' = [cmd EXCEPT ![m] = Nobody]
    /\ watch' = [watch EXCEPT ![m] = "done"]
    /\ UNCHANGED <<lock, registry, made, auto, recovered, watchCmd, event, callVars, proc,
                   record, histVars>>

MonitorRestartFails(m) ==
    /\ watch[m] = "reaped"
    /\ auto[m]
    /\ running[m]
    /\ ~AtLimit(m)
    /\ restarts' = [restarts EXCEPT ![m] = restarts[m] + 1]
    /\ running' = [running EXCEPT ![m] = FALSE]
    /\ cmd' = [cmd EXCEPT ![m] = Nobody]
    /\ Post(m, FailedEvent("restart_failure"))
    /\ UNCHANGED <<lock, registry, made, auto, recovered, watchCmd, callVars, proc,
                   record, histVars>>

\* A caller has launched a process of m and not yet sent all its events.
Announcing(m) ==
    \E c \in Caller : target[c] = m /\ pc[c] \in {"notifyStart", "readPid", "notifyRestart"}

\* m is the manager the entry points reach, or is about to be.
Current(m) ==
    registry = m \/ \E c \in Caller : target[c] = m /\ pc[c] = "insert"

\* The event goes to the record whatever has happened since it was posted.
WatchNotify(m) ==
    /\ watch[m] = "notify"
    /\ record' = Apply(event[m])
    /\ event' = [event EXCEPT ![m] = NoEvent]
    /\ watch' = [watch EXCEPT ![m] = IF event[m].type = "restart" THEN "spawned" ELSE "done"]
    /\ overtaken' = (overtaken \/ Announcing(m) \/ ~Current(m))
    /\ UNCHANGED <<lock, registry, made, mgrVars, watchCmd, callVars, proc, leaked, orphaned>>

----------------------------------------------------------------------------
(* The operating system *)

ProcExits(p) ==
    /\ proc[p] = "alive"
    /\ proc' = [proc EXCEPT ![p] = "exited"]
    /\ UNCHANGED <<lock, registry, made, mgrVars, watchVars, callVars, record, histVars>>

KillTakesEffect(p) ==
    /\ proc[p] = "killed"
    /\ proc' = [proc EXCEPT ![p] = "exited"]
    /\ UNCHANGED <<lock, registry, made, mgrVars, watchVars, callVars, record, histVars>>

----------------------------------------------------------------------------

Begin(c) ==
    \/ CheckNotRunning(c) \/ RegisterApp(c) \/ StartRefused(c)
    \/ StartApp(c) \/ StartAppFails(c)
    \/ Stop(c) \/ StopKillFails(c) \/ RemoveStopped(c)

Continue(c) ==
    \/ NotifyStart(c) \/ InsertManager(c) \/ Join(c) \/ NotifyStop(c)
    \/ Relaunch(c) \/ RelaunchFails(c) \/ ReadPid(c) \/ NotifyRestart(c)
    \/ Deregister(c)

Watch(m) ==
    \/ WatchRead(m) \/ WatchReap(m) \/ WaitExited(m) \/ WatchNotify(m)
    \/ MonitorStopped(m) \/ MonitorGivesUp(m) \/ MonitorRestarts(m) \/ MonitorRestartFails(m)

Next ==
    \/ \E c \in Caller : Begin(c) \/ Continue(c) \/ RemoveApp(c)
    \/ \E m \in Manager : Watch(m)
    \/ \E p \in Pid : ProcExits(p) \/ KillTakesEffect(p)

Spec == Init /\ [][Next]_vars

\* The Go scheduler runs every runnable goroutine, a SIGKILL takes effect, and
\* sync.Mutex hands itself to a caller that has waited long enough, however
\* often others take it.  No caller has to call and no process has to exit.
Fairness ==
    /\ \A c \in Caller : WF_vars(Continue(c)) /\ SF_vars(RemoveApp(c))
    /\ \A m \in Manager : WF_vars(Watch(m))
    /\ \A p \in Pid : WF_vars(KillTakesEffect(p))

FairSpec == Spec /\ Fairness

----------------------------------------------------------------------------
(* Properties *)

\* A process nobody can be expected to account for: Stop failed or refused
\* to kill it, or RemoveApp dropped its manager while it was running.
Stray(p) == p \in leaked \/ \E m \in orphaned : cmd[m] = p

\* The application never runs twice.  Two processes are alive at once only if
\* one of them is a stray, whatever the interleaving of callers, restarts by
\* the monitor and exits.
OneLiveProcess ==
    \A p, q \in Pid :
        proc[p] = "alive" /\ proc[q] = "alive" /\ ~Stray(p) /\ ~Stray(q) => p = q

\* Every live process that is not a stray can still be stopped: it is the cmd
\* of a running manager, and that manager is in the registry or is being put
\* there by the caller that holds the app lock.
LiveProcessIsReachable ==
    \A p \in Pid :
        proc[p] = "alive" /\ ~Stray(p) =>
            \E m \in Manager :
                /\ cmd[m] = p
                /\ running[m]
                /\ registry = m \/ (lock # Nobody /\ target[lock] = m)

\* The monitor restarts a process at most MaxRestarts times, and a count taken
\* over from a saved record, which may be beyond the limit, never feeds it: the
\* process it belongs to has no monitor, and launching another starts anew.
RestartsAreBounded ==
    MaxRestarts > 0 =>
        \A m \in Manager :
            recovered[m] = "no" \/ watch[m] # "none" => restarts[m] <= MaxRestarts

\* Nothing is under way: no call, no event, no exit still to be noticed.
Quiet ==
    /\ \A c \in Caller : pc[c] = "idle"
    /\ \A m \in Manager :
        /\ watch[m] \in {"none", "waiting", "done"}
        /\ watch[m] = "waiting" => proc[watchCmd[m]] = "alive"

\* When nothing is under way the state record agrees with the manager, unless
\* an event has been overtaken: a late watcher event, a late register and a
\* late deregister are the only ways the record goes wrong.
RecordIsTruthful ==
    Quiet /\ ~overtaken /\ leaked = {} =>
        IF AppRunning
        THEN record.status = "running" /\ record.pid = cmd[registry]
        ELSE record.status # "running" /\ record.pid = Nobody

\* A record left by a manual stop changes only by a later call, never by the
\* watcher of the process that was stopped.
ManualStopSticks ==
    [][record.reason = "manual_stop" /\ record' # record /\ ~overtaken' => pc' # pc]_vars

\* A call that waits for the watcher of the process it killed goes on and
\* releases the app lock: the process dies, the watcher notices and closes
\* monitorDone, whatever it was doing when the kill was sent.
StopReturns == \A c \in Caller : pc[c] = "join" ~> lock # c

\* A process that is gone does not stay in the record, unless nobody watches
\* it (it was recovered or its kill failed) or an event was overtaken.
DeadPidIsForgotten ==
    \A p \in Pid :
        (record.pid = p /\ proc[p] \in {"exited", "reaped"})
            ~> \/ record.pid # p
               \/ overtaken
               \/ p \in leaked
               \/ \E m \in Manager : cmd[m] = p /\ recovered[m] # "no"

(* Claims of the documentation the code does not keep *)

\* ARCHITECTURE.md: a crash or the end of the restarts makes the state failed
\* and clears the PID.  Checked without failing kills and without removes.
CrashIsRecorded ==
    Quiet /\ ~KillMayFail /\ (\A m \in Manager : recovered[m] = "no") =>
        ~(record.status = "running" /\ proc[record.pid] \in {"exited", "reaped"})

\* handler.go: RemoveApp stops the application and cleans it up.
RemoveStopsTheApp ==
    Quiet /\ record.status = "none" /\ registry = Nobody /\ leaked = {} =>
        \A p \in Pid : proc[p] # "alive"

\* handler.go: RemoveApp deletes the application; no record of it comes back
\* unless a call starts it again.
RemovedStaysRemoved ==
    [][record.status = "none" /\ registry = Nobody /\ lock = Nobody /\ pc' = pc
            => record'.status = "none"]_vars
=============================================================================
