--------------------------- MODULE DeclarativeApp ---------------------------
(***************************************************************************)
(* A declarative process app: Apply (applyProcess), Start, Stop, Restart   *)
(* and RemoveApp of one app, the generations in its record, its work       *)
(* directory, and the TTL callback expireApp.                              *)
(*                                                                         *)
(* The runtime is abstracted to what ProcessLifecycle shows of it: a lock  *)
(* per app, at most one process, which is stopped under the lock, and the  *)
(* event of an exit delivered later.  Its processes are not restarted      *)
(* automatically and no kill fails.  The scheduler is abstracted to        *)
(* Deadlines, without a clock: a deadline may be due at any time.          *)
(*                                                                         *)
(* Handlers read a copy of the record and write the whole record back      *)
(* (ReplaceApp) in a later step.                                           *)
(***************************************************************************)
EXTENDS Integers, FiniteSets

CONSTANTS
    Caller,   \* request threads
    Expirer,  \* the scheduler's goroutine, which runs expireApp
    Nobody,   \* no thread, no deadline, no directory, no configuration
    Config,   \* desired configurations
    Leased,   \* those of them with a TTL
    Legacy,   \* what Start runs: a program given in the request
    Op,       \* the operations callers use
    MaxInst   \* bound of the model: processes that may be started

Thread == Caller \cup {Expirer}
Inst   == 1..MaxInst

ASSUME ConstantsAssumption ==
    /\ Expirer \notin Caller
    /\ Nobody \notin Thread \cup Config
    /\ Legacy \notin Thread \cup Config \cup {Nobody}
    /\ Leased \subseteq Config
    /\ Op \subseteq {"apply", "start", "stop", "restart", "remove"}
    /\ MaxInst \in Nat

VARIABLES
    \* the runtime
    proc,     \* the process that runs, 0 when none does
    managed,  \* the app is in the registry of MultiManager
    lock,     \* who holds the app lock
    late,     \* processes whose exit event is still to be applied
    \* the rest of the server
    record,   \* the app's record
    armed,    \* the deadline in the scheduler
    work, backup,  \* who unpacked what the directories hold
    \* threads
    pc, op,
    copy,     \* the record as the thread read it
    seen,     \* the record as an apply read it again
    mine,     \* the process the thread has started
    info,     \* the process GetAppInfo told it of
    want,     \* the configuration it applies
    firing,   \* the deadline expireApp was called for
    \* history
    started,  \* the number of processes started so far
    life,     \* the apply or restart each process belongs to
    program,  \* what each process runs
    dir,      \* what its work directory held
    lease,    \* the processes a deadline was set for
    lost,       \* an older fact about the app was written over a newer one
    crossed,    \* expireApp decided before a started process had its generation, or
                \* a restart whose process had ended gave its own to another's
    early       \* a deadline was due before the record knew its generation

runVars  == <<proc, managed, lock, late>>
dirVars  == <<work, backup>>
callVars == <<pc, op, copy, seen, mine, info, want>>
instVars == <<started, life, program, dir>>
flagVars == <<lost, crossed, early>>
vars == <<runVars, record, armed, dirVars, callVars, firing, instVars, lease, flagVars>>

\* life is history: a number that, unlike the generation, is never used twice.
Record == [status : {"none", "stopped", "running", "failed", "expired"},
           pid : 0..MaxInst, gen : Nat, life : 0..MaxInst, config : Config \cup {Nobody}]
NoRecord == [status |-> "none", pid |-> 0, gen |-> 0, life |-> 0, config |-> Nobody]
Deadline == [gen : Nat, life : 0..MaxInst]
Holder   == Caller \cup {Nobody}

PC == {"idle", "preserve", "activate", "launch", "rollback", "announce", "insert", "inform",
       "record", "settle", "correct", "arm", "register", "stop", "stopEvent", "relaunch",
       "reannounce", "read", "inquire", "rearm", "rewrite", "unregister", "deregister",
       "check", "expired", "cleanupFailed"}

TypeOK ==
    /\ proc \in 0..MaxInst
    /\ managed \in BOOLEAN
    /\ lock \in Thread \cup {Nobody}
    /\ late \subseteq Inst
    /\ record \in Record
    /\ armed \in Deadline \cup {Nobody}
    /\ work \in Holder \cup {Legacy} /\ backup \in Holder \cup {Legacy}
    /\ pc \in [Thread -> PC]
    /\ op \in [Thread -> Op \cup {"none"}]
    /\ copy \in [Thread -> Record] /\ seen \in [Thread -> Record]
    /\ mine \in [Thread -> 0..MaxInst]
    /\ info \in [Thread -> 0..MaxInst]
    /\ want \in [Thread -> Config \cup {Nobody}]
    /\ firing \in Deadline \cup {Nobody}
    /\ started \in 0..MaxInst
    /\ life \in [Inst -> 0..MaxInst]
    /\ program \in [Inst -> Config \cup {Nobody, Legacy}]
    /\ dir \in [Inst -> Holder \cup {Legacy}]
    /\ lease \subseteq Inst
    /\ {lost, crossed, early} \subseteq BOOLEAN

Init ==
    /\ proc = 0 /\ managed = FALSE /\ lock = Nobody /\ late = {}
    /\ record = NoRecord
    /\ armed = Nobody
    /\ work = Nobody /\ backup = Nobody
    /\ pc = [t \in Thread |-> "idle"]
    /\ op = [t \in Thread |-> "none"]
    /\ copy = [t \in Thread |-> NoRecord] /\ seen = [t \in Thread |-> NoRecord]
    /\ mine = [t \in Thread |-> 0]
    /\ info = [t \in Thread |-> 0]
    /\ want = [t \in Thread |-> Nobody]
    /\ firing = Nobody
    /\ started = 0
    /\ life = [i \in Inst |-> 0]
    /\ program = [i \in Inst |-> Nobody]
    /\ dir = [i \in Inst |-> Nobody]
    /\ lease = {}
    /\ lost = FALSE /\ crossed = FALSE /\ early = FALSE

----------------------------------------------------------------------------
(* Helpers *)

Goto(t, label) == pc' = [pc EXCEPT ![t] = label]

Begin(c, o, label) ==
    /\ pc[c] = "idle"
    /\ o \in Op
    /\ op' = [op EXCEPT ![c] = o]
    /\ Goto(c, label)

Leave(t) ==
    /\ pc' = [pc EXCEPT ![t] = "idle"]
    /\ op' = [op EXCEPT ![t] = "none"]
    /\ copy' = [copy EXCEPT ![t] = NoRecord]
    /\ seen' = [seen EXCEPT ![t] = NoRecord]
    /\ mine' = [mine EXCEPT ![t] = 0]
    /\ info' = [info EXCEPT ![t] = 0]
    /\ want' = [want EXCEPT ![t] = Nobody]

GoOn(t, label) == Goto(t, label) /\ UNCHANGED <<op, copy, seen, mine, info, want>>

\* MultiManager.GetAppInfo
AppInfo == IF managed THEN proc ELSE 0

\* The process i runs, if i is one, or its end is still to be reported: to write
\* that i runs is no mistake.
Current(i) == proc = i \/ (proc = 0 /\ i \in late)

\* updateAppState
RegisterEvent(r)     == [r EXCEPT !.status = "stopped"]
StartEvent(r, i)     == [r EXCEPT !.status = "running", !.pid = i]
EndEvent(r, status)  == [r EXCEPT !.status = status, !.pid = 0]

----------------------------------------------------------------------------
(* StartApp of a process: under the app lock, which is kept until the start *)
(* event has been sent and the new Manager is in the registry.  A process   *)
(* is not started without a directory.                                      *)

Launch(c, i, p, l) ==
    /\ started < MaxInst
    /\ work # Nobody
    /\ i = started + 1
    /\ started' = i
    /\ proc' = i
    /\ lock' = c
    /\ mine' = [mine EXCEPT ![c] = i]
    /\ life' = [life EXCEPT ![i] = l]
    /\ program' = [program EXCEPT ![i] = p]
    /\ dir' = [dir EXCEPT ![i] = work]
    /\ crossed' = (crossed \/ pc[Expirer] = "stop")
    /\ Goto(c, "announce")

StartApp(c) ==
    /\ pc[c] = "launch"
    /\ lock = Nobody
    /\ proc = 0
    /\ IF op[c] = "apply" THEN Launch(c, started + 1, want[c], started + 1)
                          ELSE Launch(c, started + 1, Legacy, record.life)
    /\ managed' = FALSE
    /\ UNCHANGED <<late, record, armed, dirVars, op, copy, seen, info, want, firing,
                   lease, lost, early>>

\* It runs already, or it cannot be started; Start reports it, Apply puts the
\* previous directory back first.
StartAppFails(c) ==
    /\ pc[c] = "launch"
    /\ lock = Nobody
    /\ managed' = (managed /\ proc # 0)
    /\ IF op[c] = "apply" THEN GoOn(c, "rollback") ELSE Leave(c)
    /\ UNCHANGED <<proc, lock, late, record, armed, dirVars, firing, instVars, lease,
                   flagVars>>

Rollback(c) ==
    /\ pc[c] = "rollback"
    /\ work' = backup
    /\ backup' = Nobody
    /\ Leave(c)
    /\ UNCHANGED <<runVars, record, armed, firing, instVars, lease, flagVars>>

\* The start event is applied before the Manager can be found.
Announce(c) ==
    /\ pc[c] = "announce"
    /\ record' = StartEvent(record, mine[c])
    /\ lost' = (lost \/ ~Current(mine[c]))
    /\ GoOn(c, IF op[c] = "restart" THEN "reannounce" ELSE "insert")
    /\ UNCHANGED <<runVars, armed, dirVars, firing, instVars, lease, crossed, early>>

Insert(c) ==
    /\ pc[c] = "insert"
    /\ managed' = TRUE
    /\ lock' = Nobody
    /\ IF op[c] = "apply" THEN GoOn(c, "inform") ELSE Leave(c)
    /\ UNCHANGED <<proc, late, record, armed, dirVars, firing, instVars, lease, flagVars>>

----------------------------------------------------------------------------
(* Apply *)

\* A running app is left alone: the same configuration is answered at once,
\* another is a conflict.
ApplyReads(c) ==
    /\ Begin(c, "apply", "preserve")
    /\ record.status # "running"
    /\ copy' = [copy EXCEPT ![c] = record]
    /\ \E k \in Config : want' = [want EXCEPT ![c] = k]
    /\ UNCHANGED <<runVars, record, armed, dirVars, seen, mine, info, firing, instVars, lease,
                   flagVars>>

\* The previous directory makes room for the staged one and is kept.
PreservePrevious(c) ==
    /\ pc[c] = "preserve"
    /\ backup' = work
    /\ work' = Nobody
    /\ GoOn(c, "activate")
    /\ UNCHANGED <<runVars, record, armed, firing, instVars, lease, flagVars>>

\* A directory is not renamed onto another.
Activate(c) ==
    /\ pc[c] = "activate"
    /\ IF work = Nobody THEN work' = c /\ GoOn(c, "launch")
                        ELSE work' = work /\ Leave(c)
    /\ UNCHANGED <<runVars, record, armed, backup, firing, instVars, lease, flagVars>>

\* The previous directory is dropped, and GetAppInfo is asked.
ApplyAsks(c) ==
    /\ pc[c] = "inform"
    /\ backup' = Nobody
    /\ info' = [info EXCEPT ![c] = AppInfo]
    /\ Goto(c, "record")
    /\ UNCHANGED <<runVars, record, armed, work, op, copy, seen, mine, want, firing, instVars,
                   lease, flagVars>>

\* What ApplyRecords writes over: another generation, another process, or an
\* end of the process it saw running that no event will report again.
Overwrites(c) ==
    \/ record.gen # copy[c].gen
    \/ proc \notin {0, mine[c]}
    \/ proc = 0 /\ info[c] # 0 /\ mine[c] \notin late

\* Fault: the generation is taken over.
AppliedSame(c) == [status |-> "running", pid |-> info[c], gen |-> copy[c].gen,
                   life |-> mine[c], config |-> want[c]]
Applied(c) == [status |-> "running", pid |-> info[c], gen |-> copy[c].gen + 1,
               life |-> mine[c], config |-> want[c]]

\* ReplaceApp with a new record, running whatever GetAppInfo said.
ApplyRecords(c) ==
    /\ pc[c] = "record"
    /\ record' = Applied(c)
    /\ lost' = (lost \/ Overwrites(c))
    /\ CASE info[c] = 0          -> GoOn(c, "settle")
         [] info[c] # 0 /\ want[c] \in Leased    -> GoOn(c, "arm")
         [] info[c] # 0 /\ want[c] \notin Leased -> Leave(c)
    /\ UNCHANGED <<runVars, armed, dirVars, firing, instVars, lease, crossed, early>>

\* Fault: the wait is not followed by a correction.
ApplySettlesNothing(c) ==
    /\ pc[c] = "settle"
    /\ IF want[c] \in Leased THEN GoOn(c, "arm") ELSE Leave(c)
    /\ UNCHANGED <<runVars, record, armed, dirVars, firing, instVars, lease, flagVars>>

\* The process was gone: wait for its event, after a second stop waiting, and
\* read the record again (GetState).
ApplySettles(c) ==
    /\ pc[c] = "settle"
    /\ IF record.status = "running"
       THEN /\ seen' = [seen EXCEPT ![c] = record]
            /\ Goto(c, "correct")
            /\ UNCHANGED <<op, copy, mine, info, want>>
       ELSE IF want[c] \in Leased THEN GoOn(c, "arm") ELSE Leave(c)
    /\ UNCHANGED <<runVars, record, armed, dirVars, firing, instVars, lease, flagVars>>

\* ReplaceApp with the corrected copy.
ApplyCorrects(c) ==
    /\ pc[c] = "correct"
    /\ record' = EndEvent(seen[c], "stopped")
    /\ lost' = (lost \/ record # seen[c] \/ proc # 0)
    /\ IF want[c] \in Leased THEN GoOn(c, "arm") ELSE Leave(c)
    /\ UNCHANGED <<runVars, armed, dirVars, firing, instVars, lease, crossed, early>>

\* Cancel and Schedule
ApplyArms(c) ==
    /\ pc[c] = "arm"
    /\ armed' = [gen |-> copy[c].gen + 1, life |-> mine[c]]
    /\ lease' = lease \cup {mine[c]}
    /\ Leave(c)
    /\ UNCHANGED <<runVars, record, dirVars, firing, instVars, flagVars>>

----------------------------------------------------------------------------
(* Stop and Remove first cancel the deadline (stopDockerApp, closeStaticSite), *)
(* whatever kind of app it is.                                                 *)

Cancels(c) ==
    /\ \E o \in {"stop", "remove"} : Begin(c, o, "stop")
    /\ armed' = Nobody
    /\ UNCHANGED <<runVars, record, dirVars, copy, seen, mine, info, want, firing, instVars,
                   lease, flagVars>>

\* MultiManager.StopApp of a request or of expireApp: the process is killed
\* under the lock; its watcher has nothing to report.
StopApp(t) ==
    /\ pc[t] = "stop"
    /\ lock = Nobody
    /\ managed /\ proc # 0
    /\ proc' = 0
    /\ lock' = t
    /\ GoOn(t, "stopEvent")
    /\ UNCHANGED <<managed, late, record, armed, dirVars, firing, instVars, lease, flagVars>>

\* "no running application" and "not found" end a Stop, do not stop a Remove,
\* and are told apart by expireApp.
StopAppFails(t) ==
    /\ pc[t] = "stop"
    /\ lock = Nobody
    /\ ~(managed /\ proc # 0)
    /\ CASE op[t] = "stop"   -> Leave(t)
         [] op[t] = "remove" -> GoOn(t, "unregister")
         [] op[t] = "none"   -> GoOn(t, IF managed THEN "expired" ELSE "cleanupFailed")
    /\ UNCHANGED <<runVars, record, armed, dirVars, firing, instVars, lease, flagVars>>

StopAppEnds(t) ==
    /\ pc[t] = "stopEvent"
    /\ record' = EndEvent(record, "stopped")
    /\ lock' = IF op[t] = "restart" THEN t ELSE Nobody
    /\ CASE op[t] = "stop"    -> Leave(t)
         [] op[t] = "remove"  -> GoOn(t, "unregister")
         [] op[t] = "restart" -> GoOn(t, "relaunch")
         [] op[t] = "none"    -> GoOn(t, "expired")
    /\ UNCHANGED <<proc, managed, late, armed, dirVars, firing, instVars, lease, flagVars>>

\* A process started since is out of reach from now on.
Unregister(c) ==
    /\ pc[c] = "unregister"
    /\ lock = Nobody
    /\ managed' = FALSE
    /\ proc' = 0
    /\ late' = late \cup ({proc} \ {0})
    /\ GoOn(c, "deregister")
    /\ UNCHANGED <<lock, record, armed, dirVars, firing, instVars, lease, flagVars>>

\* The work directory and then the record are removed.
Deregister(c) ==
    /\ pc[c] = "deregister"
    /\ work' = Nobody
    /\ record' = NoRecord
    /\ lost' = (lost \/ proc # 0)
    /\ Leave(c)
    /\ UNCHANGED <<runVars, armed, backup, firing, instVars, lease, crossed, early>>

----------------------------------------------------------------------------
(* Start: the configuration in the record, and its generation, stay *)

StartChecks(c) ==
    /\ Begin(c, "start", "register")
    /\ ~(managed /\ proc # 0)
    /\ UNCHANGED <<runVars, record, armed, dirVars, copy, seen, mine, info, want, firing,
                   instVars, lease, flagVars>>

\* The directory is made if it is missing.
Register(c) ==
    /\ pc[c] = "register"
    /\ work' = IF work = Nobody THEN Legacy ELSE work
    /\ record' = RegisterEvent(record)
    /\ lost' = (lost \/ proc # 0)
    /\ GoOn(c, "launch")
    /\ UNCHANGED <<runVars, armed, backup, firing, instVars, lease, crossed, early>>

----------------------------------------------------------------------------
(* Restart *)

RestartStops(c) ==
    /\ Begin(c, "restart", "stopEvent")
    /\ lock = Nobody
    /\ managed /\ proc # 0
    /\ proc' = 0
    /\ lock' = c
    /\ mine' = [mine EXCEPT ![c] = proc]
    /\ UNCHANGED <<managed, late, record, armed, dirVars, copy, seen, info, want, firing,
                   instVars, lease, flagVars>>

\* The same program, as a new generation.
Relaunch(c) ==
    /\ pc[c] = "relaunch"
    /\ Launch(c, started + 1, program[mine[c]], started + 1)
    /\ UNCHANGED <<managed, late, record, armed, dirVars, op, copy, seen, info, want,
                   firing, lease, lost, early>>

RelaunchFails(c) ==
    /\ pc[c] = "relaunch"
    /\ lock' = Nobody
    /\ Leave(c)
    /\ UNCHANGED <<proc, managed, late, record, armed, dirVars, firing, instVars, lease,
                   flagVars>>

\* The restart event, with the PID as it was just before: 0 after an exit.
Reannounce(c) ==
    /\ pc[c] = "reannounce"
    /\ \E i \in {mine[c], proc} : record' = StartEvent(record, i)
    /\ lost' = (lost \/ ~Current(mine[c]))
    /\ lock' = Nobody
    /\ GoOn(c, "read")
    /\ UNCHANGED <<proc, managed, late, armed, dirVars, firing, instVars, lease, crossed,
                   early>>

\* GetState; an app that was never applied ends here.
RestartReads(c) ==
    /\ pc[c] = "read"
    /\ IF record.config = Nobody
       THEN Leave(c)
       ELSE /\ copy' = [copy EXCEPT ![c] = record]
            /\ Goto(c, "inquire")
            /\ UNCHANGED <<op, seen, mine, info, want>>
    /\ UNCHANGED <<runVars, record, armed, dirVars, firing, instVars, lease, flagVars>>

\* GetAppInfo, which may know less than the record, or more.
RestartAsks(c) ==
    /\ pc[c] = "inquire"
    /\ info' = [info EXCEPT ![c] = AppInfo]
    /\ Goto(c, "rearm")
    /\ UNCHANGED <<runVars, record, armed, dirVars, op, copy, seen, mine, want, firing,
                   instVars, lease, flagVars>>

\* The deadline is set before the record has the new generation.
RestartArms(c) ==
    /\ pc[c] = "rearm"
    /\ IF copy[c].config \in Leased
       THEN /\ armed' = [gen |-> copy[c].gen + 1, life |-> mine[c]]
            /\ lease' = lease \cup {mine[c]}
       ELSE /\ armed' = Nobody
            /\ lease' = lease
    /\ GoOn(c, "rewrite")
    /\ UNCHANGED <<runVars, record, dirVars, firing, instVars, flagVars>>

\* ReplaceApp with the changed copy: what it read of the record and of the
\* process may be outdated.
RestartRecords(c) ==
    /\ pc[c] = "rewrite"
    /\ record' = [copy[c] EXCEPT !.gen = @ + 1, !.pid = info[c], !.life = mine[c]]
    /\ lost' = (lost \/ record # copy[c] \/ ~Current(info[c]))
    /\ crossed' = (crossed \/ proc \notin {0, mine[c]})
    /\ Leave(c)
    /\ UNCHANGED <<runVars, armed, dirVars, firing, instVars, lease, early>>

----------------------------------------------------------------------------
(* expireApp, called by the scheduler *)

Fire ==
    /\ pc[Expirer] = "idle"
    /\ armed # Nobody
    /\ firing' = armed
    /\ armed' = Nobody
    /\ early' = (early \/ \E c \in Caller : pc[c] = "rewrite" /\ mine[c] = armed.life)
    /\ Goto(Expirer, "check")
    /\ UNCHANGED <<runVars, record, dirVars, op, copy, seen, mine, info, want, instVars,
                   lease, lost, crossed>>

\* The process a caller has started still runs under the generation before.
Unrecorded(c) ==
    pc[c] \in {"announce", "insert", "reannounce", "inform", "record", "read", "inquire",
               "rearm", "rewrite"}

\* Fault: the generation is not looked at.
ExpireAny ==
    /\ pc[Expirer] = "check"
    /\ IF record.status = "running"
       THEN /\ copy' = [copy EXCEPT ![Expirer] = record]
            /\ Goto(Expirer, "stop")
            /\ UNCHANGED <<op, seen, mine, info, want, firing>>
       ELSE Leave(Expirer) /\ firing' = Nobody
    /\ crossed' = (crossed \/ \E c \in Caller : Unrecorded(c))
    /\ UNCHANGED <<runVars, record, armed, dirVars, instVars, lease, lost, early>>

ExpireChecks ==
    /\ pc[Expirer] = "check"
    /\ IF record.gen = firing.gen /\ record.status = "running"
       THEN /\ copy' = [copy EXCEPT ![Expirer] = record]
            /\ Goto(Expirer, "stop")
            /\ UNCHANGED <<op, seen, mine, info, want, firing>>
       ELSE Leave(Expirer) /\ firing' = Nobody
    /\ crossed' = (crossed \/ \E c \in Caller : Unrecorded(c))
    /\ UNCHANGED <<runVars, record, armed, dirVars, instVars, lease, lost, early>>

\* ReplaceApp with the changed copy, stop event or not.
ExpireRecords ==
    /\ pc[Expirer] \in {"expired", "cleanupFailed"}
    /\ record' = EndEvent(copy[Expirer], IF pc[Expirer] = "expired" THEN "expired" ELSE "failed")
    /\ lost' = (lost \/ record.life # copy[Expirer].life \/ proc # 0)
    /\ firing' = Nobody
    /\ Leave(Expirer)
    /\ UNCHANGED <<runVars, armed, dirVars, instVars, lease, crossed, early>>

----------------------------------------------------------------------------
(* The process and its watcher *)

\* It exits by itself, and the watcher has noticed.
Exits ==
    /\ proc # 0
    /\ proc' = 0
    /\ late' = late \cup {proc}
    /\ UNCHANGED <<managed, lock, record, armed, dirVars, callVars, firing, instVars, lease,
                   flagVars>>

\* The failed or stop event of the watcher.
ExitEvent ==
    /\ \E i \in late : late' = late \ {i}
    /\ \E s \in {"failed", "stopped"} : record' = EndEvent(record, s)
    /\ lost' = (lost \/ proc # 0)
    /\ UNCHANGED <<proc, managed, lock, armed, dirVars, callVars, firing, instVars, lease,
                   crossed, early>>

----------------------------------------------------------------------------

Call(c) ==
    \/ ApplyReads(c) \/ Cancels(c) \/ StartChecks(c) \/ RestartStops(c)

Locked(t) == StartApp(t) \/ StartAppFails(t) \/ StopApp(t) \/ StopAppFails(t) \/ Unregister(t)

Continue(c) ==
    \/ Rollback(c) \/ Announce(c) \/ Insert(c) \/ StopAppEnds(c)
    \/ PreservePrevious(c) \/ Activate(c) \/ ApplyAsks(c) \/ ApplyRecords(c)
    \/ ApplySettles(c) \/ ApplyCorrects(c) \/ ApplyArms(c)
    \/ Deregister(c) \/ Register(c)
    \/ Relaunch(c) \/ RelaunchFails(c) \/ Reannounce(c)
    \/ RestartReads(c) \/ RestartAsks(c) \/ RestartArms(c) \/ RestartRecords(c)

Expire == ExpireChecks \/ ExpireRecords \/ StopAppEnds(Expirer)

Next ==
    \/ \E c \in Caller : Call(c) \/ Continue(c)
    \/ \E t \in Thread : Locked(t)
    \/ Fire \/ Expire \/ Exits \/ ExitEvent

Spec == Init /\ [][Next]_vars

\* Threads run, sync.Mutex starves nobody, deadlines come, and a watcher sends
\* its event.  Nobody has to call and no process has to exit.
FairSpec ==
    /\ Spec
    /\ \A c \in Caller : WF_vars(Continue(c))
    /\ \A t \in Thread : SF_vars(Locked(t))
    /\ WF_vars(Fire) /\ WF_vars(Expire) /\ WF_vars(ExitEvent)

----------------------------------------------------------------------------
(* Properties *)

Quiet == late = {} /\ \A t \in Thread : pc[t] = "idle"

\* The types; and between calls the record tells whether the app runs, and as which process,
\* however applies, restarts, expiries and exits interleave, unless one of them
\* wrote an older fact over a newer one.
RecordIsTruthful ==
    /\ TypeOK
    /\ Quiet /\ ~lost =>
        IF proc # 0 THEN record.status = "running" /\ record.pid = proc
                    ELSE record.status # "running" /\ record.pid = 0

\* expireApp ends only a process of the apply or restart its deadline was set
\* for: the comparison of generations is as good as one of identities, as long as
\* no update of the record was lost, no start was under way meanwhile, and no
\* restart wrote its generation over the process of another operation.
ExpiryEndsItsOwn ==
    [][pc[Expirer] = "stop" /\ pc'[Expirer] = "stopEvent" /\ ~lost /\ ~crossed
            => life[proc] = firing.life]_vars

\* A process with a deadline ends, unless an update of the record was lost or
\* the deadline was due too early for the record to know of it.
LeaseEnds ==
    \A i \in Inst : i \in lease ~> proc # i \/ lost \/ early

(* Claims of the documentation the code does not keep *)

\* ARCHITECTURE.md: apply does not touch a running app, it has to be stopped
\* first; so a running app has the work directory it was started with.
WorkDirIsKept == Quiet /\ proc # 0 => work = dir[proc]

\* ARCHITECTURE.md: the TTL callback checks the generation.
ExpiryChecksGeneration ==
    [][pc[Expirer] = "stop" /\ pc'[Expirer] = "stopEvent" => life[proc] = firing.life]_vars

\* process_apply.go: the record of a process that exited before apply returned
\* is not left running forever.
ExitIsRecorded == Quiet => ~(record.status = "running" /\ proc = 0)

\* ARCHITECTURE.md: applying the same configuration again keeps the running
\* instance; so an app that is recorded as running a configuration runs it.
RecordedConfigRuns ==
    Quiet /\ ~lost /\ record.status = "running" /\ record.config # Nobody =>
        program[proc] = record.config

\* ARCHITECTURE.md: expired is a final state, until a request changes it.
ExpiredIsFinal ==
    [][record.status = "expired" /\ record'.status # "expired"
            => \E c \in Caller : pc'[c] # pc[c]]_vars

\* ARCHITECTURE.md: a restart starts a new TTL.
RestartedLeaseEnds == \A i \in Inst : i \in lease ~> proc # i \/ lost
=============================================================================
