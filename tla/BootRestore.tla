---------------------------- MODULE BootRestore ----------------------------
(***************************************************************************)
(* What becomes of the process apps when the server ends and boots: main,  *)
(* Restore, Cleanup and RestoreState on one side, Shutdown and StopAll on  *)
(* the other, with the operating system in between.                        *)
(*                                                                         *)
(* While the server serves, an operation is one step; its parts are those  *)
(* of ProcessLifecycle and DeclarativeApp.  The state file is written      *)
(* whole, as StatePersistence shows.  A process is told from another with  *)
(* its PID by the time it was born.                                        *)
(***************************************************************************)
EXTENDS Integers, FiniteSets

CONSTANTS
    App,
    Stranger,      \* whose processes are not ours
    AutoRestart,   \* apps with Config.AutoRestart
    Leased,        \* apps with a TTL
    Blind,         \* apps whose processes get no identity when they start
    None,
    Pid,           \* PIDs
    MaxBirth,      \* bound of the model: processes born, ours and others
    MaxTime,       \* bound of the model: the clock, in TTLs
    SlowReplay,    \* whether a batch of events may be saved before the replay is over
    LateRequests,  \* whether a request may still run when Shutdown stops the apps
    PidsComeRound  \* whether a PID may be given out again while a server runs

ASSUME ConstantsAssumption ==
    /\ AutoRestart \cup Leased \cup Blind \subseteq App
    /\ Stranger \notin App /\ None \notin App
    /\ Pid \subseteq Nat \ {0}
    /\ MaxBirth \in Nat /\ MaxTime \in Nat
    /\ {SlowReplay, LateRequests, PidsComeRound} \subseteq BOOLEAN

VARIABLES
    proc, births, now,  \* the operating system: who has each PID, and the clock
    file,      \* the state file
    phase, todo,  \* what the server does, and the apps its loop has not come to
    loaded,    \* Restore's copy of the file, then RestoreState's of the records
    mem,       \* SyncManager.state
    queued,    \* an event waits for the batching loop
    verified,  \* apps with IdentityVerified
    manager,   \* MultiManager.managers
    armed,     \* the deadline the TTL scheduler has, or 0
    recorded,  \* history: births the file has had
    spared,    \* history: births of processes a stop may not or could not kill
    stuck,     \* history: apps whose record says running since a stop failed
    plain      \* history: apps last started by Start or Deploy, which set no deadline

osVars  == <<proc, births, now>>
booting == <<phase, todo, loaded>>
spells  == <<stuck, plain>>
history == <<recorded, spared, spells>>
vars == <<osVars, file, booting, mem, queued, verified, manager, armed, history>>

Birth   == 0..MaxBirth
Record  == [status : {"running", "stopped", "expired", "failed"}, pid : Pid \cup {0},
            id : Birth, expires : 0..(MaxTime + 1)]
Manager == [running : BOOLEAN, pid : Pid \cup {0}, authority : BOOLEAN, watched : BOOLEAN]
Process == [app : App \cup {Stranger}, birth : Birth]
NoFile  == [a \in App |-> None]

ASSUME NoneAssumption == None \notin Record /\ None \notin Manager /\ None \notin Process

Serving == phase \in {"serve", "stopping"}

TypeOK ==
    /\ proc \in [Pid -> Process \cup {None}]
    /\ births \in Birth /\ now \in 0..MaxTime
    /\ file \in [App -> Record \cup {None}]
    /\ phase \in {"off", "crashed", "restore", "cleanup", "revive", "serve", "stopping"}
    /\ todo \subseteq App
    /\ loaded \in [App -> Record \cup {None}] /\ mem \in [App -> Record \cup {None}]
    /\ queued \in BOOLEAN
    /\ verified \subseteq App
    /\ manager \in [App -> Manager \cup {None}]
    /\ armed \in [App -> 0..(MaxTime + 1)]
    /\ recorded \subseteq Birth /\ spared \subseteq Birth
    /\ stuck \subseteq App /\ plain \subseteq App
    \* a manager that runs has a process, and so has a record that says so
    /\ \A a \in App : manager[a] # None /\ manager[a].running => manager[a].pid # 0
    /\ \A a \in App : mem[a] # None => (mem[a].status = "running" <=> mem[a].pid # 0)

Init ==
    /\ proc = [p \in Pid |-> None] /\ births = 0 /\ now = 0
    /\ file = NoFile
    /\ phase = "off" /\ todo = {}
    /\ loaded = NoFile /\ mem = NoFile
    /\ queued = FALSE
    /\ verified = {}
    /\ manager = [a \in App |-> None]
    /\ armed = [a \in App |-> 0]
    /\ recorded = {} /\ spared = {}
    /\ stuck = {} /\ plain = {}

----------------------------------------------------------------------------
(* The operating system *)

Down == phase \in {"off", "crashed"}
Alive(p) == p # 0 /\ proc[p] # None

\* A PID is free once its process is dead, and reaped if the server is its parent.
Remembered(p) ==
    \E a \in App :
        \/ manager[a] # None /\ manager[a].running /\ manager[a].pid = p
        \/ \E r \in {mem[a], loaded[a]} : r # None /\ r.pid = p
Unreaped(p) ==
    \E a \in App : manager[a] # None /\ manager[a].running /\ manager[a].watched
                   /\ manager[a].pid = p
Free(p) == proc[p] = None /\ ~Unreaped(p) /\ (PidsComeRound \/ ~Remembered(p))

Spawned(a, p) ==
    /\ births < MaxBirth
    /\ Free(p)
    /\ births' = births + 1
    /\ proc' = [proc EXCEPT ![p] = [app |-> a, birth |-> births + 1]]

ProcessExits ==
    /\ \E p \in Pid : proc[p] # None /\ proc' = [proc EXCEPT ![p] = None]
    /\ UNCHANGED <<births, now, file, booting, mem, queued, verified, manager, armed, history>>

PidIsReused ==
    /\ Down \/ PidsComeRound
    /\ \E p \in Pid : Spawned(Stranger, p)
    /\ UNCHANGED <<now, file, booting, mem, queued, verified, manager, armed, history>>

HostRestarts ==
    /\ Down
    /\ proc' = [p \in Pid |-> None]
    /\ UNCHANGED <<births, now, file, booting, mem, queued, verified, manager, armed, history>>

TimePasses ==
    /\ now < MaxTime
    /\ now' = now + 1
    /\ UNCHANGED <<proc, births, file, booting, mem, queued, verified, manager, armed, history>>

----------------------------------------------------------------------------
(* Events and the file *)

Set(f, a, v) == [f EXCEPT ![a] = v]
Stopped(r) == [r EXCEPT !.status = "stopped", !.pid = 0]
Apps(data) == {a \in App : data[a] # None}

\* The record of app a is of its process that lives.
Known(a, r) ==
    Alive(r.pid) /\ proc[r.pid].app = a /\ r.id \in {0, proc[r.pid].birth}

Persisted(data) ==
    /\ file' = data
    /\ recorded' = recorded \cup {proc[data[a].pid].birth : a \in {b \in Apps(data) : Known(b, data[b])}}

\* syncLoop, 100 ms after an event.
Batch ==
    /\ queued
    /\ ~Down
    /\ SlowReplay \/ Serving
    /\ Persisted(mem)
    /\ queued' = FALSE
    /\ UNCHANGED <<osVars, booting, mem, verified, manager, armed, spared, spells>>

----------------------------------------------------------------------------
(* Boot: Restore *)

Load ==
    /\ Down
    /\ phase' = "restore" /\ todo' = Apps(file)
    /\ loaded' = file
    /\ mem' = NoFile
    /\ stuck' = {} /\ plain' = {}
    /\ UNCHANGED <<osVars, file, queued, verified, manager, armed, recorded, spared>>

\* An event of Restore reaches the records, which ReplaceState will replace.
Restoring(a) == phase = "restore" /\ a \in todo
Restored(a, r) ==
    /\ todo' = todo \ {a}
    /\ loaded' = Set(loaded, a, r)
    /\ UNCHANGED <<osVars, file, phase, manager, armed, history>>
Announced(a, r) == mem' = Set(mem, a, r) /\ queued' = TRUE

Terminal(r) == r.status \in {"expired", "failed"}

RestoreTerminal(a) ==
    /\ Restoring(a) /\ Terminal(loaded[a])
    /\ Restored(a, [loaded[a] EXCEPT !.pid = 0])
    /\ UNCHANGED <<mem, queued, verified>>

\* Fault: what has been stopped may be anything but running.
RestoreDeadRevives(a) ==
    /\ Restoring(a) /\ ~Alive(loaded[a].pid)
    /\ LET r == Stopped(loaded[a]) IN Restored(a, r) /\ Announced(a, r)
    /\ UNCHANGED verified

RestoreDead(a) ==
    /\ Restoring(a) /\ ~Terminal(loaded[a]) /\ ~Alive(loaded[a].pid)
    /\ LET r == Stopped(loaded[a]) IN Restored(a, r) /\ Announced(a, r)
    /\ UNCHANGED verified

RestoreReused(a) ==
    /\ Restoring(a) /\ ~Terminal(loaded[a]) /\ Alive(loaded[a].pid)
    /\ loaded[a].id \notin {0, proc[loaded[a].pid].birth}
    /\ LET r == Stopped(loaded[a]) IN Restored(a, r) /\ Announced(a, r)
    /\ UNCHANGED verified

\* Fault: without an identity the PID is good enough.
RestoreTrusting(a) ==
    /\ Restoring(a) /\ ~Terminal(loaded[a]) /\ Alive(loaded[a].pid)
    /\ loaded[a].id \in {0, proc[loaded[a].pid].birth}
    /\ LET r == [loaded[a] EXCEPT !.status = "running"] IN Restored(a, r) /\ Announced(a, r)
    /\ verified' = verified \cup {a}

RestoreVerified(a) ==
    /\ Restoring(a) /\ ~Terminal(loaded[a]) /\ Alive(loaded[a].pid)
    /\ loaded[a].id = proc[loaded[a].pid].birth
    /\ LET r == [loaded[a] EXCEPT !.status = "running"] IN Restored(a, r) /\ Announced(a, r)
    /\ verified' = verified \cup {a}

\* Fault: a process that may be another is taken for another.
RestoreUnverifiedStops(a) ==
    /\ Restoring(a) /\ ~Terminal(loaded[a]) /\ Alive(loaded[a].pid)
    /\ LET r == Stopped(loaded[a]) IN Restored(a, r) /\ Announced(a, r)
    /\ UNCHANGED verified

\* The record has no identity, or the one of the process cannot be read.
RestoreUnverified(a) ==
    /\ Restoring(a) /\ ~Terminal(loaded[a]) /\ Alive(loaded[a].pid)
    /\ LET r == [loaded[a] EXCEPT !.status = "running"] IN Restored(a, r) /\ Announced(a, r)
    /\ UNCHANGED verified

ReplaceState ==
    /\ phase = "restore" /\ todo = {}
    /\ mem' = loaded
    /\ phase' = "cleanup" /\ todo' = Apps(loaded)
    /\ UNCHANGED <<osVars, file, loaded, queued, verified, manager, armed, history>>

----------------------------------------------------------------------------
(* Boot: Cleanup and the rest of RestoreState *)

Cleanup(a) ==
    /\ phase = "cleanup" /\ a \in todo
    /\ todo' = todo \ {a}
    /\ IF mem[a].pid # 0 /\ ~Alive(mem[a].pid) THEN Announced(a, Stopped(mem[a]))
       ELSE UNCHANGED <<mem, queued>>
    /\ UNCHANGED <<osVars, file, phase, loaded, verified, manager, armed, history>>

\* Cleanup saves what it has changed; the loop that follows works on a copy.
CleanedUp ==
    /\ phase = "cleanup" /\ todo = {}
    /\ IF mem # loaded THEN Persisted(mem) ELSE UNCHANGED <<file, recorded>>
    /\ loaded' = mem
    /\ phase' = "revive" /\ todo' = Apps(mem)
    /\ UNCHANGED <<osVars, mem, queued, verified, manager, armed, spared, spells>>

Reviving(a) ==
    /\ phase = "revive" /\ a \in todo
    /\ todo' = todo \ {a}
    /\ UNCHANGED <<now, file, phase, loaded, verified, recorded, plain>>

RestoredManager(a) ==
    [running |-> loaded[a].status = "running", pid |-> loaded[a].pid,
     authority |-> a \in verified, watched |-> FALSE]
OutOfTime(r) == r.expires # 0 /\ r.expires <= now

\* A process without authority is left alive, and the stop succeeds.
Killed(m) ==
    IF m.authority
    THEN proc' = [proc EXCEPT ![m.pid] = None] /\ UNCHANGED spared
    ELSE /\ UNCHANGED proc
         /\ spared' = spared \cup (IF Alive(m.pid) THEN {proc[m.pid].birth} ELSE {})

\* The operating system refuses, and the stop fails.
KillFails(m) ==
    /\ m.authority /\ Alive(m.pid)
    /\ spared' = spared \cup {proc[m.pid].birth}
    /\ UNCHANGED proc

\* Adopted as it is: running, with what is left of its TTL, or not running.
ReviveKeeps(a) ==
    /\ Reviving(a)
    /\ loaded[a].status = "running" => ~OutOfTime(loaded[a])
    /\ loaded[a].status = "stopped" => a \notin AutoRestart
    /\ manager' = Set(manager, a, RestoredManager(a))
    /\ armed' = Set(armed, a, IF loaded[a].status = "running" THEN loaded[a].expires ELSE 0)
    /\ UNCHANGED <<proc, births, mem, queued, spared, stuck>>

\* Its time ran out while the server was down.  That the stop failed is only logged.
ReviveExpires(a) ==
    /\ Reviving(a)
    /\ loaded[a].status = "running" /\ OutOfTime(loaded[a])
    /\ Killed(RestoredManager(a)) \/ KillFails(RestoredManager(a))
    /\ manager' = Set(manager, a, [RestoredManager(a) EXCEPT !.running = FALSE])
    /\ Announced(a, [loaded[a] EXCEPT !.status = "expired", !.pid = 0])
    /\ UNCHANGED <<births, armed, stuck>>

Started(a, p, expires) ==
    /\ Spawned(a, p)
    /\ manager' = Set(manager, a, [running |-> TRUE, pid |-> p, authority |-> TRUE, watched |-> TRUE])
    /\ Announced(a, [status |-> "running", pid |-> p, expires |-> expires,
                     id |-> IF a \in Blind THEN 0 ELSE births + 1])
    /\ stuck' = stuck \ {a}

\* Fault: the TTL does not outlive the server.
ReviveStartsAfresh(a) ==
    /\ Reviving(a)
    /\ loaded[a].status = "stopped" /\ a \in AutoRestart
    /\ \E p \in Pid : Started(a, p, loaded[a].expires)
    /\ UNCHANGED <<armed, spared>>

\* Whoever stopped it, and whether or not its time ran out: then there is no
\* deadline any more.
ReviveStarts(a) ==
    /\ Reviving(a)
    /\ loaded[a].status = "stopped" /\ a \in AutoRestart
    /\ \E p \in Pid : Started(a, p, loaded[a].expires)
    /\ armed' = Set(armed, a, IF OutOfTime(loaded[a]) THEN 0 ELSE loaded[a].expires)
    /\ UNCHANGED spared

ReviveFails(a) ==
    /\ Reviving(a)
    /\ loaded[a].status = "stopped" /\ a \in AutoRestart
    /\ manager' = Set(manager, a, None)
    /\ UNCHANGED <<proc, births, mem, queued, armed, spared, stuck>>

Serve ==
    /\ phase = "revive" /\ todo = {}
    /\ Persisted(mem)
    /\ phase' = "serve"
    /\ UNCHANGED <<osVars, todo, loaded, mem, queued, verified, manager, armed, spared, spells>>

----------------------------------------------------------------------------
(* Between boot and shutdown *)

Running(a) == manager[a] # None /\ manager[a].running
Recorded(a) == mem[a] # None /\ mem[a].status = "running"
Accepting == phase = "serve" \/ (phase = "stopping" /\ LateRequests)

\* Of an app that the record does not call running.  Once the scheduler is closed
\* it takes no deadline.
Apply(a) ==
    /\ Accepting
    /\ ~Running(a) /\ ~Recorded(a)
    /\ LET expires == IF a \in Leased THEN now + 1 ELSE 0 IN
        /\ \E p \in Pid : Started(a, p, expires)
        /\ armed' = Set(armed, a, IF phase = "serve" THEN expires ELSE 0)
    /\ plain' = plain \ {a}
    /\ UNCHANGED <<now, file, booting, verified, recorded, spared>>

\* Start and Deploy: the record keeps its deadline, and whatever is armed stays armed.
Start(a) ==
    /\ Accepting
    /\ ~Running(a)
    /\ \E p \in Pid : Started(a, p, IF mem[a] = None THEN 0 ELSE mem[a].expires)
    /\ plain' = plain \cup {a}
    /\ UNCHANGED <<now, file, booting, verified, armed, recorded, spared>>

Halts(a) == manager' = Set(manager, a, [manager[a] EXCEPT !.running = FALSE])
RecordEnds(a, status) == Announced(a, [mem[a] EXCEPT !.status = status, !.pid = 0])

EndsAs(a, status) ==
    /\ Running(a)
    /\ Killed(manager[a])
    /\ Halts(a)
    /\ RecordEnds(a, status)
    /\ UNCHANGED <<births, now, file, loaded, verified, recorded, spells>>

\* There is no event: the record goes on calling the app running, though its
\* manager does not.
StopFails(a) ==
    /\ Running(a)
    /\ KillFails(manager[a])
    /\ Halts(a)
    /\ stuck' = stuck \cup {a}
    /\ UNCHANGED <<births, now, file, loaded, mem, queued, verified, recorded, plain>>

\* Handler.Stop cancels the deadline before it knows whether there is anything to stop.
Stop(a) ==
    /\ phase = "serve"
    /\ armed' = Set(armed, a, 0)
    /\ \/ EndsAs(a, "stopped") \/ StopFails(a)
       \/ /\ ~Running(a)
          /\ UNCHANGED <<osVars, file, loaded, mem, queued, verified, manager, history>>
    /\ UNCHANGED <<phase, todo>>

\* expireApp of an app that the record calls running: the stop succeeds; or it
\* fails; or the manager has stopped before, which is no failure.
Expires(a) == EndsAs(a, "expired")
CleanupFails(a) ==
    /\ Running(a)
    /\ KillFails(manager[a])
    /\ Halts(a)
    /\ RecordEnds(a, "failed")
    /\ UNCHANGED <<births, now, file, loaded, verified, recorded, spells>>
ExpiresUnmanaged(a) ==
    /\ ~Running(a)
    /\ RecordEnds(a, "expired")
    /\ stuck' = stuck \ {a}
    /\ UNCHANGED <<osVars, file, loaded, verified, manager, recorded, spared, plain>>

TtlFires(a) ==
    /\ phase = "serve"
    /\ armed[a] # 0 /\ armed[a] <= now
    /\ armed' = Set(armed, a, 0)
    /\ \/ Recorded(a) /\ (Expires(a) \/ CleanupFails(a) \/ ExpiresUnmanaged(a))
       \/ /\ ~Recorded(a)
          /\ UNCHANGED <<osVars, file, loaded, mem, queued, verified, manager, history>>
    /\ UNCHANGED <<phase, todo>>

\* waitProcess and monitor see the end of a process the server has started, and
\* of no other; monitor starts another, unless it cannot or has done so often enough.
ExitIsSeen(a) ==
    /\ Serving /\ Running(a)
    /\ manager[a].watched /\ ~Alive(manager[a].pid)
    /\ \/ /\ Halts(a)
          /\ \E end \in {"failed"} \cup (IF a \in AutoRestart THEN {} ELSE {"stopped"}) :
                RecordEnds(a, end)
          /\ UNCHANGED <<proc, births, stuck>>
       \/ a \in AutoRestart /\ \E p \in Pid : Started(a, p, mem[a].expires)
    /\ UNCHANGED <<now, file, booting, verified, armed, recorded, spared, plain>>

----------------------------------------------------------------------------
(* The end: Shutdown, or none *)

Shutdown ==
    /\ phase = "serve"
    /\ phase' = "stopping"
    /\ armed' = [a \in App |-> 0]
    /\ todo' = {a \in App : manager[a] # None}
    /\ UNCHANGED <<osVars, file, loaded, mem, queued, verified, manager, history>>

\* Fault: an app that was adopted is left to itself.
StopAllWatched(a) ==
    /\ phase = "stopping" /\ a \in todo
    /\ todo' = todo \ {a}
    /\ IF Running(a) /\ manager[a].watched THEN EndsAs(a, "stopped")
       ELSE UNCHANGED <<osVars, file, loaded, mem, queued, verified, manager, history>>
    /\ UNCHANGED <<phase, armed>>

\* The loop of StopAll, over the managers there were when it began, goes on
\* after a stop that fails.
StopAll(a) ==
    /\ phase = "stopping" /\ a \in todo
    /\ todo' = todo \ {a}
    /\ IF Running(a) THEN EndsAs(a, "stopped") \/ StopFails(a)
       ELSE UNCHANGED <<osVars, file, loaded, mem, queued, verified, manager, history>>
    /\ UNCHANGED <<phase, armed>>

Ended ==
    /\ loaded' = NoFile /\ mem' = NoFile /\ queued' = FALSE /\ todo' = {} /\ verified' = {}
    /\ manager' = [a \in App |-> None]
    /\ armed' = [a \in App |-> 0]
    /\ UNCHANGED <<osVars, spared, spells>>

\* ManualPersist and Close.
ShutDown ==
    /\ phase = "stopping" /\ todo = {}
    /\ Persisted(mem)
    /\ phase' = "off"
    /\ Ended

\* The processes go on without the server.
Crash ==
    /\ ~Down
    /\ phase' = "crashed"
    /\ Ended
    /\ UNCHANGED <<file, recorded>>

----------------------------------------------------------------------------

Boot ==
    \/ Load \/ ReplaceState \/ CleanedUp \/ Serve
    \/ \E a \in App :
        \/ RestoreTerminal(a) \/ RestoreDead(a) \/ RestoreReused(a) \/ RestoreVerified(a)
        \/ RestoreUnverified(a)
        \/ Cleanup(a)
        \/ ReviveKeeps(a) \/ ReviveExpires(a) \/ ReviveStarts(a) \/ ReviveFails(a)

Next ==
    \/ ProcessExits \/ PidIsReused \/ HostRestarts \/ TimePasses
    \/ Boot \/ Batch
    \/ \E a \in App : Apply(a) \/ Start(a) \/ Stop(a) \/ TtlFires(a) \/ ExitIsSeen(a) \/ StopAll(a)
    \/ Shutdown \/ ShutDown \/ Crash

Spec == Init /\ [][Next]_vars

----------------------------------------------------------------------------
(* Properties *)

Ours == {p \in Pid : proc[p] # None /\ proc[p].app # Stranger}

\* A process is killed only if it is the app's own: an adopted PID that another
\* process has by now, or may have, comes without the authority to kill
\* ("绝不接管", "stop 不执行 kill").
AuthorityIsEarned ==
    \A a \in App : Running(a) /\ manager[a].authority /\ Alive(manager[a].pid) =>
        proc[manager[a].pid].app = a

\* Once the server serves again, each of our processes the file ever had is the
\* one its app's manager runs: none is left behind by a crash at any step of
\* running, booting or shutting down, unless a stop was not allowed to kill it or
\* failed to.
NoProcessIsLeftBehind ==
    phase = "serve" => \A p \in Ours : proc[p].birth \in recorded \ spared =>
        Running(proc[p].app) /\ manager[proc[p].app].pid = p

\* After a shutdown none of the processes the server knew is alive, but those a
\* stop was not allowed to kill or failed to; and the file says that nothing runs,
\* but for the apps whose last stop has failed.
ShutdownStopsAll ==
    phase = "off" =>
        /\ \A p \in Ours : proc[p].birth \in recorded => proc[p].birth \in spared
        /\ \A a \in Apps(file) : file[a].status = "running" => a \in stuck

\* An app that a manager runs keeps the deadline of its record across restarts of
\* the server ("按持久化的绝对 expires_at 重建调度").  It has none if a boot restarted it
\* after the deadline, or if it was started by Start or Deploy, which leave the
\* record's as it is and arm nothing; it never has another.
LeaseIsKept ==
    phase = "serve" => \A a \in App : Running(a) /\ mem[a].expires # 0 =>
        \/ armed[a] = mem[a].expires
        \/ armed[a] = 0 /\ (a \in plain \/ (a \in AutoRestart /\ OutOfTime(mem[a])))

\* The same without the exception of a boot that comes too late.
NobodyOutlivesItsLease ==
    phase = "serve" => \A a \in App \ plain :
        Running(a) /\ mem[a].expires # 0 => armed[a] = mem[a].expires

\* The types; and a boot starts no app whose record is final: only a request does
\* ("expired/failed 是终态，恢复流程不允许复活").
FinalIsFinal ==
    /\ TypeOK
    /\ phase = "revive" =>
        \A a \in Apps(file) : file[a].status \in {"expired", "failed"} => ~Running(a)
=============================================================================
