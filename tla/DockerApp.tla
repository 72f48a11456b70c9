---------------------------- MODULE DockerApp ----------------------------
(***************************************************************************)
(* An App in a Docker sandbox: Apply, Stop and RemoveApp, the TTL callback *)
(* and suspension for idleness, against a Docker daemon any command to     *)
(* which may fail, and the end and the boot of the server.                 *)
(*                                                                         *)
(* A command to Docker, a section under a mutex and a file operation are a *)
(* step each; the handlers hold no lock across them.  The scheduler and    *)
(* the tracker are what Deadlines promises, without a clock.  Ports,       *)
(* volumes, secrets and quotas are arguments of docker create and left out. *)
(* No token leads to a Docker app, so no request touches or resumes it.    *)
(***************************************************************************)
EXTENDS Integers, FiniteSets

CONSTANTS
    Admin,         \* threads that apply, stop and remove
    Idler, Expirer,  \* the goroutines of the tracker and of the scheduler
    Document,      \* configurations
    Leased, Idle,  \* those with a TTL and with an idle timeout
    None,
    Container,     \* containers
    MaxGen,        \* bound of the model: no apply of a later generation
    Overlap,       \* sets of threads that may get in each other's way, one of which a behaviour has
    CrashAnywhere  \* the server may end in the middle of a handler

Thread == Admin \cup {Idler, Expirer}

Gen == 0..MaxGen
AppRecord == [container : Container, gen : Gen]
IdleApp == [gen : Gen, suspended : BOOLEAN]

ASSUME ConstantsAssumption ==
    /\ Leased \cup Idle \subseteq Document
    /\ None \notin Document \cup Container \cup AppRecord \cup IdleApp
    /\ Idler # Expirer /\ {Idler, Expirer} \cap Admin = {}
    /\ MaxGen \in Nat
    /\ Overlap \subseteq SUBSET Thread
    /\ CrashAnywhere \in BOOLEAN

VARIABLES
    overlap,    \* the choice among Overlap
    up,         \* whether the server runs
    record,     \* the app's record in SyncManager.state
    dockerApp,  \* Handler.dockerApps[app]
    idleApp,    \* Handler.idleApps[app]
    ttlArmed, idleArmed,  \* the generation the scheduler and the tracker have, or 0
    docker,     \* what the daemon says of each container
    label,      \* its label: the generation it was made for
    appDir, backup,  \* what is in <app> and in <app>.previous
    pc, op,     \* where each thread is and what it does
    gen, doc, old, copy, held, failed,  \* the local variables of the threads
    orphaned    \* history: containers that Docker did not do as told, or that an
                \* apply found suspended

armVars == <<ttlArmed, idleArmed>>
daemon  == <<docker, label, orphaned>>
disk    == <<appDir, backup>>
local   == <<gen, doc, old, copy, held, failed>>
memory  == <<dockerApp, idleApp, armVars>>
vars == <<overlap, up, record, memory, daemon, disk, pc, op, local>>

Record == [status : {"none", "running", "stopped", "expired", "failed"}, gen : Gen,
           doc : Document \cup {None}, container : Container \cup {None}, suspended : BOOLEAN]
NoRecord == [status |-> "none", gen |-> 0, doc |-> None, container |-> None, suspended |-> FALSE]

PC == {"idle", "move", "create", "start", "drop", "rollback", "install", "armTtl", "armIdle",
       "remember", "record", "withdraw", "take", "remove", "files", "reads", "writes", "finish",
       "check", "lookup", "pause", "flag"}

LocalsOK ==
    /\ pc \in [Thread -> PC]
    /\ op \in [Thread -> {"none", "apply", "stop", "remove", "expire", "suspend"}]
    /\ gen \in [Thread -> Gen]
    /\ doc \in [Thread -> Document \cup {None}]
    /\ old \in [Thread -> Record] /\ copy \in [Thread -> Record]
    /\ held \in [Thread -> AppRecord \cup {None}]
    /\ failed \in [Thread -> BOOLEAN]
    \* a thread that works on a container has one
    /\ \A t \in Admin \cup {Expirer} :
        pc[t] \in {"start", "drop", "install", "armTtl", "armIdle", "remember", "record",
                  "remove", "files", "reads"} => held[t] # None

TypeOK ==
    /\ overlap \in Overlap
    /\ up \in BOOLEAN
    /\ record \in Record
    /\ dockerApp \in AppRecord \cup {None}
    /\ idleApp \in IdleApp \cup {None}
    /\ ttlArmed \in Gen /\ idleArmed \in Gen
    /\ docker \in [Container -> {"none", "created", "running", "paused", "exited"}]
    /\ label \in [Container -> Gen]
    /\ appDir \in Document \cup {None} /\ backup \in Document \cup {None}
    /\ LocalsOK
    /\ orphaned \subseteq Container

Init ==
    /\ overlap \in Overlap
    /\ up = TRUE
    /\ record = NoRecord
    /\ dockerApp = None /\ idleApp = None
    /\ ttlArmed = 0 /\ idleArmed = 0
    /\ docker = [c \in Container |-> "none"]
    /\ label = [c \in Container |-> 0]
    /\ appDir = None /\ backup = None
    /\ pc = [t \in Thread |-> "idle"]
    /\ op = [t \in Thread |-> "none"]
    /\ gen = [t \in Thread |-> 0]
    /\ doc = [t \in Thread |-> None]
    /\ old = [t \in Thread |-> NoRecord] /\ copy = [t \in Thread |-> NoRecord]
    /\ held = [t \in Thread |-> None]
    /\ failed = [t \in Thread |-> FALSE]
    /\ orphaned = {}

----------------------------------------------------------------------------
(* Threads and the daemon *)

Busy == {t \in Thread : pc[t] # "idle"}

\* Nothing in the code keeps two threads apart.  In a behaviour of the model
\* those of overlap do overlap and the others do not.
MayBegin(t) ==
    /\ up
    /\ pc[t] = "idle"
    /\ Busy \subseteq overlap
    /\ t \in overlap \/ Busy = {}

Goto(t, step) == pc' = [pc EXCEPT ![t] = step] /\ UNCHANGED op

Leave(t) ==
    /\ pc' = [pc EXCEPT ![t] = "idle"]
    /\ op' = [op EXCEPT ![t] = "none"]
    /\ gen' = [gen EXCEPT ![t] = 0]
    /\ doc' = [doc EXCEPT ![t] = None]
    /\ old' = [old EXCEPT ![t] = NoRecord]
    /\ copy' = [copy EXCEPT ![t] = NoRecord]
    /\ held' = [held EXCEPT ![t] = None]
    /\ failed' = [failed EXCEPT ![t] = FALSE]

Begin(t, what, step) ==
    /\ MayBegin(t)
    /\ pc' = [pc EXCEPT ![t] = step]
    /\ op' = [op EXCEPT ![t] = what]

GoOn(t, step) == Goto(t, step) /\ UNCHANGED local

Known ==
    {record.container} \cup {copy[t].container : t \in Thread} \cup {old[t].container : t \in Thread}
    \cup {h.container : h \in ({dockerApp} \cup {held[t] : t \in Thread}) \ {None}}
Unused == {c \in Container : docker[c] = "none" /\ c \notin Known \cup orphaned}
NewContainer == CHOOSE c \in Unused : TRUE

Becomes(c, status) ==
    /\ docker' = [docker EXCEPT ![c] = status]
    /\ UNCHANGED label

\* inspect, stop or kill, rm.  It fails for a container that is not there, and
\* it may fail before or after the container has stopped.
Removed(c) ==
    /\ docker[c] # "none"
    /\ Becomes(c, "none")
    /\ UNCHANGED orphaned
NotRemoved(c) ==
    \/ docker[c] = "none" /\ UNCHANGED daemon
    \/ /\ docker[c] # "none"
       /\ \E status \in {docker[c], "exited"} : Becomes(c, status)
       /\ orphaned' = orphaned \cup {c}

----------------------------------------------------------------------------
(* applyDocker *)

\* What is unpacked and valid is not modelled further; applying a document that
\* runs, or another while one runs, changes nothing and has no action.
Apply(t) ==
    /\ t \in Admin
    /\ record.status # "running"
    /\ record.gen < MaxGen
    /\ Begin(t, "apply", "move")
    /\ \E d \in Document : doc' = [doc EXCEPT ![t] = d]
    /\ old' = [old EXCEPT ![t] = record]
    /\ gen' = [gen EXCEPT ![t] = record.gen + 1]
    /\ UNCHANGED <<overlap, up, record, memory, daemon, disk, copy, held, failed>>

\* The artifact of the last apply becomes the backup.  The container of a
\* suspended app is nobody's from here on.
ApplyMoves(t) ==
    /\ pc[t] = "move"
    /\ backup' = appDir
    /\ appDir' = doc[t]
    /\ orphaned' = orphaned \cup ({old[t].container} \ {None})
    /\ GoOn(t, "create")
    /\ UNCHANGED <<overlap, up, record, memory, docker, label>>

\* Everything up to docker create; the request that asked for it may be
\* cancelled after the daemon has made the container.
Creates(t) ==
    /\ pc[t] = "create"
    /\ Unused # {}
    /\ docker' = [docker EXCEPT ![NewContainer] = "created"]
    /\ label' = [label EXCEPT ![NewContainer] = gen[t]]
    /\ held' = [held EXCEPT ![t] = [container |-> NewContainer, gen |-> gen[t]]]
    /\ Goto(t, "start")
    /\ UNCHANGED <<overlap, up, record, memory, orphaned, disk, gen, doc, old, copy, failed>>

CreateFails(t) ==
    /\ pc[t] = "create"
    /\ \/ UNCHANGED daemon
       \/ /\ Unused # {}
          /\ docker' = [docker EXCEPT ![NewContainer] = "created"]
          /\ label' = [label EXCEPT ![NewContainer] = gen[t]]
          /\ orphaned' = orphaned \cup {NewContainer}
    /\ GoOn(t, "rollback")
    /\ UNCHANGED <<overlap, up, record, memory, disk>>

Starts(t) ==
    /\ pc[t] = "start"
    /\ Becomes(held[t].container, "running")
    /\ GoOn(t, "install")
    /\ UNCHANGED <<overlap, up, record, memory, orphaned, disk>>

\* docker start fails, or docker port after it.
StartFails(t) ==
    /\ pc[t] = "start"
    /\ \E status \in {"created", "running"} : Becomes(held[t].container, status)
    /\ GoOn(t, "drop")
    /\ UNCHANGED <<overlap, up, record, memory, orphaned, disk>>

\* Fault: a container that did not start is left where it is.
DropNothing(t) ==
    /\ pc[t] = "drop"
    /\ GoOn(t, "rollback")
    /\ UNCHANGED <<overlap, up, record, memory, daemon, disk>>

\* docker rm -f, under the context of the request like all the others; whether
\* it failed nobody asks.
Drops(t) ==
    /\ pc[t] = "drop"
    /\ \/ Becomes(held[t].container, "none") /\ UNCHANGED orphaned
       \/ UNCHANGED <<docker, label>> /\ orphaned' = orphaned \cup {held[t].container}
    /\ GoOn(t, "rollback")
    /\ UNCHANGED <<overlap, up, record, memory, disk>>

\* Fault: the previous artifact is not put back.
RollsForward(t) ==
    /\ pc[t] = "rollback"
    /\ appDir' = None
    /\ Leave(t)
    /\ UNCHANGED <<overlap, up, record, memory, daemon, backup>>

RollsBack(t) ==
    /\ pc[t] = "rollback"
    /\ appDir' = backup
    /\ backup' = None
    /\ Leave(t)
    /\ UNCHANGED <<overlap, up, record, memory, daemon>>

\* Whatever container dockerApps had is forgotten.
Installs(t) ==
    /\ pc[t] = "install"
    /\ backup' = None
    /\ dockerApp' = held[t]
    /\ GoOn(t, IF doc[t] \in Leased THEN "armTtl" ELSE IF doc[t] \in Idle THEN "armIdle" ELSE "remember")
    /\ UNCHANGED <<overlap, up, record, idleApp, armVars, daemon, appDir>>

\* Both deadlines are armed before the record has the generation.
ArmsTtl(t) ==
    /\ pc[t] = "armTtl"
    /\ ttlArmed' = gen[t]
    /\ GoOn(t, IF doc[t] \in Idle THEN "armIdle" ELSE "remember")
    /\ UNCHANGED <<overlap, up, record, dockerApp, idleApp, idleArmed, daemon, disk>>

ArmsIdle(t) ==
    /\ pc[t] = "armIdle"
    /\ idleArmed' = gen[t]
    /\ GoOn(t, "remember")
    /\ UNCHANGED <<overlap, up, record, dockerApp, idleApp, ttlArmed, daemon, disk>>

Remembers(t) ==
    /\ pc[t] = "remember"
    /\ idleApp' = [gen |-> gen[t], suspended |-> FALSE]
    /\ GoOn(t, "record")
    /\ UNCHANGED <<overlap, up, record, dockerApp, armVars, daemon, disk>>

Records(t) ==
    /\ pc[t] = "record"
    /\ record' = [status |-> "running", gen |-> gen[t], doc |-> doc[t],
                  container |-> held[t].container, suspended |-> FALSE]
    /\ Leave(t)
    /\ UNCHANGED <<overlap, up, memory, daemon, disk>>

----------------------------------------------------------------------------
(* stopDockerApp, for Stop, RemoveApp and the TTL callback *)

Stop(t) ==
    /\ t \in Admin
    /\ record # NoRecord
    /\ Begin(t, "stop", "withdraw")
    /\ UNCHANGED <<overlap, up, record, memory, daemon, disk, local>>

Remove(t) ==
    /\ t \in Admin
    /\ record # NoRecord
    /\ Begin(t, "remove", "withdraw")
    /\ UNCHANGED <<overlap, up, record, memory, daemon, disk, local>>

TtlFires ==
    /\ ttlArmed # 0
    /\ Begin(Expirer, "expire", "check")
    /\ ttlArmed' = 0
    /\ gen' = [gen EXCEPT ![Expirer] = ttlArmed]
    /\ UNCHANGED <<overlap, up, record, dockerApp, idleApp, idleArmed, daemon, disk, doc, old, copy, held, failed>>

\* Fault: the generation is not compared.
ExpireChecksStatus ==
    /\ pc[Expirer] = "check"
    /\ IF record.status = "running"
       THEN /\ Goto(Expirer, "withdraw")
            /\ old' = [old EXCEPT ![Expirer] = record]
            /\ UNCHANGED <<gen, doc, copy, held, failed>>
       ELSE Leave(Expirer)
    /\ UNCHANGED <<overlap, up, record, memory, daemon, disk>>

ExpireChecks ==
    /\ pc[Expirer] = "check"
    /\ IF record.gen = gen[Expirer] /\ record.status = "running"
       THEN /\ Goto(Expirer, "withdraw")
            /\ old' = [old EXCEPT ![Expirer] = record]
            /\ UNCHANGED <<gen, doc, copy, held, failed>>
       ELSE Leave(Expirer)
    /\ UNCHANGED <<overlap, up, record, memory, daemon, disk>>

Withdraws(t) ==
    /\ pc[t] = "withdraw"
    /\ ttlArmed' = 0 /\ idleArmed' = 0
    /\ idleApp' = None
    /\ GoOn(t, "take")
    /\ UNCHANGED <<overlap, up, record, dockerApp, daemon, disk>>

\* The container dockerApps has, or else the one of the record.
Takes(t) ==
    /\ pc[t] = "take"
    /\ dockerApp # None \/ record.container # None
    /\ dockerApp' = None
    /\ held' = [held EXCEPT ![t] = IF dockerApp # None THEN dockerApp
                    ELSE [container |-> record.container, gen |-> record.gen]]
    /\ Goto(t, "remove")
    /\ UNCHANGED <<overlap, up, record, idleApp, armVars, daemon, disk, gen, doc, old, copy, failed>>

\* Without a container Stop fails in the process runtime, a removal goes on
\* to the files and the record, and an expiry to the record.
NothingToTake(t) ==
    /\ pc[t] = "take"
    /\ dockerApp = None /\ record.container = None
    /\ IF op[t] = "stop" THEN Leave(t) ELSE GoOn(t, "finish")
    /\ appDir' = IF op[t] = "remove" THEN None ELSE appDir
    /\ UNCHANGED <<overlap, up, record, memory, daemon, backup>>

RemovesContainer(t) ==
    /\ pc[t] = "remove"
    /\ \/ Removed(held[t].container) /\ UNCHANGED failed
       \/ NotRemoved(held[t].container) /\ failed' = [failed EXCEPT ![t] = TRUE]
    /\ Goto(t, IF op[t] = "stop" THEN "reads" ELSE "files")
    /\ UNCHANGED <<overlap, up, record, memory, disk, gen, doc, old, copy, held>>

RemovesFiles(t) ==
    /\ pc[t] = "files"
    /\ appDir' = None
    /\ GoOn(t, "reads")
    /\ UNCHANGED <<overlap, up, record, memory, daemon, backup>>

\* Whether or not the container is gone the record lets go of it.
StopReads(t) ==
    /\ t # Idler /\ pc[t] = "reads"
    /\ IF record # NoRecord /\ record.gen = held[t].gen
       THEN /\ copy' = [copy EXCEPT ![t] = [record EXCEPT !.status = "stopped", !.container = None]]
            /\ Goto(t, "writes")
       ELSE Goto(t, "finish") /\ UNCHANGED copy
    /\ UNCHANGED <<overlap, up, record, memory, daemon, disk, gen, doc, old, held, failed>>

StopWrites(t) ==
    /\ t # Idler /\ pc[t] = "writes"
    /\ record' = copy[t]
    /\ GoOn(t, "finish")
    /\ UNCHANGED <<overlap, up, memory, daemon, disk>>

\* A removal that failed keeps the record; an expiry writes what it read first.
Finishes(t) ==
    /\ pc[t] = "finish"
    /\ record' = CASE op[t] = "stop"   -> record
                   [] op[t] = "remove" -> IF failed[t] THEN record ELSE NoRecord
                   [] op[t] = "expire" -> [old[t] EXCEPT
                        !.status = IF failed[t] THEN "failed" ELSE "expired", !.container = None]
    /\ Leave(t)
    /\ UNCHANGED <<overlap, up, memory, daemon, disk>>

----------------------------------------------------------------------------
(* suspendIdleApp *)

IdleFires ==
    /\ idleArmed # 0
    /\ Begin(Idler, "suspend", "lookup")
    /\ idleArmed' = 0
    /\ gen' = [gen EXCEPT ![Idler] = idleArmed]
    /\ UNCHANGED <<overlap, up, record, dockerApp, idleApp, ttlArmed, daemon, disk, doc, old, copy, held, failed>>

SuspendLooksUp ==
    /\ pc[Idler] = "lookup"
    /\ IF idleApp # None /\ idleApp.gen = gen[Idler] THEN GoOn(Idler, "check") ELSE Leave(Idler)
    /\ UNCHANGED <<overlap, up, record, memory, daemon, disk>>

SuspendChecks ==
    /\ pc[Idler] = "check"
    /\ IF record.gen = gen[Idler] /\ record.status = "running"
       THEN GoOn(Idler, "pause") ELSE Leave(Idler)
    /\ UNCHANGED <<overlap, up, record, memory, daemon, disk>>

\* A failure is logged and the app is suspended all the same.
SuspendPauses ==
    /\ pc[Idler] = "pause"
    /\ LET c == record.container IN
        \/ /\ c # None /\ docker[c] = "running"
           /\ Becomes(c, "paused") /\ UNCHANGED orphaned
        \/ orphaned' = orphaned \cup ({c} \ {None}) /\ UNCHANGED <<docker, label>>
    /\ GoOn(Idler, "reads")
    /\ UNCHANGED <<overlap, up, record, memory, disk>>

SuspendReads ==
    /\ pc[Idler] = "reads"
    /\ IF record = NoRecord THEN Goto(Idler, "flag") /\ UNCHANGED copy
       ELSE /\ copy' = [copy EXCEPT ![Idler] = [record EXCEPT !.status = "stopped", !.suspended = TRUE]]
            /\ Goto(Idler, "writes")
    /\ UNCHANGED <<overlap, up, record, memory, daemon, disk, gen, doc, old, held, failed>>

SuspendWrites ==
    /\ pc[Idler] = "writes"
    /\ record' = copy[Idler]
    /\ GoOn(Idler, "flag")
    /\ UNCHANGED <<overlap, up, memory, daemon, disk>>

SuspendFlags ==
    /\ pc[Idler] = "flag"
    /\ idleApp' = IF idleApp # None /\ idleApp.gen = gen[Idler]
                  THEN [idleApp EXCEPT !.suspended = TRUE] ELSE idleApp
    /\ Leave(Idler)
    /\ UNCHANGED <<overlap, up, record, dockerApp, armVars, daemon, disk>>

----------------------------------------------------------------------------
(* The daemon by itself, the end of the server, and its boot *)

\* A command ends, and nobody watches it.
ContainerExits ==
    /\ \E c \in Container : docker[c] = "running" /\ Becomes(c, "exited")
    /\ UNCHANGED <<overlap, up, record, memory, orphaned, disk, pc, op, local>>

Ends ==
    /\ up
    /\ CrashAnywhere \/ Busy = {}
    /\ record # NoRecord
    /\ up' = FALSE
    /\ dockerApp' = None /\ idleApp' = None /\ ttlArmed' = 0 /\ idleArmed' = 0
    /\ pc' = [t \in Thread |-> "idle"] /\ op' = [t \in Thread |-> "none"]
    /\ gen' = [t \in Thread |-> 0] /\ doc' = [t \in Thread |-> None]
    /\ old' = [t \in Thread |-> NoRecord] /\ copy' = [t \in Thread |-> NoRecord]
    /\ held' = [t \in Thread |-> None] /\ failed' = [t \in Thread |-> FALSE]
    /\ UNCHANGED <<overlap, record, backup>>

Crash == Ends /\ UNCHANGED <<daemon, appDir>>

\* Shutdown removes the containers of dockerApps and their files; the record
\* goes on saying what it said.
Shutdown ==
    /\ Ends
    /\ IF dockerApp = None THEN UNCHANGED <<daemon, appDir>>
       ELSE /\ appDir' = None
            /\ Removed(dockerApp.container) \/ NotRemoved(dockerApp.container)

Restorable == ~up /\ record.status = "running" /\ record.container # None

\* Fault: the rest of the TTL is forgotten.
BootForgets ==
    /\ Restorable
    /\ \/ docker[record.container] = "running"
       \/ docker[record.container] = "exited" /\ appDir # None
    /\ up' = TRUE
    /\ Becomes(record.container, "running")
    /\ dockerApp' = [container |-> record.container, gen |-> record.gen]
    /\ idleApp' = [gen |-> record.gen, suspended |-> FALSE]
    /\ idleArmed' = IF record.doc \in Idle THEN record.gen ELSE 0
    /\ UNCHANGED <<overlap, record, ttlArmed, orphaned, disk, pc, op, local>>

\* docker start has no effect on what runs and refuses what is paused or has
\* lost the directory it mounts.
BootStarts ==
    /\ Restorable
    /\ \/ docker[record.container] = "running"
       \/ docker[record.container] = "exited" /\ appDir # None
    /\ up' = TRUE
    /\ Becomes(record.container, "running")
    /\ dockerApp' = [container |-> record.container, gen |-> record.gen]
    /\ idleApp' = [gen |-> record.gen, suspended |-> FALSE]
    /\ idleArmed' = IF record.doc \in Idle THEN record.gen ELSE 0
    /\ ttlArmed' = IF record.doc \in Leased THEN record.gen ELSE 0
    /\ UNCHANGED <<overlap, record, orphaned, disk, pc, op, local>>

\* The container is given up.
BootFails ==
    /\ Restorable
    /\ up' = TRUE
    /\ orphaned' = orphaned \cup {record.container}
    /\ record' = [record EXCEPT !.status = "failed", !.container = None]
    /\ UNCHANGED <<overlap, memory, docker, label, disk, pc, op, local>>

\* Its time ran out while the server was down; what becomes of the removal
\* nobody asks.
BootExpires ==
    /\ Restorable
    /\ record.doc \in Leased
    /\ up' = TRUE
    /\ Removed(record.container) \/ NotRemoved(record.container)
    /\ appDir' = None
    /\ record' = [record EXCEPT !.status = "expired", !.container = None]
    /\ UNCHANGED <<overlap, memory, backup, pc, op, local>>

BootSkips ==
    /\ ~up /\ ~Restorable
    /\ up' = TRUE
    /\ UNCHANGED <<overlap, record, memory, daemon, disk, pc, op, local>>

----------------------------------------------------------------------------

ApplyStep(t) ==
    \/ Apply(t) \/ ApplyMoves(t) \/ Creates(t) \/ CreateFails(t) \/ Starts(t) \/ StartFails(t)
    \/ Drops(t) \/ RollsBack(t) \/ Installs(t) \/ ArmsTtl(t) \/ ArmsIdle(t) \/ Remembers(t)
    \/ Records(t)

StopStep(t) ==
    \/ Withdraws(t) \/ Takes(t) \/ NothingToTake(t) \/ RemovesContainer(t) \/ RemovesFiles(t)
    \/ StopReads(t) \/ StopWrites(t) \/ Finishes(t)

SuspendStep ==
    \/ IdleFires \/ SuspendLooksUp \/ SuspendChecks \/ SuspendPauses \/ SuspendReads
    \/ SuspendWrites \/ SuspendFlags

Next ==
    \/ \E t \in Admin : ApplyStep(t) \/ Stop(t) \/ Remove(t)
    \/ \E t \in Thread \ {Idler} : StopStep(t)
    \/ TtlFires \/ ExpireChecks
    \/ SuspendStep
    \/ ContainerExits \/ Crash \/ Shutdown
    \/ BootStarts \/ BootFails \/ BootExpires \/ BootSkips

Spec == Init /\ [][Next]_vars

----------------------------------------------------------------------------
(* Properties *)

AtRest == up /\ Busy = {}
InHand == {h.container : h \in {held[t] : t \in Thread} \ {None}}
Existing == {c \in Container : docker[c] # "none"}

EveryContainerIsKnown ==
    Existing \subseteq InHand \cup orphaned \cup {record.container}
        \cup (IF dockerApp = None THEN {} ELSE {dockerApp.container})

\* A container that exists is in dockerApps, in the record or in the hands of a
\* call, however calls and callbacks follow each other and wherever one of them
\* fails, except where Docker refused a command and where an apply replaced a
\* suspended app.
NoStrayContainer == overlap \cap Admin = {} => EveryContainerIsKnown

\* The types; and at rest dockerApps and the record name the same container and generation,
\* and the artifact in its place is the one the container was made for: an
\* apply that fails at any step puts the previous one back, unless Docker refused
\* to remove the container.
AgreesOnWhatRuns ==
    /\ TypeOK
    /\ overlap = {} /\ AtRest =>
        /\ record.status = "running" =>
            dockerApp = [container |-> record.container, gen |-> record.gen]
        /\ dockerApp # None =>
            /\ dockerApp.container = record.container /\ dockerApp.gen = record.gen
            /\ appDir = record.doc \/ record.container \in orphaned
            /\ record.status = "running" \/ record.suspended
        /\ backup = None

\* At rest an app runs with the deadline of its own generation if its document
\* has a TTL, and without it otherwise, whatever deadline an earlier document,
\* a suspension or the last run of the server has left.
LeaseIsKept ==
    overlap = {} /\ AtRest /\ record.status = "running" =>
        (ttlArmed = record.gen <=> record.doc \in Leased)

\* The TTL callback removes only a container of its own generation ("TTL
\* callback 校验 generation").
CallbackEndsItsOwn ==
    [][overlap \cap Admin = {} /\ pc[Expirer] = "take" /\ pc'[Expirer] = "remove" =>
        label[held'[Expirer].container] = gen[Expirer]]_vars
=============================================================================
