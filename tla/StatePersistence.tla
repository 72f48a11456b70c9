------------------------- MODULE StatePersistence -------------------------
(***************************************************************************)
(* How the server's state reaches the disk and comes back: SyncManager     *)
(* (the memory copy, the bounded event channel, the batching loop and its  *)
(* last save on Close), StateStore.Persist (store mutex, .lock file,       *)
(* backup, temporary file and rename), Load with its repair from a backup, *)
(* and the boot and shutdown sequences around them.  The server may crash  *)
(* between any two steps, and the file may be damaged from outside.        *)
(*                                                                         *)
(* A state is a version number: an event makes a new one.  The temporary   *)
(* file is left out: only its rename shows.                                *)
(***************************************************************************)
EXTENDS Integers, FiniteSets, FiniteSetsExt

CONSTANTS
    Saver,       \* request threads and timers that call ManualPersist
    Loop,        \* SyncManager.syncLoop
    MainThread,  \* main: RestoreState and Shutdown
    Nobody,      \* no thread
    ChanCap,     \* capacity of persistChan (100 in the code)
    SlowReplay,  \* whether replaying the loaded apps may outlast the batch delay
    IOMayFail,   \* whether a write or the removal of the .lock file may fail
    Damage,      \* kinds of damage from outside: subset of {"altered", "garbled"}
    MaxVersion, MaxSec, MaxCrashes, MaxDamages  \* bounds of the model

Thread == Saver \cup {Loop, MainThread}

ASSUME ConstantsAssumption ==
    /\ Nobody \notin Thread
    /\ Loop # MainThread /\ Loop \notin Saver /\ MainThread \notin Saver
    /\ ChanCap \in Nat \ {0}
    /\ {SlowReplay, IOMayFail} \subseteq BOOLEAN
    /\ Damage \subseteq {"altered", "garbled"}
    /\ {MaxVersion, MaxSec, MaxCrashes, MaxDamages} \subseteq Nat

VARIABLES
    server,   \* the phase of the server process
    mem,      \* SyncManager.state
    issued,   \* the latest version there has been
    loaded,   \* the version Load returned, until ReplaceState
    queue,    \* events in persistChan
    timer,    \* the batch timer runs
    mu,       \* StateStore.mu: the thread inside Persist
    pc, copy, \* where each thread is in a save, and what it saves
    lockFile, \* the .lock file exists
    main,     \* the state file
    backup,   \* the backup files, by the second in their name
    sec,      \* the wall clock, in seconds
    crashes, damages,  \* how often each has happened
    interrupted,       \* a server ended inside Persist, or could not remove the .lock file
    previous, newest,  \* the version the last save replaced; the newest ever saved
    atClose            \* the version in memory when Close was called

memVars  == <<mem, issued, loaded, queue, timer>>
diskVars == <<main, backup, lockFile>>
envVars  == <<sec, crashes, damages, interrupted, previous, newest, atClose>>
vars == <<server, memVars, mu, pc, copy, diskVars, envVars>>

\* A file: absent; whole; torn by a write of ours that did not finish; altered
\* (it parses, the checksum does not match); garbled (it does not parse).
Form   == {"absent", "whole", "torn", "altered", "garbled"}
Absent == [ver |-> 0, form |-> "absent"]

\* Phases in which the process serves or finishes serving.
Serving == {"restored", "saving", "up", "flushing", "closing", "draining"}
Phase   == Serving \cup {"down", "repairing", "replaying", "exited"}

TypeOK ==
    /\ server \in Phase
    /\ {mem, issued, loaded} \subseteq 0..MaxVersion
    /\ queue \in 0..ChanCap
    /\ timer \in BOOLEAN
    /\ mu \in Thread \cup {Nobody}
    /\ pc \in [Thread -> {"idle", "copied", "locked", "truncated", "backedUp", "written"}]
    /\ copy \in [Thread -> 0..MaxVersion]
    /\ lockFile \in BOOLEAN
    /\ main \in [ver : 0..MaxVersion, form : Form]
    /\ backup \in [0..MaxSec -> [ver : 0..MaxVersion, form : Form]]
    /\ sec \in 0..MaxSec
    /\ crashes \in 0..MaxCrashes /\ damages \in 0..MaxDamages
    /\ interrupted \in BOOLEAN
    /\ {previous, newest, atClose} \subseteq 0..MaxVersion

Init ==
    /\ server = "down"
    /\ mem = 0 /\ issued = 0 /\ loaded = 0
    /\ queue = 0 /\ timer = FALSE
    /\ mu = Nobody
    /\ pc = [t \in Thread |-> "idle"]
    /\ copy = [t \in Thread |-> 0]
    /\ lockFile = FALSE
    /\ main = Absent
    /\ backup = [s \in 0..MaxSec |-> Absent]
    /\ sec = 0
    /\ crashes = 0 /\ damages = 0
    /\ interrupted = FALSE
    /\ previous = 0 /\ newest = 0 /\ atClose = 0

----------------------------------------------------------------------------
(* Memory and the event channel *)

Send(q) == IF q < ChanCap THEN q + 1 ELSE q

\* OnAppEvent: memory first, then the channel, or nowhere when it is full.
\* One step: sending later could only add a save.  Before the server is up,
\* only the apps that were loaded can have events.
AppEvent ==
    /\ server \in Serving
    /\ server \in {"restored", "saving"} => mem # 0
    /\ issued < MaxVersion
    /\ issued' = issued + 1
    /\ mem' = issued + 1
    /\ queue' = Send(queue)
    /\ UNCHANGED <<server, loaded, timer, mu, pc, copy, diskVars, envVars>>

----------------------------------------------------------------------------
(* StateStore.Persist *)

\* The deep copy is made under SyncManager.mu, before the store's mutex.
CopyState(t) ==
    /\ pc[t] = "idle"
    /\ copy' = [copy EXCEPT ![t] = mem]
    /\ pc' = [pc EXCEPT ![t] = "copied"]

\* TryLock in place of Lock: a second saver gives up.
AcquireLockOrLeave(t) ==
    /\ pc[t] = "copied"
    /\ \/ /\ mu # Nobody \/ lockFile
          /\ pc' = [pc EXCEPT ![t] = "idle"]
          /\ UNCHANGED <<mu, lockFile>>
       \/ /\ mu = Nobody /\ ~lockFile
          /\ lockFile' = TRUE
          /\ mu' = t
          /\ pc' = [pc EXCEPT ![t] = "locked"]
    /\ UNCHANGED <<server, memVars, copy, main, backup, envVars>>

\* An existing lock file makes Persist fail at once.
AcquireLock(t) ==
    /\ pc[t] = "copied"
    /\ mu = Nobody
    /\ \/ /\ lockFile
          /\ pc' = [pc EXCEPT ![t] = "idle"]
          /\ UNCHANGED <<mu, lockFile>>
       \/ /\ ~lockFile
          /\ lockFile' = TRUE
          /\ mu' = t
          /\ pc' = [pc EXCEPT ![t] = "locked"]
    /\ UNCHANGED <<server, memVars, copy, main, backup, envVars>>

\* A backup of the same second is left as it is.
TruncateBackupOnce(t) ==
    /\ pc[t] = "locked"
    /\ IF main.form = "absent" \/ backup[sec].form # "absent"
       THEN pc' = [pc EXCEPT ![t] = "backedUp"] /\ UNCHANGED backup
       ELSE /\ pc' = [pc EXCEPT ![t] = "truncated"]
            /\ backup' = [backup EXCEPT ![sec] = [main EXCEPT !.form = "torn"]]
    /\ UNCHANGED <<server, memVars, mu, copy, main, lockFile, envVars>>

\* backupLocked truncates a file named after the second, then fills it.
TruncateBackup(t) ==
    /\ pc[t] = "locked"
    /\ \/ /\ main.form = "absent"
          /\ pc' = [pc EXCEPT ![t] = "backedUp"]
          /\ UNCHANGED backup
       \/ /\ main.form # "absent"
          /\ pc' = [pc EXCEPT ![t] = "truncated"]
          /\ backup' = [backup EXCEPT ![sec] = [main EXCEPT !.form = "torn"]]
    /\ UNCHANGED <<server, memVars, mu, copy, main, lockFile, envVars>>

WriteBackup(t) ==
    /\ pc[t] = "truncated"
    /\ pc' = [pc EXCEPT ![t] = "backedUp"]
    /\ backup' = [backup EXCEPT ![sec] = main]
    /\ UNCHANGED <<server, memVars, mu, copy, main, lockFile, envVars>>

\* The file is truncated and rewritten in place.
RewriteFile(t) ==
    /\ pc[t] = "backedUp"
    /\ IF main.form = "torn"
       THEN /\ pc' = [pc EXCEPT ![t] = "written"]
            /\ main' = [ver |-> copy[t], form |-> "whole"]
       ELSE /\ main' = [main EXCEPT !.form = "torn"]
            /\ UNCHANGED pc
    /\ UNCHANGED <<server, memVars, mu, copy, backup, lockFile, envVars>>

\* AtomicWriteFile: the temporary file is complete when it is renamed.
RenameFile(t) ==
    /\ pc[t] = "backedUp"
    /\ pc' = [pc EXCEPT ![t] = "written"]
    /\ main' = [ver |-> copy[t], form |-> "whole"]
    /\ previous' = main.ver
    /\ newest' = Max({newest, copy[t]})
    /\ UNCHANGED <<server, memVars, mu, copy, backup, lockFile, sec, crashes, damages,
                   interrupted, atClose>>

\* A failing save returns without the deferred releaseLock.
SaveFailsUnreleased(t) ==
    /\ IOMayFail
    /\ pc[t] \in {"locked", "truncated", "backedUp"}
    /\ pc' = [pc EXCEPT ![t] = "idle"]
    /\ mu' = Nobody
    /\ UNCHANGED <<server, memVars, copy, diskVars, envVars>>

SaveFails(t) ==
    /\ IOMayFail
    /\ pc[t] \in {"locked", "truncated", "backedUp"}
    /\ pc' = [pc EXCEPT ![t] = "written"]
    /\ UNCHANGED <<server, memVars, mu, copy, diskVars, envVars>>

\* The deferred releaseLock and Unlock, on success and on failure.  That the lock
\* file could not be removed is only logged.
ReleaseLock(t) ==
    /\ pc[t] = "written"
    /\ pc' = [pc EXCEPT ![t] = "idle"]
    /\ mu' = Nobody
    /\ \/ lockFile' = FALSE /\ UNCHANGED interrupted
       \/ IOMayFail /\ interrupted' = TRUE /\ UNCHANGED lockFile
    /\ UNCHANGED <<server, memVars, copy, main, backup, sec, crashes, damages, previous,
                   newest, atClose>>

Persist(t) ==
    \/ AcquireLock(t) \/ TruncateBackup(t) \/ WriteBackup(t)
    \/ RenameFile(t) \/ SaveFails(t) \/ ReleaseLock(t)

ManualPersist(t) ==
    /\ server \in Serving
    /\ server \in {"restored", "saving"} => mem # 0
    /\ CopyState(t)
    /\ UNCHANGED <<server, memVars, mu, diskVars, envVars>>

----------------------------------------------------------------------------
(* SyncManager.syncLoop *)

\* The timer that fired is not forgotten, so it is never started again.
LoopReceivesOnce ==
    /\ server \in {"replaying", "restored", "saving", "up", "flushing", "closing"}
    /\ pc[Loop] = "idle"
    /\ queue > 0
    /\ queue' = queue - 1
    /\ timer' = (timer \/ copy[Loop] = 0)
    /\ UNCHANGED <<server, mem, issued, loaded, mu, pc, copy, diskVars, envVars>>

LoopReceives ==
    /\ server \in {"replaying", "restored", "saving", "up", "flushing", "closing"}
    /\ pc[Loop] = "idle"
    /\ queue > 0
    /\ queue' = queue - 1
    /\ timer' = TRUE
    /\ UNCHANGED <<server, mem, issued, loaded, mu, pc, copy, diskVars, envVars>>

LoopSaves ==
    /\ server \in {"replaying", "restored", "saving", "up", "flushing", "closing"}
    /\ server = "replaying" => SlowReplay
    /\ timer
    /\ timer' = FALSE
    /\ CopyState(Loop)
    /\ UNCHANGED <<server, mem, issued, loaded, queue, mu, diskVars, envVars>>

----------------------------------------------------------------------------
(* Boot: StateStore.Load, RestoreManager.Restore, Handler.RestoreState *)

LatestBackup ==
    LET named == {s \in 0..MaxSec : backup[s].form # "absent"}
    IN IF named = {} THEN Absent ELSE backup[Max(named)]

\* No state file: the first start.
BootFresh ==
    /\ server \in {"down", "exited"}
    /\ main.form = "absent"
    /\ server' = "restored"
    /\ mem' = 0
    /\ loaded' = 0
    /\ UNCHANGED <<issued, queue, timer, mu, pc, copy, diskVars, envVars>>

\* The file parses and its checksum matches: the apps are replayed as events
\* into an empty memory.
BootLoads ==
    /\ server \in {"down", "exited"}
    /\ main.form = "whole"
    /\ server' = "replaying"
    /\ mem' = 0
    /\ loaded' = main.ver
    /\ queue' = IF main.ver = 0 THEN 0 ELSE 1
    /\ UNCHANGED <<issued, timer, mu, pc, copy, diskVars, envVars>>

\* The checksum does not match: the latest backup is copied over the file,
\* truncating it first.
BootRepairs ==
    /\ server \in {"down", "exited"}
    /\ main.form = "altered"
    /\ LatestBackup.form = "whole"
    /\ server' = "repairing"
    /\ main' = [main EXCEPT !.form = "torn"]
    /\ mem' = 0
    /\ UNCHANGED <<issued, loaded, queue, timer, mu, pc, copy, backup, lockFile, envVars>>

RepairFile ==
    /\ server = "repairing"
    /\ server' = "replaying"
    /\ main' = LatestBackup
    /\ loaded' = LatestBackup.ver
    /\ queue' = IF LatestBackup.ver = 0 THEN 0 ELSE 1
    /\ UNCHANGED <<mem, issued, timer, mu, pc, copy, backup, lockFile, envVars>>

\* Load fails: main logs it and serves with an empty memory.
BootFails ==
    /\ server \in {"down", "exited"}
    /\ \/ main.form \in {"torn", "garbled"}
       \/ main.form = "altered" /\ LatestBackup.form # "whole"
    /\ server' = "up"
    /\ mem' = 0
    /\ loaded' = 0
    /\ UNCHANGED <<issued, queue, timer, mu, pc, copy, diskVars, envVars>>

\* The replayed events are taken for the state.
ReplaceStateOmitted ==
    /\ server = "replaying"
    /\ server' = "restored"
    /\ UNCHANGED <<memVars, mu, pc, copy, diskVars, envVars>>

ReplaceState ==
    /\ server = "replaying"
    /\ server' = "restored"
    /\ mem' = loaded
    /\ UNCHANGED <<issued, loaded, queue, timer, mu, pc, copy, diskVars, envVars>>

\* RestoreState ends with a save of its own.
RestoreSaves ==
    /\ server = "restored"
    /\ server' = "saving"
    /\ CopyState(MainThread)
    /\ UNCHANGED <<memVars, mu, diskVars, envVars>>

StartServing ==
    /\ server = "saving"
    /\ pc[MainThread] = "idle"
    /\ server' = "up"
    /\ UNCHANGED <<memVars, mu, pc, copy, diskVars, envVars>>

----------------------------------------------------------------------------
(* Shutdown: ManualPersist, then SyncManager.Close *)

ShutdownSaves ==
    /\ server = "up"
    /\ server' = "flushing"
    /\ CopyState(MainThread)
    /\ UNCHANGED <<memVars, mu, diskVars, envVars>>

Close ==
    /\ server = "flushing"
    /\ pc[MainThread] = "idle"
    /\ server' = "closing"
    /\ atClose' = mem
    /\ UNCHANGED <<memVars, mu, pc, copy, diskVars, sec, crashes, damages, interrupted,
                   previous, newest>>

\* Only pending events are saved on close, and there are none left of a full channel.
LoopClosesAtOnce ==
    /\ server = "closing"
    /\ server' = "draining"
    /\ IF timer THEN CopyState(Loop) ELSE pc[Loop] = "idle" /\ UNCHANGED <<pc, copy>>
    /\ UNCHANGED <<memVars, mu, diskVars, envVars>>

\* The done branch: one last save, then the loop returns.
LoopCloses ==
    /\ server = "closing"
    /\ server' = "draining"
    /\ CopyState(Loop)
    /\ UNCHANGED <<memVars, mu, diskVars, envVars>>

\* The process ends, with every thread and everything in memory.
Ends ==
    /\ mu' = Nobody
    /\ pc' = [t \in Thread |-> "idle"]
    /\ copy' = [t \in Thread |-> 0]
    /\ queue' = 0
    /\ timer' = FALSE
    /\ interrupted' = (interrupted \/ mu # Nobody)

Exit ==
    /\ server = "draining"
    /\ pc[Loop] = "idle"
    /\ server' = "exited"
    /\ Ends
    /\ UNCHANGED <<mem, issued, loaded, diskVars, sec, crashes, damages, previous, newest,
                   atClose>>

Crash ==
    /\ server \notin {"down", "exited"}
    /\ crashes < MaxCrashes
    /\ crashes' = crashes + 1
    /\ server' = "down"
    /\ Ends
    /\ UNCHANGED <<mem, issued, loaded, diskVars, sec, damages, previous, newest, atClose>>

----------------------------------------------------------------------------
(* The environment.  Time and damage act between saves only. *)

Tick ==
    /\ sec < MaxSec
    /\ mu = Nobody
    /\ sec' = sec + 1
    /\ UNCHANGED <<server, memVars, mu, pc, copy, diskVars, crashes, damages, interrupted,
                   previous, newest, atClose>>

DamageFile ==
    /\ damages < MaxDamages
    /\ mu = Nobody
    /\ main.form = "whole"
    /\ damages' = damages + 1
    /\ \E f \in Damage : main' = [main EXCEPT !.form = f]
    /\ UNCHANGED <<server, memVars, mu, pc, copy, backup, lockFile, sec, crashes,
                   interrupted, previous, newest, atClose>>

----------------------------------------------------------------------------

Boot == BootFresh \/ BootLoads \/ BootRepairs \/ BootFails
Restore == RepairFile \/ ReplaceState \/ RestoreSaves \/ StartServing
Shutdown == ShutdownSaves \/ Close \/ LoopCloses \/ Exit

Next ==
    \/ AppEvent
    \/ \E t \in Thread : Persist(t)
    \/ \E t \in Saver : ManualPersist(t)
    \/ LoopReceives \/ LoopSaves
    \/ Boot \/ Restore \/ Shutdown
    \/ Crash \/ Tick \/ DamageFile

Spec == Init /\ [][Next]_vars

\* Threads run, sync.RWMutex starves nobody, and a timer that was set fires.
\* Nothing has to change, and nobody has to shut the server down.
Fairness ==
    /\ \A t \in Thread : SF_vars(AcquireLock(t)) /\ WF_vars(Persist(t))
    /\ WF_vars(LoopReceives) /\ WF_vars(LoopSaves)
    /\ WF_vars(Boot) /\ WF_vars(Restore)

FairSpec == Spec /\ Fairness

----------------------------------------------------------------------------
(* Properties *)

\* The types; and the state file is never left half-written by a write of the
\* server that was cut short (ARCHITECTURE.md: temporary file and rename guard
\* against it).
MainIsNeverTorn == TypeOK /\ (server # "repairing" => main.form # "torn")

\* The lock file is there while a thread is in Persist, and for good once a
\* server has died there or could not remove it: no failing write leaves it
\* behind, and neither a boot nor a later save takes away one that was left.
LockFileIsReleased == lockFile <=> mu # Nobody \/ interrupted

\* When the server is up and has nothing left to do, every version that memory
\* holds has been on the disk, whatever was cut short before.
Quiet ==
    /\ server = "up"
    /\ \A t \in Thread : pc[t] = "idle"
    /\ queue = 0 /\ ~timer
MemoryReachesDisk == Quiet => newest >= mem

\* It does unless a save was cut short: an event dropped because the channel was
\* full (OnAppEvent only warns) is saved with those that filled it.
DroppedEventIsSaved == ~interrupted => MemoryReachesDisk

\* Then the file holds just what memory holds (ARCHITECTURE.md: every change is
\* written within the batch delay).
QuietMeansSaved == Quiet /\ damages = 0 => main = [ver |-> mem, form |-> "whole"]

\* Every change is saved sooner or later, while the server keeps running and no
\* save was cut short: whoever holds the store, and whatever the batching loop is
\* doing when it happens.
EventuallySaved ==
    \A v \in 1..MaxVersion :
        mem = v ~> newest >= v \/ interrupted \/ server \notin Serving \ {"closing", "draining"}

\* Close loses nothing: what memory held when it was called has been saved by the
\* time the server exits (sync.go: the state is always saved before closing).
CloseSavesEverything == server = "exited" /\ ~interrupted => newest >= atClose

\* One damaged file is survived: unless a save is under way or was cut short, the latest
\* backup is whole and holds the version the file had, or the one before it,
\* even if several saves shared a second.
OneDamageIsSurvived ==
    main.form = "altered" /\ mu = Nobody /\ ~interrupted /\ LatestBackup.form # "absent" =>
        LatestBackup.form = "whole" /\ LatestBackup.ver \in {main.ver, previous}

\* Booting over a damaged file never ends in serving an empty memory while the
\* latest backup is whole (ARCHITECTURE.md: damage is repaired from a backup).
DamageIsRepaired ==
    [][server' = "up" /\ server \in {"down", "exited"} => LatestBackup.form # "whole"]_vars

\* The promise of DurableState is kept, across crashes and reboots: one whole
\* version in the file, none from before the boot brought back.
Durable == INSTANCE DurableState WITH
    memory <- IF server \in Serving THEN mem ELSE -1,
    base   <- IF server \in Serving THEN loaded ELSE -1,
    stored <- IF main.form = "absent" THEN -2 ELSE main.ver,
    issued <- issued
DurableSpec == Durable!Spec
=============================================================================
