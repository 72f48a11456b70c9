---------------------- MODULE StatePersistence_proofs ----------------------
(***************************************************************************)
(* Proofs about StatePersistence, for any number of threads and any bounds *)
(* on versions, seconds, crashes and the channel: the lock file, the form  *)
(* of the state file, the fate of dropped events and of one damaged file,  *)
(* and that the state file implements DurableState.                        *)
(***************************************************************************)
EXTENDS StatePersistence, TLAPS

\* Where a thread is inside Persist, and where its copy is still to be written.
Inside == {"locked", "truncated", "backedUp", "written"}
Before == {"copied", "locked", "truncated", "backedUp"}

\* The thread inside Persist has the store's mutex, and the lock file is there
\* just as long, or was left behind: then no thread gets inside any more.
LockInv ==
    /\ \A t \in Thread : pc[t] \in Inside <=> mu = t
    /\ LockFileIsReleased
    /\ interrupted => mu = Nobody

\* The names of backups are past or present seconds, and so one is the latest;
\* and a backup is only begun of a file there is.
Named == {s \in 0..MaxSec : backup[s].form # "absent"}
LatestOf(s) == s \in Named /\ \A u \in Named : u <= s
Stamped ==
    /\ \A s \in Named : s <= sec
    /\ Named # {} => \E s \in Named : LatestOf(s)
NameInv ==
    /\ Stamped
    /\ \A t \in Thread : pc[t] = "truncated" => main.form # "absent"

\* No thread saves before the server serves, unless the replay is slow.
AtWork == {"replaying"} \cup Serving
QuietInv == server \notin AtWork => \A t \in Thread : pc[t] = "idle"

Base == TypeOK /\ LockInv /\ NameInv /\ QuietInv

\* Without altered files there is nothing to repair in place.
FormInv == main.form \in {"absent", "whole", "garbled"} /\ server # "repairing"

\* Nothing a boot can find is newer than the newest that was saved, and nothing
\* there is is newer than the last that was issued.
NewestInv ==
    /\ mem <= issued /\ newest <= issued
    /\ \A t \in Thread : copy[t] <= issued
    /\ main.ver <= newest
    /\ \A s \in 0..MaxSec : backup[s].ver <= newest
    /\ loaded <= newest

\* A version that was not saved is on its way: an event in the channel, the
\* batch timer, or a thread that holds a copy.
PendingInv ==
    ~interrupted /\ server \in Serving =>
        \/ newest >= mem
        \/ queue > 0
        \/ timer
        \/ \E t \in Thread : pc[t] \in Before /\ copy[t] >= mem

\* The same of the version Close was called with, of which the loop's last save
\* takes care.
ClosingInv ==
    ~interrupted =>
        /\ server = "closing" => atClose <= mem
        /\ server = "draining" =>
            newest >= atClose \/ (pc[Loop] \in Before /\ copy[Loop] >= atClose)
        /\ server = "exited" => newest >= atClose

SavedInv == NewestInv /\ PendingInv /\ ClosingInv

\* What the latest backup holds, as far as a save has come.
LatestIsGood ==
    LatestBackup.form = "whole" /\ LatestBackup.ver \in {main.ver, previous}
Chain ==
    /\ main.form = "absent" => Named = {}
    /\ \A t \in Thread : pc[t] = "truncated" => main.form = "whole"
    /\ \A t \in Thread : pc[t] = "backedUp" => Named = {} \/ backup[sec] = main
    /\ (\A t \in Thread : pc[t] \notin {"truncated", "backedUp"}) =>
        Named = {} \/ LatestIsGood
Spared == ~interrupted /\ (damages = 0 \/ (main.form = "altered" /\ mu = Nobody))
DamageInv ==
    /\ damages = 0 => main.form \in {"absent", "whole"}
    /\ server = "repairing" => damages # 0 /\ LatestBackup.form = "whole"
    /\ \A t \in Thread : pc[t] = "written" => main.form = "whole"
    /\ Spared => Chain

\* The ages of what memory, the copies and the file hold, when files are not
\* damaged and a replay is over within the batch delay.
AgeInv ==
    /\ main.form \in {"absent", "whole"} /\ server # "repairing"
    /\ main.form = "whole" => main.ver <= issued
    /\ mem <= issued
    /\ server = "replaying" => main.form = "whole" /\ loaded = main.ver
    /\ server \in Serving => loaded <= mem
    /\ server \notin Serving => \A t \in Thread : pc[t] = "idle"
    /\ \A t \in Thread : pc[t] \in Before => loaded <= copy[t] /\ copy[t] <= issued

----------------------------------------------------------------------------
(* Types, the mutex and the names of backups *)

\* The latest backup is one of the backups.
LEMMA LatestIs ==
    ASSUME NEW s \in 0..MaxSec, LatestOf(s), MaxSec \in Nat
    PROVE  LatestBackup = backup[s]
  <1>1. Named # {} /\ s \in Named
    BY DEF LatestOf
  <1>2. s = Max(Named)
    BY <1>1 DEF LatestOf, Max, Named
  <1> QED
    BY <1>1, <1>2 DEF LatestBackup, Named

\* There is a latest backup, or none at all.
LEMMA LatestCases ==
    ASSUME TypeOK, NameInv
    PROVE  \/ Named = {} /\ LatestBackup = Absent
           \/ \E s \in 0..MaxSec : LatestOf(s) /\ LatestBackup = backup[s]
  <1>1. CASE Named = {}
    BY <1>1 DEF LatestBackup, Named
  <1>2. CASE Named # {}
    BY <1>2, LatestIs, ConstantsAssumption DEF NameInv, Stamped, LatestOf, Named
  <1> QED
    BY <1>1, <1>2

\* What restoreFromBackup reads is a file.
LEMMA LatestType ==
    ASSUME TypeOK, NameInv
    PROVE  LatestBackup \in [ver : 0..MaxVersion, form : Form]
  <1>1. Absent \in [ver : 0..MaxVersion, form : Form]
    BY ConstantsAssumption DEF Absent, Form
  <1> QED
    BY <1>1, LatestCases DEF TypeOK

\* The bounds are numbers.
LEMMA Bounds ==
    /\ ChanCap \in Nat /\ ChanCap > 0
    /\ MaxVersion \in Nat /\ MaxSec \in Nat /\ MaxCrashes \in Nat /\ MaxDamages \in Nat
  BY ConstantsAssumption

\* The larger of two numbers.
LEMMA MaxOfTwo ==
    ASSUME NEW m \in Int, NEW n \in Int
    PROVE  Max({m, n}) \in {m, n} /\ Max({m, n}) >= m /\ Max({m, n}) >= n
  <1>1. \E x \in {m, n} : \A y \in {m, n} : x >= y
    BY DEF Max
  <1> QED
    BY <1>1 DEF Max

\* The types, by what they are the types of.
MemType ==
    /\ server \in Phase
    /\ mem \in 0..MaxVersion /\ issued \in 0..MaxVersion /\ loaded \in 0..MaxVersion
    /\ queue \in 0..ChanCap
    /\ timer \in BOOLEAN
SaveType ==
    /\ mu \in Thread \cup {Nobody}
    /\ pc \in [Thread -> {"idle", "copied", "locked", "truncated", "backedUp", "written"}]
    /\ copy \in [Thread -> 0..MaxVersion]
    /\ lockFile \in BOOLEAN
File == [ver : 0..MaxVersion, form : Form]
DiskType == main \in File /\ backup \in [0..MaxSec -> File]
EnvType ==
    /\ sec \in 0..MaxSec
    /\ crashes \in 0..MaxCrashes /\ damages \in 0..MaxDamages
    /\ interrupted \in BOOLEAN
    /\ previous \in 0..MaxVersion /\ newest \in 0..MaxVersion /\ atClose \in 0..MaxVersion

\* The parts are the whole.
LEMMA TypeParts == TypeOK <=> MemType /\ SaveType /\ DiskType /\ EnvType
  BY DEF TypeOK, MemType, SaveType, DiskType, EnvType, File

\* The parts of a step that several proofs tell apart.
LEMMA NextCases ==
    ASSUME Next
    PROVE  \/ AppEvent
           \/ \E t \in Thread : AcquireLock(t)
           \/ \E t \in Thread : TruncateBackup(t)
           \/ \E t \in Thread : WriteBackup(t)
           \/ \E t \in Thread : RenameFile(t)
           \/ \E t \in Thread : SaveFails(t)
           \/ \E t \in Thread : ReleaseLock(t)
           \/ \E t \in Saver : ManualPersist(t)
           \/ LoopReceives \/ LoopSaves
           \/ BootFresh \/ BootLoads \/ BootRepairs \/ BootFails
           \/ RepairFile \/ ReplaceState \/ RestoreSaves \/ StartServing
           \/ ShutdownSaves \/ Close \/ LoopCloses \/ Exit
           \/ Crash \/ Tick \/ DamageFile
  BY DEF Next, Persist, Boot, Restore, Shutdown

\* A file that is damaged, or whose writing has begun, is still a file.
LEMMA Reformed ==
    ASSUME NEW r \in File, NEW f \in Form
    PROVE  [r EXCEPT !.form = f] \in File
  BY DEF File

\* The types of what is in memory.
LEMMA MemTypeStep ==
    ASSUME MemType, EnvType, DiskType, LatestBackup \in File, Next
    PROVE  MemType'
  <1> USE Bounds DEF MemType, memVars
  <1>1. CASE AppEvent
    BY <1>1 DEF AppEvent, Send
  <1>2. CASE UNCHANGED <<server, memVars>>
    BY <1>2
  <1>3. ASSUME NEW t \in Thread,
               AcquireLock(t) \/ TruncateBackup(t) \/ WriteBackup(t) \/ RenameFile(t)
               \/ SaveFails(t) \/ ReleaseLock(t) \/ ManualPersist(t)
        PROVE  MemType'
    BY <1>2, <1>3 DEF AcquireLock, TruncateBackup, WriteBackup, RenameFile, SaveFails,
                      ReleaseLock, ManualPersist
  <1>4. CASE LoopReceives \/ LoopSaves
    <2>1. timer' \in BOOLEAN
      BY <1>4 DEF LoopReceives, LoopSaves
    <2>2. queue' \in 0..ChanCap
      BY <1>4 DEF LoopReceives, LoopSaves
    <2> QED
      BY <1>4, <2>1, <2>2 DEF LoopReceives, LoopSaves
  <1>5. CASE BootFresh \/ BootRepairs \/ BootFails
    BY <1>5 DEF BootFresh, BootRepairs, BootFails, Phase, Serving
  <1>6. CASE BootLoads \/ RepairFile
    BY <1>6 DEF BootLoads, RepairFile, DiskType, File, Phase
  <1>7. CASE ReplaceState \/ RestoreSaves \/ StartServing
    BY <1>7 DEF ReplaceState, RestoreSaves, StartServing, Phase, Serving
  <1>8. CASE ShutdownSaves \/ Close \/ LoopCloses
    BY <1>8 DEF ShutdownSaves, Close, LoopCloses, Phase, Serving
  <1>9. CASE Exit \/ Crash
    <2>1. timer' \in BOOLEAN
      BY <1>9 DEF Exit, Crash, Ends
    <2> QED
      BY <1>9, <2>1 DEF Exit, Crash, Ends, Phase
  <1>10. CASE Tick \/ DamageFile
    BY <1>2, <1>10 DEF Tick, DamageFile
  <1> QED
    BY <1>1, <1>3, <1>4, <1>5, <1>6, <1>7, <1>8, <1>9, <1>10, NextCases DEF Thread

\* The types of what a save holds.
LEMMA SaveTypeStep ==
    ASSUME SaveType, MemType, Next
    PROVE  SaveType'
  <1> USE DEF SaveType
  <1>1. CASE UNCHANGED <<mu, pc, copy, lockFile>>
    BY <1>1
  <1>2. ASSUME NEW t \in Thread, AcquireLock(t) \/ SaveFails(t) \/ ReleaseLock(t)
        PROVE  SaveType'
    BY <1>2 DEF AcquireLock, SaveFails, ReleaseLock, diskVars
  <1>3. ASSUME NEW t \in Thread, TruncateBackup(t) \/ WriteBackup(t) \/ RenameFile(t)
        PROVE  SaveType'
    BY <1>3 DEF TruncateBackup, WriteBackup, RenameFile
  <1>4. ASSUME NEW t \in Thread, CopyState(t), UNCHANGED <<mu, lockFile>>
        PROVE  SaveType'
    BY <1>4 DEF CopyState, MemType
  <1>5. ASSUME NEW t \in Saver, ManualPersist(t)
        PROVE  SaveType'
    BY <1>4, <1>5 DEF ManualPersist, Thread, diskVars
  <1>6. CASE LoopSaves \/ RestoreSaves \/ ShutdownSaves \/ LoopCloses
    BY <1>4, <1>6 DEF LoopSaves, RestoreSaves, ShutdownSaves, LoopCloses, Thread, diskVars
  <1>7. CASE Exit \/ Crash
    BY <1>7, ConstantsAssumption DEF Exit, Crash, Ends, diskVars
  <1>8. CASE AppEvent \/ LoopReceives \/ ReplaceState \/ StartServing \/ Close \/ Tick
    BY <1>1, <1>8 DEF AppEvent, LoopReceives, ReplaceState, StartServing, Close, Tick, diskVars
  <1>9. CASE BootFresh \/ BootLoads \/ BootRepairs \/ BootFails \/ RepairFile \/ DamageFile
    BY <1>1, <1>9 DEF BootFresh, BootLoads, BootRepairs, BootFails, RepairFile, DamageFile, diskVars
  <1> QED
    BY <1>2, <1>3, <1>5, <1>6, <1>7, <1>8, <1>9, NextCases

\* The types of the files.
LEMMA DiskTypeStep ==
    ASSUME DiskType, SaveType, EnvType, LatestBackup \in File, Next
    PROVE  DiskType'
  <1> USE DEF DiskType
  <1>1. CASE UNCHANGED <<main, backup>>
    BY <1>1
  <1>2. ASSUME NEW t \in Thread, TruncateBackup(t)
        PROVE  DiskType'
    BY <1>2, Reformed DEF TruncateBackup, Form
  <1>3. ASSUME NEW t \in Thread, WriteBackup(t)
        PROVE  DiskType'
    BY <1>3 DEF WriteBackup
  <1>4. ASSUME NEW t \in Thread, RenameFile(t)
        PROVE  DiskType'
    BY <1>4 DEF RenameFile, SaveType, File, Form
  <1>5. CASE BootRepairs \/ RepairFile
    BY <1>5, Reformed DEF BootRepairs, RepairFile, Form
  <1>6. CASE DamageFile
    BY <1>6, Reformed, ConstantsAssumption DEF DamageFile, Form
  <1>7. ASSUME NEW t \in Thread,
               AcquireLock(t) \/ SaveFails(t) \/ ReleaseLock(t) \/ ManualPersist(t)
        PROVE  DiskType'
    BY <1>1, <1>7 DEF AcquireLock, SaveFails, ReleaseLock, ManualPersist, diskVars
  <1>8. CASE AppEvent \/ LoopReceives \/ LoopSaves \/ BootFresh \/ BootLoads \/ BootFails
    BY <1>1, <1>8 DEF AppEvent, LoopReceives, LoopSaves, BootFresh, BootLoads, BootFails, diskVars
  <1>9. CASE ReplaceState \/ RestoreSaves \/ StartServing \/ ShutdownSaves \/ Close \/ LoopCloses
    BY <1>1, <1>9 DEF ReplaceState, RestoreSaves, StartServing, ShutdownSaves, Close,
                      LoopCloses, diskVars
  <1>10. CASE Exit \/ Crash \/ Tick
    BY <1>1, <1>10 DEF Exit, Crash, Tick, diskVars
  <1> QED
    BY <1>2, <1>3, <1>4, <1>5, <1>6, <1>7, <1>8, <1>9, <1>10, NextCases DEF Thread

\* The types of the clock, of what has gone wrong, and of the history.
LEMMA EnvTypeStep ==
    ASSUME EnvType, MemType, SaveType, DiskType, Next
    PROVE  EnvType'
  <1> USE DEF EnvType
  <1>1. CASE UNCHANGED envVars
    BY <1>1 DEF envVars
  <1>2. ASSUME NEW t \in Thread, RenameFile(t)
        PROVE  EnvType'
    <2>1. copy[t] \in 0..MaxVersion /\ main.ver \in 0..MaxVersion
      BY DEF SaveType, DiskType, File
    <2>2. newest \in Int /\ copy[t] \in Int
      BY <2>1, Bounds
    <2>3. Max({newest, copy[t]}) \in {newest, copy[t]}
      BY ONLY <2>2, MaxOfTwo
    <2> QED
      BY <1>2, <2>1, <2>3 DEF RenameFile
  <1>3. CASE Close
    BY <1>3 DEF Close, MemType
  <1>4. CASE Exit \/ Crash
    <2>1. interrupted' \in BOOLEAN
      BY <1>4 DEF Exit, Crash, Ends
    <2> QED
      BY <1>4, <2>1, Bounds DEF Exit, Crash, Ends
  <1>5. CASE Tick \/ DamageFile
    BY <1>5, Bounds DEF Tick, DamageFile
  <1>6. ASSUME NEW t \in Thread,
               AcquireLock(t) \/ TruncateBackup(t) \/ WriteBackup(t) \/ SaveFails(t)
               \/ ReleaseLock(t) \/ ManualPersist(t)
        PROVE  EnvType'
    BY <1>1, <1>6 DEF AcquireLock, TruncateBackup, WriteBackup, SaveFails, ReleaseLock,
                      ManualPersist
  <1>7. CASE AppEvent \/ LoopReceives \/ LoopSaves \/ BootFresh \/ BootLoads \/ BootRepairs
    BY <1>1, <1>7 DEF AppEvent, LoopReceives, LoopSaves, BootFresh, BootLoads, BootRepairs
  <1>8. CASE BootFails \/ RepairFile \/ ReplaceState \/ RestoreSaves \/ StartServing
    BY <1>1, <1>8 DEF BootFails, RepairFile, ReplaceState, RestoreSaves, StartServing
  <1>9. CASE ShutdownSaves \/ LoopCloses
    BY <1>1, <1>9 DEF ShutdownSaves, LoopCloses
  <1> QED
    BY <1>2, <1>3, <1>4, <1>5, <1>6, <1>7, <1>8, <1>9, NextCases DEF Thread

\* Every step keeps the types.
LEMMA TypeStep ==
    ASSUME TypeOK, NameInv, [Next]_vars
    PROVE  TypeOK'
  <1>1. CASE UNCHANGED vars
    BY <1>1 DEF vars, memVars, diskVars, envVars, TypeOK
  <1>2. CASE Next
    <2>1. LatestBackup \in File
      BY LatestType DEF File
    <2>2. MemType /\ SaveType /\ DiskType /\ EnvType
      BY TypeParts
    <2>3. MemType' /\ SaveType' /\ DiskType' /\ EnvType'
      BY <1>2, <2>1, <2>2, MemTypeStep, SaveTypeStep, DiskTypeStep, EnvTypeStep
    <2> QED
      BY <2>3 DEF TypeOK, MemType, SaveType, DiskType, EnvType, File
  <1> QED
    BY <1>1, <1>2

----------------------------------------------------------------------------
(* The mutex, the names of backups, and quiet threads *)

\* A thread takes its copy, and touches nothing else of a save.
Copies(t) == CopyState(t) /\ UNCHANGED <<mu, diskVars, sec, damages, interrupted, previous, newest>>

\* Steps that leave every save and every file alone.
Elsewhere == UNCHANGED <<mu, pc, copy, diskVars, sec, damages, interrupted, previous, newest>>

\* What a step is to the threads in Persist.
LEMMA SaveCases ==
    ASSUME Next
    PROVE  \/ \E t \in Thread : AcquireLock(t)
           \/ \E t \in Thread : TruncateBackup(t)
           \/ \E t \in Thread : WriteBackup(t)
           \/ \E t \in Thread : RenameFile(t)
           \/ \E t \in Thread : SaveFails(t)
           \/ \E t \in Thread : ReleaseLock(t)
           \/ \E t \in Thread : Copies(t) /\ server' \in AtWork
           \/ Exit \/ Crash \/ Tick \/ DamageFile \/ BootRepairs \/ RepairFile
           \/ Elsewhere
  <1> USE DEF Elsewhere, diskVars, envVars
  <1>1. CASE AppEvent \/ LoopReceives \/ BootFresh \/ BootLoads \/ BootFails
    BY <1>1 DEF AppEvent, LoopReceives, BootFresh, BootLoads, BootFails
  <1>2. CASE ReplaceState \/ StartServing \/ Close
    BY <1>2 DEF ReplaceState, StartServing, Close
  <1>3. ASSUME NEW t \in Saver, ManualPersist(t)
        PROVE  t \in Thread /\ Copies(t) /\ server' \in AtWork
    BY <1>3 DEF ManualPersist, Copies, Thread, AtWork
  <1>4. CASE LoopSaves \/ LoopCloses
    <2>1. Copies(Loop) /\ server' \in AtWork
      BY <1>4 DEF LoopSaves, LoopCloses, Copies, AtWork, Serving
    <2> QED
      BY <2>1 DEF Thread
  <1>5. CASE RestoreSaves \/ ShutdownSaves
    <2>1. Copies(MainThread) /\ server' \in AtWork
      BY <1>5 DEF RestoreSaves, ShutdownSaves, Copies, AtWork, Serving
    <2> QED
      BY <2>1 DEF Thread
  <1> QED
    BY <1>1, <1>2, <1>3, <1>4, <1>5, NextCases

\* A save has the mutex and the lock file from its first write to its last.
LEMMA LockStep ==
    ASSUME TypeOK, LockInv, [Next]_vars
    PROVE  LockInv'
  <1> USE ConstantsAssumption DEF LockInv, LockFileIsReleased, Inside
  <1>1. pc \in [Thread -> {"idle", "copied", "locked", "truncated", "backedUp", "written"}]
        /\ lockFile \in BOOLEAN /\ interrupted \in BOOLEAN
    BY DEF TypeOK
  <1>2. CASE Elsewhere \/ UNCHANGED vars
    BY <1>2 DEF Elsewhere, vars, diskVars, envVars
  <1>8. CASE Tick \/ DamageFile \/ BootRepairs \/ RepairFile
    BY <1>8 DEF Tick, DamageFile, BootRepairs, RepairFile, diskVars, envVars
  <1>3. ASSUME NEW t \in Thread, AcquireLock(t)
        PROVE  LockInv'
    BY <1>1, <1>3 DEF AcquireLock, envVars
  <1>4. ASSUME NEW t \in Thread,
               TruncateBackup(t) \/ WriteBackup(t) \/ RenameFile(t) \/ SaveFails(t)
        PROVE  LockInv'
    BY <1>1, <1>4 DEF TruncateBackup, WriteBackup, RenameFile, SaveFails, envVars, diskVars
  <1>5. ASSUME NEW t \in Thread, ReleaseLock(t)
        PROVE  LockInv'
    BY <1>1, <1>5 DEF ReleaseLock, envVars
  <1>6. ASSUME NEW t \in Thread, Copies(t)
        PROVE  LockInv'
    BY <1>1, <1>6 DEF Copies, CopyState, diskVars
  <1>7. CASE Exit \/ Crash
    BY <1>1, <1>7 DEF Exit, Crash, Ends, diskVars
  <1> QED
    BY <1>2, <1>3, <1>4, <1>5, <1>6, <1>7, <1>8, SaveCases

\* A boot begins when no save is under way.
LEMMA QuietStep ==
    ASSUME TypeOK, QuietInv, [Next]_vars
    PROVE  QuietInv'
  <1> USE DEF QuietInv
  <1>1. CASE UNCHANGED vars
    BY <1>1 DEF vars
  <1>2. ASSUME NEW t \in Thread,
               AcquireLock(t) \/ TruncateBackup(t) \/ WriteBackup(t) \/ RenameFile(t)
               \/ SaveFails(t) \/ ReleaseLock(t)
        PROVE  server \in AtWork /\ server' = server
    <2>1. pc[t] # "idle" /\ server' = server
      BY <1>2 DEF AcquireLock, TruncateBackup, WriteBackup, RenameFile, SaveFails, ReleaseLock
    <2> QED
      BY <2>1
  <1>3. CASE Exit \/ Crash
    BY <1>3 DEF Exit, Crash, Ends
  <1>4. CASE AppEvent \/ LoopReceives \/ Tick \/ DamageFile
    BY <1>4 DEF AppEvent, LoopReceives, Tick, DamageFile
  <1>5. CASE BootFresh \/ BootLoads \/ BootRepairs \/ BootFails
    BY <1>5 DEF BootFresh, BootLoads, BootRepairs, BootFails, AtWork, Serving
  <1>6. CASE RepairFile \/ ReplaceState \/ StartServing \/ Close
    BY <1>6 DEF RepairFile, ReplaceState, StartServing, Close, AtWork, Serving
  <1>7. ASSUME NEW t \in Saver, ManualPersist(t)
        PROVE  server' \in AtWork
    BY <1>7 DEF ManualPersist, AtWork
  <1>8. CASE LoopSaves \/ LoopCloses \/ RestoreSaves \/ ShutdownSaves
    BY <1>8 DEF LoopSaves, LoopCloses, RestoreSaves, ShutdownSaves, AtWork, Serving
  <1> QED
    BY <1>1, <1>2, <1>3, <1>4, <1>5, <1>6, <1>7, <1>8, NextCases

\* Steps that leave the backups alone.
LEMMA BackupCases ==
    ASSUME Next
    PROVE  \/ \E t \in Thread : TruncateBackup(t)
           \/ \E t \in Thread : WriteBackup(t)
           \/ Tick
           \/ UNCHANGED <<backup, sec>>
  <1> USE DEF diskVars, envVars
  <1>1. ASSUME NEW t \in Thread,
               AcquireLock(t) \/ RenameFile(t) \/ SaveFails(t) \/ ReleaseLock(t) \/ Copies(t)
        PROVE  UNCHANGED <<backup, sec>>
    BY <1>1 DEF AcquireLock, RenameFile, SaveFails, ReleaseLock, Copies
  <1>2. CASE Exit \/ Crash \/ DamageFile \/ BootRepairs \/ RepairFile \/ Elsewhere
    BY <1>2 DEF Exit, Crash, DamageFile, BootRepairs, RepairFile, Elsewhere
  <1> QED
    BY <1>1, <1>2, SaveCases

\* The backup of this second is the latest.
LEMMA NowIsLatest ==
    ASSUME TypeOK, NameInv, sec \in Named
    PROVE  LatestOf(sec)
  BY Bounds DEF TypeOK, NameInv, Stamped, LatestOf

\* A backup is only begun of a file there is, and the file stays.
LEMMA FileStays ==
    ASSUME TypeOK, NameInv, QuietInv, Next, NEW t \in Thread, pc'[t] = "truncated"
    PROVE  main'.form # "absent"
  <1>1. /\ main \in File /\ Damage \subseteq {"altered", "garbled"}
        /\ pc \in [Thread -> {"idle", "copied", "locked", "truncated", "backedUp", "written"}]
    BY ConstantsAssumption DEF TypeOK, File
  <1>2. ASSUME pc[t] = "truncated", UNCHANGED main
        PROVE  main'.form # "absent"
    BY <1>2 DEF NameInv
  <1>3. ASSUME NEW u \in Thread,
               AcquireLock(u) \/ WriteBackup(u) \/ SaveFails(u) \/ ReleaseLock(u) \/ Copies(u)
        PROVE  pc[t] = "truncated" /\ UNCHANGED main
    BY <1>1, <1>3 DEF AcquireLock, WriteBackup, SaveFails, ReleaseLock, Copies, CopyState, diskVars
  <1>4. ASSUME NEW u \in Thread, TruncateBackup(u)
        PROVE  main'.form # "absent"
    BY <1>1, <1>4 DEF TruncateBackup, NameInv
  <1>5. ASSUME NEW u \in Thread, RenameFile(u)
        PROVE  main'.form # "absent"
    BY <1>5 DEF RenameFile
  <1>6. CASE Exit \/ Crash
    BY <1>6 DEF Exit, Crash, Ends
  <1>7. CASE Elsewhere \/ Tick
    BY <1>2, <1>7 DEF Elsewhere, Tick, diskVars
  <1>8. CASE BootRepairs \/ RepairFile
    <2>1. pc[t] # "truncated"
      BY <1>8 DEF BootRepairs, RepairFile, QuietInv, AtWork, Serving
    <2> QED
      BY <1>8, <2>1 DEF BootRepairs, RepairFile
  <1>9. CASE DamageFile
    <2>1. PICK f \in Damage : main' = [main EXCEPT !.form = f]
      BY <1>9 DEF DamageFile
    <2> QED
      BY <1>1, <2>1 DEF File
  <1> QED
    BY <1>2, <1>3, <1>4, <1>5, <1>6, <1>7, <1>8, <1>9, SaveCases

\* The names of backups are numbers.
LEMMA Numbered == Named \subseteq Int
  BY Bounds DEF Named

\* A backup is named after the second it is made in.
LEMMA NameStep ==
    ASSUME TypeOK, NameInv, QuietInv, [Next]_vars
    PROVE  NameInv'
  <1>0. sec \in 0..MaxSec /\ backup \in [0..MaxSec -> File] /\ MaxSec \in Nat
    BY Bounds DEF TypeOK, File
  <1>1. CASE UNCHANGED vars
    BY <1>1 DEF vars, diskVars, envVars, NameInv, Stamped, Named, LatestOf
  <1>2. Stamped /\ \A t \in Thread : pc[t] = "truncated" => main.form # "absent"
    BY DEF NameInv
  <1>3. ASSUME UNCHANGED <<backup, sec>>
        PROVE  Stamped'
    BY <1>2, <1>3 DEF Stamped, Named, LatestOf
  <1>4. ASSUME NEW t \in Thread, TruncateBackup(t) \/ WriteBackup(t), ~UNCHANGED backup
        PROVE  Stamped'
    <2>1. /\ sec' = sec
          /\ \E r \in File : r.form # "absent" /\ backup' = [backup EXCEPT ![sec] = r]
      <3>1. CASE TruncateBackup(t)
        <4>1. [main EXCEPT !.form = "torn"] \in File
          BY Reformed DEF TypeOK, File, Form
        <4>2. [main EXCEPT !.form = "torn"].form # "absent"
          BY DEF TypeOK
        <4> QED
          BY <1>4, <3>1, <4>1, <4>2 DEF TruncateBackup, envVars
      <3>2. CASE WriteBackup(t)
        <4>1. main \in File /\ main.form # "absent"
          BY <1>2, <3>2 DEF TypeOK, File, WriteBackup
        <4> QED
          BY <3>2, <4>1 DEF WriteBackup, envVars
      <3> QED
        BY <1>4, <3>1, <3>2
    <2>2. Named' = Named \cup {sec}
      BY <1>0, <2>1 DEF Named
    <2>3. /\ \A s \in Named' : s <= sec'
          /\ sec \in Named' /\ sec <= sec
      BY <1>0, <1>2, <2>1, <2>2 DEF Stamped
    <2> QED
      BY <2>1, <2>3 DEF Stamped, LatestOf
  <1>5. ASSUME Tick
        PROVE  Stamped'
    <2>1. Named' = Named /\ sec' = sec + 1 /\ sec \in Int
      BY <1>0, <1>5 DEF Tick, diskVars, Named
    <2>2. \A s \in Named' : s <= sec'
      BY <1>2, <2>1, Numbered DEF Stamped
    <2>3. Named' # {} => \E s \in Named' : \A u \in Named' : u <= s
      BY <1>2, <2>1 DEF Stamped, LatestOf
    <2> QED
      BY <2>2, <2>3 DEF Stamped, LatestOf
  <1>6. ASSUME Next
        PROVE  Stamped'
    <2>1. ASSUME NEW t \in Thread, TruncateBackup(t) \/ WriteBackup(t)
          PROVE  Stamped'
      <3>1. sec' = sec
        BY <2>1 DEF TruncateBackup, WriteBackup, envVars
      <3> QED
        BY <1>3, <1>4, <2>1, <3>1
    <2>2. \/ \E t \in Thread : TruncateBackup(t) \/ WriteBackup(t)
          \/ Tick
          \/ UNCHANGED <<backup, sec>>
      BY <1>6, BackupCases
    <2>3. CASE UNCHANGED <<backup, sec>>
      BY <1>3, <2>3
    <2> QED
      BY <1>5, <2>1, <2>2, <2>3
  <1>7. ASSUME Next
        PROVE  \A t \in Thread : pc'[t] = "truncated" => main'.form # "absent"
    BY <1>7, FileStays
  <1> QED
    BY <1>1, <1>6, <1>7 DEF NameInv

\* Base holds before the first boot.
LEMMA BaseInit ==
    ASSUME Init
    PROVE  Base
  <1>1. TypeOK
    <2>1. Absent \in File
      BY Bounds DEF Absent, File, Form
    <2>2. MemType
      <3>1. timer \in BOOLEAN
        BY DEF Init
      <3> QED
        BY <3>1, Bounds DEF Init, MemType, Phase
    <2>4. SaveType
      <3>1. lockFile \in BOOLEAN
        BY DEF Init
      <3> QED
        BY <3>1, Bounds DEF Init, SaveType
    <2>5. EnvType
      <3>1. interrupted \in BOOLEAN
        BY DEF Init
      <3> QED
        BY <3>1, Bounds DEF Init, EnvType
    <2>3. DiskType
      BY <2>1 DEF Init, DiskType
    <2> QED
      BY <2>2, <2>3, <2>4, <2>5, TypeParts
  <1>2. LockInv /\ QuietInv
    BY ConstantsAssumption DEF Init, LockInv, LockFileIsReleased, QuietInv, Inside
  <1>3. NameInv
    BY DEF Init, NameInv, Stamped, Named, Absent
  <1> QED
    BY <1>1, <1>2, <1>3 DEF Base

\* Every step keeps Base.
LEMMA BaseStep ==
    ASSUME Base, [Next]_vars
    PROVE  Base'
  BY TypeStep, LockStep, NameStep, QuietStep DEF Base

\* The types hold, from every state and over every crash.
THEOREM TypeCorrect == Spec => []TypeOK
  <1>1. Init => Base
    BY BaseInit
  <1>2. Base /\ [Next]_vars => Base'
    BY BaseStep
  <1>3. Base => TypeOK
    BY DEF Base
  <1> QED
    BY <1>1, <1>2, <1>3, PTL DEF Spec

\* The lock file is there just as long as a thread is inside Persist, until a
\* server dies inside or cannot remove it; from then on it is there for good.
THEOREM LockReleased == Spec => []LockFileIsReleased
  <1>1. Init => Base
    BY BaseInit
  <1>2. Base /\ [Next]_vars => Base'
    BY BaseStep
  <1>3. Base => LockFileIsReleased
    BY DEF Base, LockInv
  <1> QED
    BY <1>1, <1>2, <1>3, PTL DEF Spec

----------------------------------------------------------------------------
(* The form of the state file *)

\* If no file is altered, a boot finds the state file as a save or a crash left it.
LEMMA FormStep ==
    ASSUME "altered" \notin Damage, Base, FormInv, [Next]_vars
    PROVE  FormInv'
  <1> USE DEF FormInv
  <1>1. CASE UNCHANGED vars
    BY <1>1 DEF vars, diskVars
  <1>2. CASE UNCHANGED <<server, main>>
    BY <1>2
  <1>3. ASSUME NEW t \in Thread,
               AcquireLock(t) \/ TruncateBackup(t) \/ WriteBackup(t) \/ SaveFails(t)
               \/ ReleaseLock(t) \/ ManualPersist(t)
        PROVE  FormInv'
    BY <1>2, <1>3 DEF AcquireLock, TruncateBackup, WriteBackup, SaveFails, ReleaseLock,
                      ManualPersist, diskVars
  <1>4. ASSUME NEW t \in Thread, RenameFile(t)
        PROVE  FormInv'
    BY <1>4 DEF RenameFile
  <1>5. CASE AppEvent \/ LoopReceives \/ LoopSaves \/ BootFresh \/ BootLoads \/ BootFails
    BY <1>5 DEF AppEvent, LoopReceives, LoopSaves, BootFresh, BootLoads, BootFails, diskVars
  <1>6. CASE BootRepairs \/ RepairFile
    BY <1>6 DEF BootRepairs, RepairFile
  <1>7. CASE ReplaceState \/ RestoreSaves \/ StartServing \/ ShutdownSaves \/ Close \/ LoopCloses
    BY <1>7 DEF ReplaceState, RestoreSaves, StartServing, ShutdownSaves, Close, LoopCloses,
                diskVars
  <1>8. CASE Exit \/ Crash \/ Tick
    BY <1>8 DEF Exit, Crash, Tick, diskVars
  <1>9. CASE DamageFile
    <2>1. PICK f \in Damage : main' = [main EXCEPT !.form = f]
      BY <1>9 DEF DamageFile
    <2>2. f = "garbled" /\ main \in File
      BY ConstantsAssumption, Zenon DEF Base, TypeOK, File
    <2> QED
      BY <1>9, <2>1, <2>2 DEF DamageFile, File
  <1> QED
    BY <1>1, <1>3, <1>4, <1>5, <1>6, <1>7, <1>8, <1>9, NextCases DEF Thread

\* Where no file is altered from outside, the state file is never half-written:
\* not by a save that was cut short, and not by the boot after it.
THEOREM NeverTorn ==
    ASSUME "altered" \notin Damage
    PROVE  Spec => []MainIsNeverTorn
  <1>1. Init => Base /\ FormInv
    <2>1. Init => FormInv
      BY DEF Init, FormInv, Absent
    <2> QED
      BY <2>1, BaseInit
  <1>2. Base /\ FormInv /\ [Next]_vars => (Base /\ FormInv)'
    BY BaseStep, FormStep
  <1>3. Base /\ FormInv => MainIsNeverTorn
    BY DEF Base, FormInv, MainIsNeverTorn
  <1> QED
    BY <1>1, <1>2, <1>3, PTL DEF Spec

----------------------------------------------------------------------------
(* Every change is saved, while no write fails and no save is cut short *)

\* The versions are numbers.
LEMMA Versions ==
    ASSUME TypeOK
    PROVE  /\ mem \in Nat /\ issued \in Nat /\ loaded \in Nat /\ newest \in Nat
           /\ atClose \in Nat /\ main.ver \in Nat /\ queue \in Nat
           /\ \A t \in Thread : copy[t] \in Nat
           /\ \A s \in 0..MaxSec : backup[s].ver \in Nat
  <1>1. MemType /\ SaveType /\ DiskType /\ EnvType
    BY TypeParts
  <1>2. mem \in Nat /\ issued \in Nat /\ loaded \in Nat /\ queue \in Nat
    BY <1>1, Bounds DEF MemType
  <1>3. newest \in Nat /\ atClose \in Nat
    BY <1>1, Bounds DEF EnvType
  <1>4. \A t \in Thread : copy[t] \in Nat
    BY <1>1, Bounds DEF SaveType
  <1>5. main.ver \in Nat /\ \A s \in 0..MaxSec : backup[s].ver \in Nat
    BY <1>1, Bounds DEF DiskType, File
  <1> QED
    BY <1>2, <1>3, <1>4, <1>5

\* A save that is done leaves nothing newer than the newest saved.
LEMMA RenameSaves ==
    ASSUME TypeOK, NEW t \in Thread, RenameFile(t)
    PROVE  /\ newest' \in {newest, copy[t]} /\ newest' >= newest /\ newest' >= copy[t]
           /\ main' = [ver |-> copy[t], form |-> "whole"]
           /\ UNCHANGED <<server, memVars, copy, backup, sec, damages, interrupted, atClose>>
  <1>1. newest \in Int /\ copy[t] \in Int
    BY Versions
  <1>2. /\ Max({newest, copy[t]}) \in {newest, copy[t]}
        /\ Max({newest, copy[t]}) >= newest /\ Max({newest, copy[t]}) >= copy[t]
    BY ONLY <1>1, MaxOfTwo
  <1> QED
    BY <1>2 DEF RenameFile

\* A save writes what was copied, and a copy is of what memory holds.
LEMMA NewestStep ==
    ASSUME Base, NewestInv, [Next]_vars
    PROVE  NewestInv'
  <1> USE DEF NewestInv
  <1>0. TypeOK /\ NameInv
    BY DEF Base
  <1>1. CASE UNCHANGED <<mem, issued, loaded, copy, main, backup, newest>>
    BY <1>1
  <1>2. CASE AppEvent
    BY <1>0, <1>2, Versions DEF AppEvent, envVars, diskVars
  <1>3. ASSUME NEW t \in Thread, TruncateBackup(t) \/ WriteBackup(t)
        PROVE  NewestInv'
    <2>1. \A s \in 0..MaxSec : backup'[s].ver \in {backup[s].ver, main.ver}
      <3>1. [main EXCEPT !.form = "torn"].ver = main.ver
        BY <1>0 DEF TypeOK
      <3>2. backup \in [0..MaxSec -> File]
        BY <1>0 DEF TypeOK, File
      <3> QED
        BY <1>3, <3>1, <3>2 DEF TruncateBackup, WriteBackup
    <2> QED
      BY <1>3, <2>1 DEF TruncateBackup, WriteBackup, memVars, envVars
  <1>4. ASSUME NEW t \in Thread, RenameFile(t)
        PROVE  NewestInv'
    BY <1>0, <1>4, RenameSaves, Versions DEF memVars
  <1>5. ASSUME NEW t \in Thread, CopyState(t),
               UNCHANGED <<mem, issued, loaded, main, backup, newest>>
        PROVE  NewestInv'
    BY <1>0, <1>5 DEF CopyState, TypeOK
  <1>6. ASSUME NEW t \in Saver, ManualPersist(t)
        PROVE  NewestInv'
    BY <1>5, <1>6 DEF ManualPersist, Thread, memVars, diskVars, envVars
  <1>7. CASE LoopSaves \/ RestoreSaves \/ ShutdownSaves \/ LoopCloses
    BY <1>5, <1>7 DEF LoopSaves, RestoreSaves, ShutdownSaves, LoopCloses, Thread, memVars,
                      diskVars, envVars
  <1>8. CASE BootFresh \/ BootFails
    BY <1>0, <1>8, Versions DEF BootFresh, BootFails, diskVars, envVars
  <1>9. CASE BootLoads
    BY <1>0, <1>9, Versions DEF BootLoads, diskVars, envVars
  <1>10. CASE BootRepairs
    <2>1. main'.ver = main.ver
      BY <1>0, <1>10 DEF BootRepairs, TypeOK
    <2> QED
      BY <1>0, <1>10, <2>1, Versions DEF BootRepairs, envVars
  <1>11. CASE RepairFile
    <2>1. LatestBackup.ver <= newest
      BY <1>0, LatestCases, Versions DEF Absent
    <2> QED
      BY <1>11, <2>1 DEF RepairFile, envVars
  <1>12. CASE ReplaceState
    BY <1>0, <1>12, Versions DEF ReplaceState, diskVars, envVars
  <1>13. CASE Exit \/ Crash
    BY <1>0, <1>13, Versions DEF Exit, Crash, Ends, diskVars
  <1>14. CASE DamageFile
    <2>1. main'.ver = main.ver
      BY <1>0, <1>14 DEF DamageFile, TypeOK
    <2> QED
      BY <1>14, <2>1 DEF DamageFile, memVars
  <1>15. ASSUME NEW t \in Thread, AcquireLock(t) \/ SaveFails(t) \/ ReleaseLock(t)
         PROVE  NewestInv'
    BY <1>1, <1>15 DEF AcquireLock, SaveFails, ReleaseLock, memVars, diskVars, envVars
  <1>16. CASE LoopReceives \/ StartServing \/ Close \/ Tick \/ UNCHANGED vars
    BY <1>1, <1>16 DEF LoopReceives, StartServing, Close, Tick, vars, memVars, diskVars, envVars
  <1> QED
    BY <1>2, <1>3, <1>4, <1>6, <1>7, <1>8, <1>9, <1>10, <1>11, <1>12, <1>13, <1>14, <1>15,
       <1>16, NextCases

\* A thread that takes its copy, and one that holds a copy, while nothing of
\* memory changes.
LEMMA CopyPends ==
    ASSUME TypeOK, NEW t \in Thread, CopyState(t)
    PROVE  \E u \in Thread : pc'[u] \in Before /\ copy'[u] >= mem
  BY Versions DEF CopyState, Before, TypeOK

\* An event that is dropped meets a full channel, an event taken off it sets the timer.
LEMMA PendingStep ==
    ASSUME ~IOMayFail, Base, SavedInv, [Next]_vars
    PROVE  PendingInv'
  <1> USE DEF PendingInv
  <1>0. /\ TypeOK /\ LockInv /\ PendingInv /\ NewestInv
        /\ pc \in [Thread -> {"idle", "copied", "locked", "truncated", "backedUp", "written"}]
    BY DEF Base, SavedInv, TypeOK
  <1>1. CASE UNCHANGED <<server, memVars, pc, copy, newest, interrupted>>
    BY <1>0, <1>1 DEF memVars
  <1>2. CASE AppEvent
    <2>1. queue' > 0
      BY <1>0, <1>2, Bounds, Versions DEF AppEvent, Send
    <2> QED
      BY <2>1
  <1>3. ASSUME NEW t \in Thread, AcquireLock(t)
        PROVE  PendingInv'
    <2>1. ~interrupted => pc' = [pc EXCEPT ![t] = "locked"]
      BY <1>0, <1>3 DEF AcquireLock, LockInv, LockFileIsReleased
    <2> QED
      BY <1>0, <1>3, <2>1 DEF AcquireLock, Before, memVars, envVars
  <1>4. ASSUME NEW t \in Thread, TruncateBackup(t) \/ WriteBackup(t)
        PROVE  PendingInv'
    BY <1>0, <1>4 DEF TruncateBackup, WriteBackup, Before, memVars, envVars
  <1>5. ASSUME NEW t \in Thread, RenameFile(t)
        PROVE  PendingInv'
    <2>1. /\ newest' >= newest /\ newest' >= copy[t] /\ newest' \in Nat
          /\ UNCHANGED <<server, memVars, copy, interrupted>>
      BY <1>0, <1>5, RenameSaves, Versions
    <2>2. pc' = [pc EXCEPT ![t] = "written"]
      BY <1>5 DEF RenameFile
    <2> QED
      BY <1>0, <2>1, <2>2, Versions DEF memVars
  <1>6. ASSUME NEW t \in Thread, ReleaseLock(t)
        PROVE  PendingInv'
    BY <1>0, <1>6 DEF ReleaseLock, Before, memVars, envVars
  <1>7. ASSUME NEW t \in Thread, CopyState(t), UNCHANGED mem
        PROVE  PendingInv'
    BY <1>0, <1>7, CopyPends
  <1>8. ASSUME NEW t \in Saver, ManualPersist(t)
        PROVE  PendingInv'
    BY <1>7, <1>8 DEF ManualPersist, Thread, memVars
  <1>9. CASE LoopSaves \/ RestoreSaves \/ ShutdownSaves \/ LoopCloses
    BY <1>7, <1>9 DEF LoopSaves, RestoreSaves, ShutdownSaves, LoopCloses, Thread, memVars
  <1>10. CASE LoopReceives
    BY <1>10 DEF LoopReceives
  <1>11. CASE BootFresh \/ BootFails
    BY <1>0, <1>11, Versions DEF BootFresh, BootFails, envVars
  <1>12. CASE ReplaceState
    BY <1>0, <1>12, Versions DEF ReplaceState, envVars, NewestInv
  <1>13. CASE BootLoads \/ BootRepairs \/ RepairFile \/ Exit \/ Crash
    BY <1>13 DEF BootLoads, BootRepairs, RepairFile, Exit, Crash, Serving
  <1>14. CASE StartServing \/ Close
    BY <1>0, <1>14 DEF StartServing, Close, memVars, envVars, Serving
  <1>15. CASE Tick \/ DamageFile \/ UNCHANGED vars
    BY <1>1, <1>15 DEF Tick, DamageFile, vars, envVars
  <1>16. ASSUME NEW t \in Thread, SaveFails(t)
         PROVE  FALSE
    BY <1>16 DEF SaveFails
  <1> QED
    BY <1>2, <1>3, <1>4, <1>5, <1>6, <1>8, <1>9, <1>10, <1>11, <1>12, <1>13, <1>14, <1>15,
       <1>16, NextCases

\* The loop saves once more before it ends.
LEMMA ClosingStep ==
    ASSUME ~IOMayFail, Base, SavedInv, [Next]_vars
    PROVE  ClosingInv'
  <1> USE DEF ClosingInv
  <1>0. /\ TypeOK /\ LockInv /\ ClosingInv /\ NewestInv
        /\ pc \in [Thread -> {"idle", "copied", "locked", "truncated", "backedUp", "written"}]
        /\ copy \in [Thread -> 0..MaxVersion]
        /\ Loop \in Thread /\ Loop \notin Saver /\ Loop # MainThread
    BY ConstantsAssumption DEF Base, SavedInv, TypeOK, Thread
  <1>1. CASE UNCHANGED <<server, mem, pc, copy, newest, interrupted, atClose>>
    BY <1>0, <1>1
  <1>2. CASE AppEvent
    BY <1>0, <1>2, Versions DEF AppEvent, NewestInv, envVars
  <1>3. ASSUME NEW t \in Thread, AcquireLock(t)
        PROVE  ClosingInv'
    <2>1. ~interrupted => pc' = [pc EXCEPT ![t] = "locked"]
      BY <1>0, <1>3 DEF AcquireLock, LockInv, LockFileIsReleased
    <2> QED
      BY <1>0, <1>3, <2>1 DEF AcquireLock, Before, memVars, envVars
  <1>4. ASSUME NEW t \in Thread, TruncateBackup(t) \/ WriteBackup(t)
        PROVE  ClosingInv'
    BY <1>0, <1>4 DEF TruncateBackup, WriteBackup, Before, memVars, envVars
  <1>5. ASSUME NEW t \in Thread, RenameFile(t)
        PROVE  ClosingInv'
    <2>1. /\ newest' >= newest /\ newest' >= copy[t] /\ newest' \in Nat
          /\ UNCHANGED <<server, mem, copy, interrupted, atClose>>
      BY <1>0, <1>5, RenameSaves, Versions DEF memVars
    <2>2. pc' = [pc EXCEPT ![t] = "written"]
      BY <1>5 DEF RenameFile
    <2> QED
      BY <1>0, <2>1, <2>2, Versions
  <1>6. ASSUME NEW t \in Thread, ReleaseLock(t)
        PROVE  ClosingInv'
    BY <1>0, <1>6 DEF ReleaseLock, Before, memVars, envVars
  <1>7. ASSUME NEW t \in Thread, t # Loop, CopyState(t),
               UNCHANGED <<mem, newest, interrupted, atClose>>,
               server' = server \/ server' \in {"saving", "flushing"}
        PROVE  ClosingInv'
    BY <1>0, <1>7 DEF CopyState
  <1>8. ASSUME NEW t \in Saver, ManualPersist(t)
        PROVE  ClosingInv'
    BY <1>0, <1>7, <1>8 DEF ManualPersist, Thread, memVars, envVars
  <1>9. CASE RestoreSaves \/ ShutdownSaves
    <2>1. MainThread \in Thread
      BY DEF Thread
    <2> QED
      BY <1>0, <1>7, <1>9, <2>1 DEF RestoreSaves, ShutdownSaves, memVars, envVars
  <1>10. CASE LoopSaves
    BY <1>0, <1>10 DEF LoopSaves, envVars
  <1>11. CASE LoopReceives
    BY <1>1, <1>11 DEF LoopReceives, envVars
  <1>12. CASE LoopCloses
    BY <1>0, <1>12, Versions DEF LoopCloses, CopyState, memVars, envVars, Before
  <1>13. CASE Close
    BY <1>0, <1>13, Versions DEF Close, memVars
  <1>14. CASE Exit
    BY <1>0, <1>14 DEF Exit, Ends, Before
  <1>15. CASE BootFresh \/ BootLoads \/ BootRepairs \/ BootFails \/ RepairFile
    BY <1>15 DEF BootFresh, BootLoads, BootRepairs, BootFails, RepairFile
  <1>16. CASE ReplaceState \/ StartServing \/ Crash
    BY <1>16 DEF ReplaceState, StartServing, Crash
  <1>17. CASE Tick \/ DamageFile \/ UNCHANGED vars
    BY <1>1, <1>17 DEF Tick, DamageFile, vars, memVars, envVars
  <1>18. ASSUME NEW t \in Thread, SaveFails(t)
         PROVE  FALSE
    BY <1>18 DEF SaveFails
  <1> QED
    BY <1>2, <1>3, <1>4, <1>5, <1>6, <1>8, <1>9, <1>10, <1>11, <1>12, <1>13, <1>14, <1>15,
       <1>16, <1>17, <1>18, NextCases

\* Nothing is to be saved before the first boot.
LEMMA SavedInit ==
    ASSUME Init
    PROVE  SavedInv
  BY ConstantsAssumption DEF Init, SavedInv, NewestInv, PendingInv, ClosingInv, Serving, Absent

\* Every step keeps SavedInv.
LEMMA SavedStep ==
    ASSUME ~IOMayFail, Base, SavedInv, [Next]_vars
    PROVE  SavedInv'
  BY NewestStep, PendingStep, ClosingStep DEF SavedInv

\* While no write fails and no save was cut short, an event that found the channel
\* full loses nothing: a server with nothing left to do has saved what memory holds.
THEOREM NothingDropped ==
    ASSUME ~IOMayFail
    PROVE  Spec => []DroppedEventIsSaved
  <1>1. Init => Base /\ SavedInv
    BY BaseInit, SavedInit
  <1>2. Base /\ SavedInv /\ [Next]_vars => (Base /\ SavedInv)'
    BY BaseStep, SavedStep
  <1>3. Base /\ SavedInv => DroppedEventIsSaved
    BY Versions DEF Base, SavedInv, PendingInv, DroppedEventIsSaved, MemoryReachesDisk, Quiet,
                    Serving, Before
  <1> QED
    BY <1>1, <1>2, <1>3, PTL DEF Spec

\* Nor does a close: what memory held when Close was called is on the disk when
\* the server has exited.
THEOREM CloseLosesNothing ==
    ASSUME ~IOMayFail
    PROVE  Spec => []CloseSavesEverything
  <1>1. Init => Base /\ SavedInv
    BY BaseInit, SavedInit
  <1>2. Base /\ SavedInv /\ [Next]_vars => (Base /\ SavedInv)'
    BY BaseStep, SavedStep
  <1>3. Base /\ SavedInv => CloseSavesEverything
    BY DEF SavedInv, ClosingInv, CloseSavesEverything
  <1> QED
    BY <1>1, <1>2, <1>3, PTL DEF Spec

----------------------------------------------------------------------------
(* One damaged file *)

\* The latest backup is the same while the backups are.
LEMMA SameLatest ==
    ASSUME UNCHANGED backup
    PROVE  Named' = Named /\ LatestBackup' = LatestBackup
  BY DEF Named, LatestBackup

\* The latest backup, when a backup is named after the present second.
LEMMA LatestNow ==
    ASSUME TypeOK, NameInv, sec \in Named
    PROVE  LatestBackup = backup[sec]
  <1>1. sec \in 0..MaxSec
    BY DEF TypeOK
  <1> QED
    BY <1>1, NowIsLatest, LatestIs, Bounds

\* Only one thread is inside Persist.
LEMMA OneInside ==
    ASSUME LockInv, NEW t \in Thread, pc[t] \in Inside
    PROVE  mu = t /\ \A u \in Thread : u # t => pc[u] \notin Inside
  BY DEF LockInv

\* Without the mutex nobody writes.
LEMMA NobodyInside ==
    ASSUME LockInv, mu = Nobody
    PROVE  \A u \in Thread : pc[u] \notin Inside
  BY ConstantsAssumption DEF LockInv

\* A repair ends with the file whole, and so does every save.
LEMMA RepairStep ==
    ASSUME ~IOMayFail, Base, DamageInv, Next
    PROVE  /\ damages' = 0 => main'.form \in {"absent", "whole"}
           /\ server' = "repairing" => damages' # 0 /\ LatestBackup'.form = "whole"
           /\ \A t \in Thread : pc'[t] = "written" => main'.form = "whole"
  <1> DEFINE Goal == /\ damages' = 0 => main'.form \in {"absent", "whole"}
                     /\ server' = "repairing" => damages' # 0 /\ LatestBackup'.form = "whole"
                     /\ \A t \in Thread : pc'[t] = "written" => main'.form = "whole"
  <1> SUFFICES Goal
    OBVIOUS
  <1>0. /\ TypeOK /\ LockInv /\ QuietInv
        /\ damages \in Nat
        /\ pc \in [Thread -> {"idle", "copied", "locked", "truncated", "backedUp", "written"}]
    BY Bounds DEF Base, TypeOK
  <1>1. /\ damages = 0 => main.form \in {"absent", "whole"}
        /\ server = "repairing" => damages # 0 /\ LatestBackup.form = "whole"
        /\ \A t \in Thread : pc[t] = "written" => main.form = "whole"
    BY DEF DamageInv
  <1>2. ASSUME UNCHANGED <<main, damages, pc>>, server' # "repairing"
        PROVE  Goal
    BY <1>1, <1>2
  <1>3. ASSUME NEW t \in Thread, AcquireLock(t) \/ ReleaseLock(t) \/ CopyState(t),
               UNCHANGED <<main, backup, damages>>, server' # "repairing"
        PROVE  Goal
    BY <1>0, <1>1, <1>3 DEF AcquireLock, ReleaseLock, CopyState
  <1>4. ASSUME NEW t \in Thread
        PROVE  /\ pc[t] # "idle" => server # "repairing"
               /\ pc[t] # "idle" \/ server \in Serving => server # "repairing"
    BY <1>0 DEF QuietInv, AtWork, Serving
  <1>5. ASSUME NEW t \in Thread, AcquireLock(t) \/ ReleaseLock(t)
        PROVE  Goal
    BY <1>3, <1>4, <1>5 DEF AcquireLock, ReleaseLock, envVars
  <1>6. ASSUME NEW t \in Thread, TruncateBackup(t) \/ WriteBackup(t)
        PROVE  Goal
    BY <1>0, <1>1, <1>4, <1>6 DEF TruncateBackup, WriteBackup, envVars
  <1>7. ASSUME NEW t \in Thread, RenameFile(t)
        PROVE  Goal
    BY <1>0, <1>4, <1>7 DEF RenameFile
  <1>8. ASSUME NEW t \in Thread, SaveFails(t)
        PROVE  FALSE
    BY <1>8 DEF SaveFails
  <1>9. ASSUME NEW t \in Saver, ManualPersist(t)
        PROVE  Goal
    <2>1. t \in Thread /\ server' # "repairing"
      BY <1>9 DEF ManualPersist, Thread, Serving
    <2> QED
      BY <1>3, <1>9, <2>1 DEF ManualPersist, diskVars, envVars
  <1>10. CASE LoopSaves \/ RestoreSaves \/ ShutdownSaves \/ LoopCloses
    BY <1>3, <1>10 DEF LoopSaves, RestoreSaves, ShutdownSaves, LoopCloses, Thread, diskVars,
                       envVars
  <1>11. CASE AppEvent \/ LoopReceives \/ StartServing \/ Close
    BY <1>2, <1>11 DEF AppEvent, LoopReceives, StartServing, Close, diskVars, envVars, Serving
  <1>12. CASE BootFresh \/ BootLoads \/ BootFails \/ ReplaceState
    BY <1>2, <1>12 DEF BootFresh, BootLoads, BootFails, ReplaceState, diskVars, envVars
  <1>13. CASE BootRepairs
    <2>1. damages' # 0 /\ LatestBackup' = LatestBackup /\ LatestBackup.form = "whole"
      BY <1>1, <1>13, SameLatest DEF BootRepairs, envVars
    <2>2. \A t \in Thread : pc'[t] = "idle"
      BY <1>0, <1>13 DEF BootRepairs, QuietInv, AtWork, Serving
    <2> QED
      BY <2>1, <2>2
  <1>14. CASE RepairFile
    BY <1>1, <1>14 DEF RepairFile, envVars
  <1>15. CASE Exit \/ Crash
    BY <1>1, <1>15 DEF Exit, Crash, Ends, diskVars
  <1>16. CASE Tick
    BY <1>1, <1>16, SameLatest DEF Tick, diskVars
  <1>17. CASE DamageFile
    <2>1. damages' # 0 /\ UNCHANGED <<server, pc, backup>> /\ mu = Nobody
      BY <1>0, <1>17 DEF DamageFile
    <2>2. \A t \in Thread : pc[t] # "written"
      BY <1>0, <2>1, NobodyInside DEF Inside
    <2> QED
      BY <1>1, <2>1, <2>2, SameLatest
  <1> QED
    BY <1>5, <1>6, <1>7, <1>8, <1>9, <1>10, <1>11, <1>12, <1>13, <1>14, <1>15, <1>16, <1>17,
       NextCases

\* What is spared after a step was spared before it.
LEMMA StillSpared ==
    ASSUME ~IOMayFail, MaxDamages <= 1, Base, DamageInv, Next, Spared'
    PROVE  Spared
  <1> USE DEF Spared
  <1>0. /\ TypeOK /\ LockInv /\ damages \in Nat /\ MaxDamages \in Nat
        /\ \A t \in Thread : pc[t] = "written" => main.form = "whole"
        /\ server = "repairing" => LatestBackup.form = "whole"
    BY Bounds DEF Base, TypeOK, DamageInv
  <1>1. CASE UNCHANGED <<main, mu, damages, interrupted>>
    BY <1>1
  <1>2. ASSUME NEW t \in Thread, TruncateBackup(t) \/ WriteBackup(t) \/ Copies(t)
        PROVE  Spared
    BY <1>1, <1>2 DEF TruncateBackup, WriteBackup, Copies, diskVars, envVars
  <1>3. ASSUME NEW t \in Thread, AcquireLock(t) \/ RenameFile(t) \/ ReleaseLock(t)
        PROVE  Spared
    BY <1>0, <1>3, ConstantsAssumption DEF AcquireLock, RenameFile, ReleaseLock, envVars
  <1>4. ASSUME NEW t \in Thread, SaveFails(t)
        PROVE  Spared
    BY <1>4 DEF SaveFails
  <1>5. CASE Exit \/ Crash
    BY <1>5 DEF Exit, Crash, Ends, diskVars
  <1>6. CASE Tick \/ Elsewhere
    BY <1>1, <1>6 DEF Tick, Elsewhere, diskVars
  <1>7. CASE DamageFile
    BY <1>0, <1>7 DEF DamageFile
  <1>8. CASE BootRepairs \/ RepairFile
    <2>1. main' # main => main'.form # "altered"
      BY <1>0, <1>8 DEF BootRepairs, RepairFile, TypeOK
    <2>2. UNCHANGED <<mu, damages, interrupted>>
      BY <1>8 DEF BootRepairs, RepairFile, envVars
    <2> QED
      BY <2>1, <2>2
  <1> QED
    BY <1>2, <1>3, <1>4, <1>5, <1>6, <1>7, <1>8, SaveCases

\* A save backs up the whole file it replaces.
LEMMA ChainStep ==
    ASSUME ~IOMayFail, MaxDamages <= 1, Base, DamageInv, Next, Spared'
    PROVE  Chain'
  <1> USE DEF Chain
  <1>0. /\ Spared /\ Chain /\ TypeOK /\ LockInv /\ NameInv
        /\ damages = 0 => main.form \in {"absent", "whole"}
        /\ pc \in [Thread -> {"idle", "copied", "locked", "truncated", "backedUp", "written"}]
        /\ sec \in 0..MaxSec /\ backup \in [0..MaxSec -> File] /\ main \in File
    BY StillSpared DEF DamageInv, Base, TypeOK, File
  <1>1. ASSUME NEW t \in Thread, pc[t] \in Inside
        PROVE  /\ mu = t /\ damages = 0 /\ \A u \in Thread : u # t => pc[u] \notin Inside
               /\ main.form \in {"absent", "whole"}
    BY <1>0, <1>1, OneInside, ConstantsAssumption DEF Spared
  <1>2. ASSUME \A t \in Thread : pc'[t] \notin {"truncated", "backedUp"},
               \A t \in Thread : pc[t] \notin {"truncated", "backedUp"},
               UNCHANGED <<backup, previous>>, main' = main \/ main'.form # "absent",
               main'.ver = main.ver
        PROVE  Chain'
    BY <1>0, <1>2, SameLatest DEF LatestIsGood
  <1>3. ASSUME NEW t \in Thread, TruncateBackup(t)
        PROVE  Chain'
    <2>1. /\ pc[t] \in Inside /\ UNCHANGED <<main, sec>>
      BY <1>3 DEF TruncateBackup, Inside, envVars
    <2>2. \A u \in Thread : u # t => pc'[u] \notin Inside
      BY <1>0, <1>1, <1>3, <2>1 DEF TruncateBackup
    <2>3. CASE main.form = "absent"
      <3>1. Named' = {} /\ pc' = [pc EXCEPT ![t] = "backedUp"]
        BY <1>0, <1>3, <2>3, SameLatest DEF TruncateBackup
      <3> QED
        BY <1>0, <2>1, <2>2, <2>3, <3>1 DEF Inside
    <2>4. CASE main.form = "whole"
      <3>1. pc' = [pc EXCEPT ![t] = "truncated"]
        BY <1>3, <2>4 DEF TruncateBackup
      <3> QED
        BY <1>0, <2>1, <2>2, <2>4, <3>1 DEF Inside
    <2> QED
      BY <1>1, <2>1, <2>3, <2>4
  <1>4. ASSUME NEW t \in Thread, WriteBackup(t)
        PROVE  Chain'
    <2>1. pc[t] = "truncated" /\ pc[t] \in Inside /\ UNCHANGED <<main, sec>>
      BY <1>4 DEF WriteBackup, Inside, envVars
    <2>2. \A u \in Thread : u # t => pc'[u] \notin Inside
      BY <1>0, <1>1, <1>4, <2>1 DEF WriteBackup
    <2>3. pc' = [pc EXCEPT ![t] = "backedUp"] /\ backup'[sec] = main /\ main.form = "whole"
      BY <1>0, <1>4, <2>1 DEF WriteBackup
    <2> QED
      BY <1>0, <2>1, <2>2, <2>3 DEF Inside
  <1>5. ASSUME NEW t \in Thread, RenameFile(t)
        PROVE  Chain'
    <2>1. pc[t] = "backedUp" /\ pc[t] \in Inside
      BY <1>5 DEF RenameFile, Inside
    <2>2. \A u \in Thread : pc'[u] \notin {"truncated", "backedUp"}
      BY <1>0, <1>1, <1>5, <2>1 DEF RenameFile, Inside
    <2>3. Named' = Named /\ LatestBackup' = LatestBackup /\ main'.form = "whole"
          /\ previous' = main.ver
      BY <1>5, SameLatest DEF RenameFile
    <2>4. ASSUME Named # {}
          PROVE  LatestIsGood'
      <3>1. main.form = "whole" /\ backup[sec] = main
        BY <1>0, <1>1, <2>1, <2>4
      <3>2. LatestBackup = main
        BY <1>0, <3>1, LatestNow DEF Named
      <3> QED
        BY <2>3, <3>1, <3>2 DEF LatestIsGood
    <2> QED
      BY <2>2, <2>3, <2>4
  <1>6. ASSUME NEW t \in Thread, AcquireLock(t) \/ ReleaseLock(t) \/ Copies(t),
               UNCHANGED <<main, backup, sec, previous>>
        PROVE  Chain'
    <2>1. \A u \in Thread : /\ pc'[u] \in {"truncated", "backedUp"} => pc'[u] = pc[u]
                            /\ pc[u] \in {"truncated", "backedUp"} => pc'[u] = pc[u]
      BY <1>0, <1>6 DEF AcquireLock, ReleaseLock, Copies, CopyState
    <2>2. Named' = Named /\ (LatestIsGood' <=> LatestIsGood)
      BY <1>6, SameLatest DEF LatestIsGood
    <2>6. main' = main /\ backup' = backup /\ sec' = sec
      BY <1>6
    <2>3. ASSUME NEW u \in Thread, pc'[u] = "truncated"
          PROVE  main'.form = "whole"
      <3>1. pc[u] = "truncated"
        BY <2>1, <2>3
      <3> QED
        BY <1>0, <2>6, <3>1
    <2>4. ASSUME NEW u \in Thread, pc'[u] = "backedUp"
          PROVE  Named' = {} \/ backup'[sec'] = main'
      <3>1. pc[u] = "backedUp"
        BY <2>1, <2>4
      <3> QED
        BY <1>0, <2>2, <2>6, <3>1
    <2>5. (\A u \in Thread : pc'[u] \notin {"truncated", "backedUp"}) =>
          Named' = {} \/ LatestIsGood'
      BY <1>0, <2>1, <2>2
    <2> QED
      BY <1>0, <2>2, <2>3, <2>4, <2>5, <2>6
  <1>7. ASSUME NEW t \in Thread, AcquireLock(t) \/ ReleaseLock(t) \/ Copies(t)
        PROVE  Chain'
    BY <1>6, <1>7 DEF AcquireLock, ReleaseLock, Copies, diskVars, envVars
  <1>8. CASE Exit \/ Crash
    <2>1. mu = Nobody /\ UNCHANGED <<main, backup, previous>>
          /\ \A t \in Thread : pc'[t] = "idle"
      BY <1>8 DEF Exit, Crash, Ends, diskVars, Spared
    <2>2. \A t \in Thread : pc[t] \notin Inside
      BY <1>0, <2>1, NobodyInside
    <2> QED
      BY <1>2, <2>1, <2>2 DEF Inside
  <1>9. CASE Tick \/ DamageFile
    <2>1. mu = Nobody /\ UNCHANGED <<pc, backup, previous>>
      BY <1>9 DEF Tick, DamageFile, diskVars
    <2>2. main'.ver = main.ver /\ (main' = main \/ main'.form # "absent")
      BY <1>0, <1>9, ConstantsAssumption DEF Tick, DamageFile, diskVars, File
    <2>3. \A t \in Thread : pc[t] \notin Inside
      BY <1>0, <2>1, NobodyInside
    <2> QED
      BY <1>2, <2>1, <2>2, <2>3 DEF Inside
  <1>10. CASE Elsewhere
    BY <1>0, <1>10, SameLatest DEF Elsewhere, diskVars, LatestIsGood
  <1>11. CASE BootRepairs \/ RepairFile
    <2>1. damages # 0 /\ main'.form # "altered" /\ damages' = damages
      BY <1>0, <1>11 DEF BootRepairs, RepairFile, DamageInv, envVars, TypeOK
    <2> QED
      BY <2>1 DEF Spared
  <1>12. ASSUME NEW t \in Thread, SaveFails(t)
         PROVE  FALSE
    BY <1>12 DEF SaveFails
  <1> QED
    BY <1>3, <1>4, <1>5, <1>7, <1>8, <1>9, <1>10, <1>11, <1>12, SaveCases

\* Nothing is damaged before the first boot.
LEMMA DamageInit ==
    ASSUME Init
    PROVE  DamageInv
  <1>1. Named = {} /\ main.form = "absent" /\ \A t \in Thread : pc[t] = "idle"
    BY DEF Init, Named, Absent
  <1>2. Chain
    BY <1>1 DEF Chain
  <1> QED
    BY <1>1, <1>2 DEF Init, DamageInv

\* Every step keeps DamageInv, while the one damage there is is yet to be met.
LEMMA DamageStep ==
    ASSUME ~IOMayFail, MaxDamages <= 1, Base, DamageInv, [Next]_vars
    PROVE  DamageInv'
  <1>1. CASE UNCHANGED vars
    BY <1>1, SameLatest DEF vars, memVars, diskVars, envVars, DamageInv, Spared, Chain,
                            LatestIsGood
  <1>2. CASE Next
    BY <1>2, RepairStep, ChainStep DEF DamageInv
  <1> QED
    BY <1>1, <1>2

\* While no write fails, one damaged file is survived: unless a save is under way
\* or was cut short, the latest backup is whole and holds the version the damaged
\* file had, or the one before it.  With two it need not be: a server that goes on
\* saving after the first backs the damaged file up.
THEOREM DamageSurvived ==
    ASSUME ~IOMayFail, MaxDamages <= 1
    PROVE  Spec => []OneDamageIsSurvived
  <1>1. Init => Base /\ DamageInv
    BY BaseInit, DamageInit
  <1>2. Base /\ DamageInv /\ [Next]_vars => (Base /\ DamageInv)'
    BY BaseStep, DamageStep
  <1>3. ASSUME Base, DamageInv
        PROVE  OneDamageIsSurvived
    <2> SUFFICES ASSUME main.form = "altered", mu = Nobody, ~interrupted,
                        LatestBackup.form # "absent"
                 PROVE  LatestIsGood
      BY DEF OneDamageIsSurvived, LatestIsGood
    <2>1. \A t \in Thread : pc[t] \notin {"truncated", "backedUp"}
      BY <1>3, NobodyInside DEF Base, Inside
    <2>2. Named # {}
      BY DEF LatestBackup, Named, Absent
    <2> QED
      BY <1>3, <2>1, <2>2 DEF DamageInv, Spared, Chain
  <1> QED
    BY <1>1, <1>2, <1>3, PTL DEF Spec

----------------------------------------------------------------------------
(* The state file implements DurableState *)

\* Every saved version is one of those the promise allows, and nothing older
\* comes back: the ages of what memory, the copies and the file hold.
LEMMA AgeStep ==
    ASSUME ~SlowReplay, Damage = {}, Base, AgeInv, [Next]_vars
    PROVE  AgeInv'
  <1> USE DEF AgeInv
  <1>0. /\ TypeOK /\ QuietInv
        /\ pc \in [Thread -> {"idle", "copied", "locked", "truncated", "backedUp", "written"}]
        /\ copy \in [Thread -> 0..MaxVersion]
    BY DEF Base, TypeOK
  <1>1. CASE UNCHANGED <<server, mem, issued, loaded, pc, copy, main>>
    BY <1>1
  <1>2. CASE AppEvent
    BY <1>0, <1>2, Versions DEF AppEvent, diskVars
  <1>3. ASSUME NEW t \in Thread,
               AcquireLock(t) \/ TruncateBackup(t) \/ WriteBackup(t) \/ SaveFails(t)
               \/ ReleaseLock(t)
        PROVE  AgeInv'
    <2>1. UNCHANGED <<server, mem, issued, loaded, copy, main>> /\ pc[t] # "idle"
      BY <1>3 DEF AcquireLock, TruncateBackup, WriteBackup, SaveFails, ReleaseLock, memVars,
                  diskVars
    <2>2. \A u \in Thread : pc'[u] \in Before => pc[u] \in Before
      BY <1>0, <1>3 DEF AcquireLock, TruncateBackup, WriteBackup, SaveFails, ReleaseLock, Before
    <2> QED
      BY <2>1, <2>2
  <1>4. ASSUME NEW t \in Thread, RenameFile(t)
        PROVE  AgeInv'
    <2>1. /\ main'.form = "whole" /\ main'.ver = copy[t] /\ copy[t] <= issued
          /\ pc[t] # "idle" /\ server \in Serving
      BY <1>0, <1>4 DEF RenameFile, Before
    <2>2. UNCHANGED <<server, mem, issued, loaded, copy>>
          /\ \A u \in Thread : pc'[u] \in Before => pc[u] \in Before
      BY <1>0, <1>4 DEF RenameFile, memVars, Before
    <2> QED
      BY <2>1, <2>2 DEF Serving
  <1>5. ASSUME NEW t \in Thread, CopyState(t), server \in Serving, server' \in Serving,
               UNCHANGED <<mem, issued, loaded, main>>
        PROVE  AgeInv'
    BY <1>0, <1>5, Versions DEF CopyState, Serving
  <1>6. ASSUME NEW t \in Saver, ManualPersist(t)
        PROVE  AgeInv'
    BY <1>5, <1>6 DEF ManualPersist, Thread, memVars, diskVars
  <1>7. CASE LoopSaves \/ RestoreSaves \/ ShutdownSaves \/ LoopCloses
    BY <1>5, <1>7 DEF LoopSaves, RestoreSaves, ShutdownSaves, LoopCloses, Thread, memVars,
                      diskVars, Serving
  <1>8. CASE BootFresh \/ BootFails
    <2>1. /\ mem' = 0 /\ loaded' = 0 /\ server' \in Serving
          /\ UNCHANGED <<issued, pc, copy, main>>
      BY <1>8 DEF BootFresh, BootFails, Serving, diskVars
    <2>2. \A t \in Thread : pc[t] = "idle"
      BY <1>8 DEF BootFresh, BootFails, Serving
    <2> QED
      BY <1>0, <2>1, <2>2, Versions DEF Serving, Before
  <1>9. CASE BootLoads
    <2>1. /\ mem' = 0 /\ loaded' = main.ver /\ server' = "replaying"
          /\ UNCHANGED <<issued, pc, copy, main>> /\ main.form = "whole"
      BY <1>9 DEF BootLoads, diskVars
    <2>2. \A t \in Thread : pc[t] = "idle"
      BY <1>9 DEF BootLoads, Serving
    <2> QED
      BY <1>0, <2>1, <2>2, Versions DEF Serving, Before
  <1>10. CASE BootRepairs \/ RepairFile
    BY <1>10 DEF BootRepairs, RepairFile
  <1>11. CASE ReplaceState
    <2>1. /\ mem' = loaded /\ server = "replaying" /\ server' = "restored"
          /\ UNCHANGED <<issued, loaded, pc, copy, main>>
      BY <1>11 DEF ReplaceState, diskVars
    <2> QED
      BY <1>0, <2>1, Versions DEF Serving
  <1>12. CASE StartServing \/ Close
    BY <1>12 DEF StartServing, Close, memVars, diskVars, Serving
  <1>13. CASE Exit \/ Crash
    BY <1>0, <1>13 DEF Exit, Crash, Ends, diskVars, Serving, Before
  <1>14. CASE LoopReceives \/ Tick \/ DamageFile \/ UNCHANGED vars
    BY <1>1, <1>14 DEF LoopReceives, Tick, DamageFile, vars, memVars, diskVars
  <1> QED
    BY <1>2, <1>3, <1>4, <1>6, <1>7, <1>8, <1>9, <1>10, <1>11, <1>12, <1>13, <1>14, NextCases

\* What the promise sees of the server.
Memory == IF server \in Serving THEN mem ELSE -1
Booted == IF server \in Serving THEN loaded ELSE -1
Stored == IF main.form = "absent" THEN -2 ELSE main.ver

\* A step that the promise does not see.
LEMMA Unseen ==
    ASSUME UNCHANGED <<mem, loaded, main, issued>>,
           server' = server \/ (server \in Serving <=> server' \in Serving)
    PROVE  UNCHANGED <<Memory, Booted, Stored, issued>>
  BY DEF Memory, Booted, Stored

\* Every step of the server is a step of the promise, or unseen.
LEMMA StepImplements ==
    ASSUME ~SlowReplay, Damage = {}, Base, AgeInv, [Next]_vars
    PROVE  Durable!Next \/ UNCHANGED <<Memory, Booted, Stored, issued>>
  <1> DEFINE Seen == Durable!Next \/ UNCHANGED <<Memory, Booted, Stored, issued>>
  <1> SUFFICES Seen
    OBVIOUS
  <1> USE DEF Memory, Booted, Stored, Durable!Gone, Durable!None
  <1>0. /\ TypeOK
        /\ pc \in [Thread -> {"idle", "copied", "locked", "truncated", "backedUp", "written"}]
        /\ mem \in Nat /\ issued \in Nat /\ loaded \in Nat /\ main.ver \in Nat
        /\ \A t \in Thread : copy[t] \in Nat
    BY Versions DEF Base, TypeOK
  <1>1. ASSUME UNCHANGED <<mem, loaded, main, issued>>,
               server' = server \/ (server \in Serving <=> server' \in Serving)
        PROVE  Seen
    BY <1>1, Unseen
  <1>2. CASE AppEvent
    <2>1. Durable!Change
      BY <1>0, <1>2 DEF AppEvent, Durable!Change, diskVars
    <2> QED
      BY <2>1 DEF Durable!Next
  <1>3. ASSUME NEW t \in Thread, RenameFile(t)
        PROVE  Seen
    <2>1. /\ pc[t] \in Before /\ server \in Serving /\ server' = server
          /\ UNCHANGED <<mem, loaded, issued>> /\ main' = [ver |-> copy[t], form |-> "whole"]
      BY <1>0, <1>3 DEF RenameFile, Before, AgeInv, memVars
    <2>2. copy[t] \in 0..issued /\ copy[t] >= loaded
      BY <1>0, <2>1 DEF AgeInv
    <2>3. Durable!Save
      BY <1>0, <2>1, <2>2 DEF Durable!Save
    <2> QED
      BY <2>3 DEF Durable!Next
  <1>4. CASE BootFresh \/ BootFails
    <2>1. /\ mem' = 0 /\ loaded' = 0 /\ server' \in Serving /\ server \notin Serving
          /\ main' = main /\ issued' = issued /\ main.form = "absent"
      BY <1>4 DEF BootFresh, BootFails, Serving, diskVars, AgeInv
    <2>2. Durable!Reboot
      BY <2>1 DEF Durable!Reboot
    <2> QED
      BY <2>2 DEF Durable!Next
  <1>5. CASE ReplaceState
    <2>1. /\ mem' = loaded /\ loaded' = loaded /\ server' \in Serving /\ server \notin Serving
          /\ main' = main /\ issued' = issued /\ main.form = "whole" /\ loaded = main.ver
      BY <1>5 DEF ReplaceState, Serving, diskVars, AgeInv
    <2>2. Durable!Reboot
      BY <1>0, <2>1 DEF Durable!Reboot
    <2> QED
      BY <2>2 DEF Durable!Next
  <1>6. CASE Exit \/ Crash
    <2>1. server' \notin Serving /\ UNCHANGED <<main, issued>>
      BY <1>6 DEF Exit, Crash, Serving, diskVars
    <2>2. CASE server \in Serving
      <3>1. Durable!Stop
        BY <1>0, <2>1, <2>2 DEF Durable!Stop
      <3> QED
        BY <3>1 DEF Durable!Next
    <2>3. CASE server \notin Serving
      BY <2>1, <2>3
    <2> QED
      BY <2>2, <2>3
  <1>7. CASE BootLoads \/ BootRepairs \/ RepairFile
    <2>1. server \notin Serving /\ server' \notin Serving /\ UNCHANGED issued
      BY <1>7 DEF BootLoads, BootRepairs, RepairFile, Serving
    <2>2. main' = main
      BY <1>7 DEF BootLoads, BootRepairs, RepairFile, AgeInv, diskVars
    <2> QED
      BY <2>1, <2>2
  <1>8. ASSUME NEW t \in Thread,
               AcquireLock(t) \/ TruncateBackup(t) \/ WriteBackup(t) \/ SaveFails(t)
               \/ ReleaseLock(t) \/ ManualPersist(t)
        PROVE  Seen
    BY <1>1, <1>8 DEF AcquireLock, TruncateBackup, WriteBackup, SaveFails, ReleaseLock,
                      ManualPersist, memVars, diskVars
  <1>9. CASE RestoreSaves \/ StartServing \/ ShutdownSaves \/ Close \/ LoopCloses
    BY <1>1, <1>9 DEF RestoreSaves, StartServing, ShutdownSaves, Close, LoopCloses, Serving,
                      memVars, diskVars
  <1>10. CASE LoopReceives \/ LoopSaves \/ Tick \/ UNCHANGED vars
    BY <1>1, <1>10 DEF LoopReceives, LoopSaves, Tick, vars, memVars, diskVars
  <1>11. CASE DamageFile
    BY <1>11 DEF DamageFile
  <1> QED
    BY <1>2, <1>3, <1>4, <1>5, <1>6, <1>7, <1>8, <1>9, <1>10, <1>11, NextCases DEF Thread

\* While files are not damaged from outside and a replay is over within the batch
\* delay, the state file keeps the promise of DurableState across every crash and
\* reboot: it holds one whole version, a reboot finds exactly that version, and
\* no save brings back one from before the boot.
THEOREM Implements ==
    ASSUME ~SlowReplay, Damage = {}
    PROVE  Spec => DurableSpec
  <1>1. Init => Base /\ AgeInv
    <2>1. Init => AgeInv
      BY DEF Init, AgeInv, Serving, Before, Absent
    <2> QED
      BY <2>1, BaseInit
  <1>2. Base /\ AgeInv /\ [Next]_vars => (Base /\ AgeInv)'
    BY BaseStep, AgeStep
  <1>3. Init => Durable!Init
    BY DEF Init, Durable!Init, Durable!Gone, Durable!None, Serving, Absent
  <1>4. Base /\ AgeInv /\ [Next]_vars =>
            [Durable!Next]_<<IF server \in Serving THEN mem ELSE -1,
                             IF server \in Serving THEN loaded ELSE -1,
                             IF main.form = "absent" THEN -2 ELSE main.ver, issued>>
    BY StepImplements DEF Memory, Booted, Stored
  <1> QED
    BY <1>1, <1>2, <1>3, <1>4, PTL DEF Spec, DurableSpec, Durable!Spec
=============================================================================
