------------------------ MODULE BootRestore_proofs ------------------------
(***************************************************************************)
(* Proofs about BootRestore, for any number of apps and of PIDs, any       *)
(* number of processes born and any clock: the authority to kill, final    *)
(* states, leases, and what becomes of the processes of the state file     *)
(* over crashes, boots and shutdowns.                                      *)
(***************************************************************************)
EXTENDS BootRestore, TLAPS

\* A record says that its app runs just when it has a PID.
Sound(r) == r # None => (r.status = "running" <=> r.pid # 0)

\* The apps that the boot, if there is one, has done with.
Settled(a) == Serving \/ (phase = "revive" /\ a \notin todo)

\* What each phase of the boot knows of an app that it has still to come to.
PhaseRight(a) ==
    /\ ~Settled(a) => manager[a] = None /\ armed[a] = 0
    /\ phase \in {"restore", "cleanup", "revive"} => a \notin stuck
    /\ phase = "restore" =>
        /\ a \in todo => loaded[a] # None /\ mem[a] = None /\ a \notin verified
        /\ mem[a] \in {None, loaded[a]}
    /\ phase = "cleanup" =>
        /\ mem[a] = None <=> loaded[a] = None
        /\ mem[a] # None => mem[a] = loaded[a] \/ mem[a].pid = 0
    /\ phase \in {"cleanup", "revive"} /\ a \in todo => mem[a] = loaded[a] /\ mem[a] # None

\* The manager of an app runs a process, and the one of the record, just when the
\* record says so, unless a stop has failed; and no deadline is but the record's.
RunsRight(a) ==
    /\ Recorded(a) <=> Running(a) \/ a \in stuck
    /\ Running(a) => a \notin stuck /\ manager[a].pid = mem[a].pid
    /\ armed[a] # 0 => mem[a] # None /\ armed[a] = mem[a].expires

AppRight(a) ==
    /\ Sound(file[a]) /\ Sound(loaded[a]) /\ Sound(mem[a])
    /\ PhaseRight(a)
    /\ Settled(a) => RunsRight(a)

\* A server that is down knows nothing.
DownInv == Down => todo = {} /\ verified = {} /\ mem = NoFile /\ loaded = NoFile

Types ==
    /\ proc \in [Pid -> Process \cup {None}] /\ births \in Birth /\ now \in 0..MaxTime
    /\ file \in [App -> Record \cup {None}]
    /\ phase \in {"off", "crashed", "restore", "cleanup", "revive", "serve", "stopping"}
    /\ todo \subseteq App
    /\ loaded \in [App -> Record \cup {None}] /\ mem \in [App -> Record \cup {None}]
    /\ queued \in BOOLEAN
    /\ verified \subseteq App
    /\ manager \in [App -> Manager \cup {None}]
    /\ armed \in [App -> 0..(MaxTime + 1)]
    /\ recorded \subseteq Birth /\ spared \subseteq Birth
    /\ stuck \subseteq App /\ plain \subseteq App

Base == Types /\ DownInv /\ \A a \in App : AppRight(a)

\* The deadline of an app that runs, once the boot has done with it.
LeaseRight(a) ==
    Recorded(a) /\ a \notin stuck /\ mem[a].expires # 0 =>
        \/ armed[a] = mem[a].expires
        \/ armed[a] = 0 /\ (a \in plain \/ (a \in AutoRestart /\ OutOfTime(mem[a])))
LeaseInv == \A a \in App : Settled(a) /\ phase # "stopping" => LeaseRight(a)

\* A final record in the file is final in memory, until requests are served.
Final(r) == r # None /\ Terminal(r)
FinalInv ==
    \A a \in App :
        /\ phase = "restore" => (Final(file[a]) => Final(loaded[a]))
        /\ phase \in {"cleanup", "revive"} => (Final(file[a]) => Final(mem[a]))

\* No two processes are born at once, and a record's identity is of no other app.
BirthInv ==
    /\ \A p \in Pid : proc[p] # None => proc[p].birth \in 1..births
    /\ \A p, q \in Pid :
        proc[p] # None /\ proc[q] # None /\ proc[p].birth = proc[q].birth => p = q
    /\ \A b \in recorded : b <= births
Owned(a, r) ==
    r # None => /\ r.id <= births
                /\ \A p \in Pid : proc[p] # None /\ proc[p].birth = r.id => proc[p].app = a
IdInv == \A a \in App : Owned(a, file[a]) /\ Owned(a, loaded[a]) /\ Owned(a, mem[a])

\* What is verified stays so until the app has its manager.
Earned(a, p) == Alive(p) => proc[p].app = a
AuthorityInv ==
    /\ \A a \in verified : ~Settled(a) => loaded[a] # None /\ Earned(a, loaded[a].pid)
    /\ \A a \in App : Running(a) /\ manager[a].authority => Earned(a, manager[a].pid)

\* Each of our processes that the file ever had, and that no stop has left alive,
\* is in the file; in what the boot has loaded; and in memory.
Names(r, p) ==
    r # None /\ r.status = "running" /\ r.pid = p /\ r.id \in {0, proc[p].birth}
Kept == {p \in Ours : proc[p].birth \in recorded \ spared}
KeptInv ==
    \A p \in Kept :
        /\ Names(file[proc[p].app], p)
        /\ phase \in {"restore", "cleanup"} => Names(loaded[proc[p].app], p)
        /\ phase \in {"cleanup", "revive"} \/ Serving => Names(mem[proc[p].app], p)

\* What a record that runs names, although a stop has failed, is spared: the record
\* in memory, and after a shutdown the one in the file.
Held(a) == IF phase = "off" THEN file[a] ELSE mem[a]
StuckInv ==
    \A a \in stuck, p \in Pid :
        proc[p] # None /\ proc[p].app = a /\ Held(a) # None /\ Held(a).pid = p =>
            proc[p].birth \in spared

\* The loop of StopAll leaves nothing that runs behind it.
StopInv ==
    /\ phase = "stopping" => \A a \in App \ todo : ~Running(a)
    /\ phase = "off" => \A a \in App : file[a] # None /\ file[a].status = "running" => a \in stuck

----------------------------------------------------------------------------
(* The parts of a step *)

\* A record that is stopped, or ended in another way.
LEMMA EndedRecord ==
    ASSUME NEW r \in Record, NEW s \in {"running", "stopped", "expired", "failed"}
    PROVE  /\ [r EXCEPT !.status = s, !.pid = 0] \in Record /\ [r EXCEPT !.status = s, !.pid = 0] # None
           /\ [r EXCEPT !.status = s, !.pid = 0].status = s
           /\ [r EXCEPT !.status = s, !.pid = 0].pid = 0
           /\ [r EXCEPT !.status = s, !.pid = 0].id = r.id
           /\ [r EXCEPT !.status = s, !.pid = 0].expires = r.expires
  BY NoneAssumption DEF Record

\* A record that is found to run.
LEMMA FoundRecord ==
    ASSUME NEW r \in Record
    PROVE  /\ [r EXCEPT !.status = "running"] \in Record /\ [r EXCEPT !.status = "running"] # None
           /\ [r EXCEPT !.status = "running"].status = "running"
           /\ [r EXCEPT !.status = "running"].pid = r.pid
           /\ [r EXCEPT !.status = "running"].id = r.id
           /\ [r EXCEPT !.status = "running"].expires = r.expires
  BY NoneAssumption DEF Record

\* A final record that loses its PID.
LEMMA FinalRecord ==
    ASSUME NEW r \in Record
    PROVE  /\ [r EXCEPT !.pid = 0] \in Record /\ [r EXCEPT !.pid = 0] # None
           /\ [r EXCEPT !.pid = 0].status = r.status
           /\ [r EXCEPT !.pid = 0].pid = 0
           /\ [r EXCEPT !.pid = 0].id = r.id
  BY NoneAssumption DEF Record

\* The bounds are numbers.
LEMMA Bounds ==
    /\ MaxBirth \in Nat /\ MaxTime \in Nat
    /\ 0 \notin Pid /\ Stranger \notin App
  BY ConstantsAssumption

\* What may be known of the process that is spawned.
LEMMA SpawnedIs ==
    ASSUME Types, NEW a \in App \cup {Stranger}, NEW p \in Pid, Spawned(a, p)
    PROVE  /\ proc[p] = None /\ proc'[p] # None
           /\ proc'[p].app = a /\ proc'[p].birth = births + 1
           /\ \A q \in Pid : q # p => proc'[q] = proc[q]
           /\ births' = births + 1 /\ births' \in Birth
           /\ proc' \in [Pid -> Process \cup {None}]
           /\ PidsComeRound \/ ~Remembered(p)
  <1>1. births + 1 \in Birth
    BY Bounds DEF Spawned, Types, Birth
  <1>2. [app |-> a, birth |-> births + 1] \in Process
    BY <1>1 DEF Process
  <1> QED
    BY <1>1, <1>2, NoneAssumption DEF Spawned, Free, Types

\* And of the app that is started: its manager and its record.
NewManager(p) == [running |-> TRUE, pid |-> p, authority |-> TRUE, watched |-> TRUE]
NewRecord(a, p, e) ==
    [status |-> "running", pid |-> p, expires |-> e, id |-> IF a \in Blind THEN 0 ELSE births + 1]

\* The manager and the record of an app that has been started.
LEMMA StartedIs ==
    ASSUME Types, NEW a \in App, NEW p \in Pid, NEW e \in 0..(MaxTime + 1), Started(a, p, e)
    PROVE  /\ Spawned(a, p) /\ queued' = TRUE
           /\ NewManager(p) \in Manager /\ NewManager(p) # None
           /\ NewManager(p).running /\ NewManager(p).pid = p
           /\ manager' = [manager EXCEPT ![a] = NewManager(p)]
           /\ NewRecord(a, p, e) \in Record /\ NewRecord(a, p, e) # None
           /\ NewRecord(a, p, e).status = "running" /\ NewRecord(a, p, e).pid = p
           /\ NewRecord(a, p, e).expires = e
           /\ NewRecord(a, p, e).id \in {0, births + 1}
           /\ mem' = [mem EXCEPT ![a] = NewRecord(a, p, e)]
           /\ stuck' = stuck \ {a}
  <1>0. Spawned(a, p) /\ stuck' = stuck \ {a} /\ a \in App \cup {Stranger}
    BY DEF Started
  <1>1. births + 1 \in Birth /\ 0 \in Birth
    <2>1. births' = births + 1 /\ births' \in Birth
      BY <1>0, SpawnedIs
    <2> QED
      BY <2>1, Bounds DEF Birth
  <1>2. NewManager(p) \in Manager /\ NewRecord(a, p, e) \in Record
    BY <1>1 DEF Manager, Record, NewManager, NewRecord
  <1>3. /\ NewManager(p).running /\ NewManager(p).pid = p
        /\ NewRecord(a, p, e).status = "running" /\ NewRecord(a, p, e).pid = p
        /\ NewRecord(a, p, e).expires = e
        /\ NewRecord(a, p, e).id \in {0, births + 1}
    BY DEF NewManager, NewRecord
  <1>4. /\ manager' = [manager EXCEPT ![a] = NewManager(p)] /\ queued' = TRUE
        /\ mem' = [mem EXCEPT ![a] = NewRecord(a, p, e)]
    BY DEF Started, Announced, Set, NewManager, NewRecord
  <1> QED
    BY <1>0, <1>2, <1>3, <1>4, NoneAssumption

\* A stop kills a process, or has to leave it, or fails to kill it.
Disposed(m) == Killed(m) \/ KillFails(m)
LEMMA KilledIs ==
    ASSUME Types, NEW m, Disposed(m), m.pid \in Pid \cup {0}
    PROVE  /\ \A q \in Pid : proc'[q] = proc[q] \/ (q = m.pid /\ proc'[q] = None)
           /\ Alive(m.pid) => proc'[m.pid] = None \/ proc[m.pid].birth \in spared'
           /\ proc' \in [Pid -> Process \cup {None}]
           /\ spared \subseteq spared' /\ spared' \subseteq Birth
  <1>1. CASE Killed(m)
    BY <1>1 DEF Killed, Types, Alive, Process
  <1>2. CASE KillFails(m)
    BY <1>2 DEF KillFails, Types, Alive, Process
  <1> QED
    BY <1>1, <1>2 DEF Disposed

\* The steps that end an app whose manager runs: its record says how.
Ending(a, s) == EndsAs(a, s) \/ (s = "failed" /\ CleanupFails(a))

\* The manager and the record of an app that has ended.
LEMMA EndingIs ==
    ASSUME Base, NEW a \in App, Settled(a),
           NEW s \in {"stopped", "expired", "failed"}, Ending(a, s)
    PROVE  /\ Running(a) /\ manager[a].pid = mem[a].pid
           /\ Disposed(manager[a]) /\ manager[a] \in Manager
           /\ \E m \in Manager : ~m.running /\ manager' = [manager EXCEPT ![a] = m]
           /\ \E r \in Record : /\ r.status = s /\ r.pid = 0 /\ r.id = mem[a].id /\ r # None
                                /\ r.expires = mem[a].expires /\ mem' = [mem EXCEPT ![a] = r]
           /\ queued' = TRUE /\ mem[a] \in Record
           /\ UNCHANGED <<births, now, file, loaded, verified, recorded, stuck, plain>>
  <1>1. /\ Running(a) /\ Disposed(manager[a]) /\ manager[a] \in Manager
        /\ UNCHANGED <<births, now, file, loaded, verified, recorded, stuck, plain>>
        /\ Halts(a) /\ RecordEnds(a, s)
    BY DEF Ending, EndsAs, CleanupFails, Disposed, Running, Base, Types, spells
  <1>2. [manager[a] EXCEPT !.running = FALSE] \in Manager
        /\ ~[manager[a] EXCEPT !.running = FALSE].running
    BY <1>1 DEF Manager
  <1>3. mem[a] # None /\ mem[a] \in Record /\ manager[a].pid = mem[a].pid
    BY <1>1 DEF Base, Types, AppRight, RunsRight, Recorded
  <1> DEFINE r == [mem[a] EXCEPT !.status = s, !.pid = 0]
  <1>4. manager' = [manager EXCEPT ![a] = [manager[a] EXCEPT !.running = FALSE]]
        /\ mem' = [mem EXCEPT ![a] = r] /\ queued' = TRUE
    BY <1>1 DEF Halts, RecordEnds, Announced, Set
  <1>5. r \in Record /\ r.status = s /\ r.pid = 0 /\ r.id = mem[a].id /\ r # None
        /\ r.expires = mem[a].expires
    <2>1. s \in {"running", "stopped", "expired", "failed"}
      OBVIOUS
    <2> QED
      BY <1>3, <2>1, EndedRecord
  <1> HIDE DEF r
  <1> QED
    BY <1>1, <1>2, <1>3, <1>4, <1>5

\* A stop that fails leaves the record as it was.
LEMMA StopFailsIs ==
    ASSUME Base, NEW a \in App, Settled(a), StopFails(a)
    PROVE  /\ Running(a) /\ manager[a].pid = mem[a].pid /\ Recorded(a)
           /\ Disposed(manager[a]) /\ manager[a] \in Manager
           /\ \E m \in Manager : ~m.running /\ manager' = [manager EXCEPT ![a] = m]
           /\ stuck' = stuck \cup {a} /\ proc' = proc
           /\ UNCHANGED <<births, now, file, loaded, mem, queued, verified, recorded, plain>>
  <1>1. /\ Running(a) /\ KillFails(manager[a]) /\ manager[a] \in Manager /\ Halts(a)
        /\ stuck' = stuck \cup {a}
        /\ UNCHANGED <<births, now, file, loaded, mem, queued, verified, recorded, plain>>
    BY DEF StopFails, Running, Base, Types
  <1>2. [manager[a] EXCEPT !.running = FALSE] \in Manager
        /\ ~[manager[a] EXCEPT !.running = FALSE].running
    BY <1>1 DEF Manager
  <1>3. Recorded(a) /\ manager[a].pid = mem[a].pid
    BY <1>1 DEF Base, AppRight, RunsRight, Recorded
  <1> QED
    BY <1>1, <1>2, <1>3 DEF Halts, Set, Disposed, KillFails

\* A lease that ends after a stop has failed ends in the record only.
LEMMA UnmanagedIs ==
    ASSUME Base, NEW a \in App, Settled(a), Recorded(a), ExpiresUnmanaged(a)
    PROVE  /\ ~Running(a) /\ a \in stuck /\ stuck' = stuck \ {a}
           /\ \E r \in Record : /\ r.status = "expired" /\ r.pid = 0 /\ r.id = mem[a].id /\ r # None
                                /\ r.expires = mem[a].expires /\ mem' = [mem EXCEPT ![a] = r]
           /\ queued' = TRUE /\ mem[a] \in Record /\ mem[a] # None
           /\ UNCHANGED <<proc, births, now, file, loaded, verified, manager, recorded, spared, plain>>
  <1>1. /\ ~Running(a) /\ stuck' = stuck \ {a} /\ RecordEnds(a, "expired")
        /\ UNCHANGED <<proc, births, now, file, loaded, verified, manager, recorded, spared, plain>>
    BY DEF ExpiresUnmanaged, osVars
  <1>2. mem[a] \in Record /\ mem[a] # None /\ a \in stuck
    BY <1>1 DEF Recorded, Base, Types, AppRight, RunsRight, Recorded
  <1> DEFINE r == [mem[a] EXCEPT !.status = "expired", !.pid = 0]
  <1>3. r \in Record /\ r.status = "expired" /\ r.pid = 0 /\ r.id = mem[a].id /\ r # None
        /\ r.expires = mem[a].expires
    BY <1>2, EndedRecord
  <1>4. mem' = [mem EXCEPT ![a] = r] /\ queued' = TRUE
    BY <1>1 DEF RecordEnds, Announced, Set
  <1> HIDE DEF r
  <1> QED
    BY <1>1, <1>2, <1>3, <1>4

\* What a stop, a lease's end and StopAll come to.
Idle == UNCHANGED <<proc, births, now, file, loaded, mem, queued, verified, manager, recorded, spared,
                    stuck, plain>>
LEMMA EndCases ==
    ASSUME NEW a \in App, Stop(a) \/ TtlFires(a) \/ StopAll(a)
    PROVE  /\ Serving /\ phase' = phase /\ todo' \in {todo, todo \ {a}}
           /\ armed' \in {armed, [armed EXCEPT ![a] = 0]}
           /\ \/ \E s \in {"stopped", "expired", "failed"} : Ending(a, s)
              \/ StopFails(a)
              \/ Recorded(a) /\ ExpiresUnmanaged(a)
              \/ Idle /\ (armed' = armed \/ ~Recorded(a) \/ ~Running(a))
  <1>1. CASE Stop(a)
    BY <1>1 DEF Stop, Serving, Ending, Set, Idle, osVars, history, spells
  <1>2. CASE TtlFires(a)
    <2>1. /\ Serving /\ phase' = phase /\ todo' = todo /\ armed' = [armed EXCEPT ![a] = 0]
      BY <1>2 DEF TtlFires, Serving, Set
    <2>2. \/ Ending(a, "expired") \/ Ending(a, "failed")
          \/ Recorded(a) /\ ExpiresUnmanaged(a)
          \/ Idle /\ ~Recorded(a)
      BY <1>2 DEF TtlFires, Expires, Ending, Idle, osVars, history, spells
    <2> QED
      BY <2>1, <2>2
  <1>3. CASE StopAll(a)
    BY <1>3 DEF StopAll, Serving, Ending, Idle, osVars, history, spells
  <1> QED
    BY <1>1, <1>2, <1>3

\* The steps there are.
LEMMA NextCases ==
    ASSUME Next
    PROVE  \/ ProcessExits \/ PidIsReused \/ HostRestarts \/ TimePasses
           \/ Batch \/ Load \/ ReplaceState \/ CleanedUp \/ Serve
           \/ \E a \in App : RestoreTerminal(a) \/ RestoreDead(a) \/ RestoreReused(a)
                             \/ RestoreVerified(a) \/ RestoreUnverified(a)
           \/ \E a \in App : Cleanup(a)
           \/ \E a \in App : ReviveKeeps(a)
           \/ \E a \in App : ReviveExpires(a)
           \/ \E a \in App : ReviveStarts(a)
           \/ \E a \in App : ReviveFails(a)
           \/ \E a \in App : Apply(a)
           \/ \E a \in App : Start(a)
           \/ \E a \in App : Stop(a) \/ TtlFires(a) \/ StopAll(a)
           \/ \E a \in App : ExitIsSeen(a)
           \/ Shutdown \/ ShutDown \/ Crash
  BY DEF Next, Boot

----------------------------------------------------------------------------
(* Types, the phases of a boot, and what the managers run *)

\* TypeOK says two things more, which follow.
LEMMA BaseTypes ==
    ASSUME Base
    PROVE  TypeOK
  <1>1. ASSUME NEW a \in App
        PROVE  /\ manager[a] # None /\ manager[a].running => manager[a].pid # 0
               /\ mem[a] # None => (mem[a].status = "running" <=> mem[a].pid # 0)
    BY DEF Base, AppRight, PhaseRight, RunsRight, Recorded, Running, Sound
  <1> QED
    BY <1>1 DEF Base, Types, TypeOK

\* An app that a step does not touch.
LEMMA Untouched ==
    ASSUME NEW a \in App, AppRight(a),
           phase' = phase, file'[a] = file[a], loaded'[a] = loaded[a], mem'[a] = mem[a],
           manager'[a] = manager[a], armed'[a] = armed[a],
           a \in todo' <=> a \in todo, a \in verified' => a \in verified,
           a \in stuck' <=> a \in stuck
    PROVE  AppRight(a)'
  BY DEF AppRight, Sound, PhaseRight, RunsRight, Recorded, Settled, Serving, Running

\* The operating system does not touch what the server knows.
LEMMA OsStep ==
    ASSUME Base, ProcessExits \/ PidIsReused \/ HostRestarts \/ TimePasses
    PROVE  Base'
  <1> USE DEF osVars, booting, history, spells
  <1>1. UNCHANGED <<file, phase, todo, loaded, mem, queued, verified, manager, armed, recorded, spared, stuck, plain>>
    BY DEF ProcessExits, PidIsReused, HostRestarts, TimePasses
  <1>2. proc' \in [Pid -> Process \cup {None}] /\ births' \in Birth /\ now' \in 0..MaxTime
    <2>1. CASE ProcessExits
      BY <2>1 DEF ProcessExits, Base, Types
    <2>2. CASE PidIsReused
      BY <2>2, SpawnedIs DEF PidIsReused, Base, Types
    <2>3. CASE HostRestarts \/ TimePasses
      BY <2>3, Bounds DEF HostRestarts, TimePasses, Base, Types
    <2> QED
      BY <2>1, <2>2, <2>3
  <1>3. \A a \in App : AppRight(a)'
    BY <1>1, Untouched DEF Base
  <1> QED
    BY <1>1, <1>2, <1>3 DEF Base, Types, DownInv, Down

\* What is saved is what memory holds.
LEMMA PersistedIs ==
    ASSUME Types, Persisted(mem)
    PROVE  file' = mem /\ recorded' \subseteq Birth /\ recorded \subseteq recorded'
  <1>1. ASSUME NEW a \in Apps(mem), Known(a, mem[a])
        PROVE  proc[mem[a].pid].birth \in Birth
    <2>1. mem[a].pid \in Pid /\ proc[mem[a].pid] \in Process
      BY <1>1 DEF Known, Alive, Types, Apps, Record
    <2> QED
      BY <2>1 DEF Process
  <1> QED
    BY <1>1 DEF Persisted, Types, Apps

\* A save keeps Base: the file gets the records of memory.
LEMMA BatchStep ==
    ASSUME Base, Batch
    PROVE  Base'
  <1> USE DEF osVars, booting
  <1>1. /\ file' = mem /\ recorded' \subseteq Birth
        /\ UNCHANGED <<proc, births, now, phase, todo, loaded, mem, verified, manager, armed, spared, stuck, plain>>
        /\ queued' \in BOOLEAN
    BY PersistedIs DEF Batch, spells, Base
  <1>2. ASSUME NEW a \in App
        PROVE  AppRight(a)'
    BY <1>1 DEF Base, AppRight, Sound, PhaseRight, RunsRight, Recorded, Settled, Serving, Running
  <1> QED
    BY <1>1, <1>2 DEF Base, Types, DownInv, Down

\* A boot begins with what the file says, and nothing else.
LEMMA LoadStep ==
    ASSUME Base, Load
    PROVE  Base'
  <1> USE DEF osVars, booting, history, spells
  <1>1. Types'
    BY DEF Load, Base, Types, Apps, NoFile
  <1>2. ASSUME NEW a \in App
        PROVE  AppRight(a)'
    BY DEF Load, Base, DownInv, Down, AppRight, Sound, PhaseRight, RunsRight, Recorded, Settled, Serving, Running,
           Apps, NoFile
  <1> QED
    BY <1>1, <1>2 DEF Base, Load, DownInv, Down

\* What Restore makes of one app: a final record stays final, one that runs has
\* its PID still, and whatever else there was is stopped.
LEMMA RestoredIs ==
    ASSUME Base, NEW a \in App,
           \/ RestoreTerminal(a) \/ RestoreDead(a) \/ RestoreReused(a)
           \/ RestoreVerified(a) \/ RestoreUnverified(a)
    PROVE  /\ phase = "restore" /\ a \in todo /\ loaded[a] # None /\ loaded[a] \in Record
           /\ todo' = todo \ {a}
           /\ UNCHANGED <<proc, births, now, file, phase, manager, armed, recorded, spared, stuck, plain>>
           /\ verified' = verified \/ (verified' = verified \cup {a} /\ RestoreVerified(a))
           /\ \E r \in Record :
                /\ r # None /\ Sound(r) /\ r.id = loaded[a].id
                /\ loaded' = [loaded EXCEPT ![a] = r]
                /\ r.status = loaded[a].status \/ (r.status \in {"running", "stopped"} /\ ~Terminal(loaded[a]))
                /\ r.pid = loaded[a].pid \/ r.pid = 0
                /\ (mem' = mem /\ queued' = queued) \/ (mem' = [mem EXCEPT ![a] = r] /\ queued' = TRUE)
  <1> USE DEF Restored, Announced, Set, Restoring, osVars, history, spells
  <1>1. /\ phase = "restore" /\ a \in todo /\ todo' = todo \ {a}
        /\ UNCHANGED <<proc, births, now, file, phase, manager, armed, recorded, spared, stuck, plain>>
    BY DEF RestoreTerminal, RestoreDead, RestoreReused, RestoreVerified, RestoreUnverified
  <1>2. loaded[a] # None /\ loaded[a] \in Record /\ Sound(loaded[a])
    BY <1>1 DEF Base, AppRight, PhaseRight, Types
  <1>3. CASE RestoreTerminal(a)
    <2>1. [loaded[a] EXCEPT !.pid = 0].status # "running"
      BY <1>2, <1>3, FinalRecord DEF RestoreTerminal, Terminal
    <2> QED
      BY <1>1, <1>2, <1>3, <2>1, FinalRecord DEF RestoreTerminal, Sound
  <1>4. CASE RestoreDead(a) \/ RestoreReused(a)
    <2> DEFINE r == [loaded[a] EXCEPT !.status = "stopped", !.pid = 0]
    <2>1. r \in Record /\ r # None /\ r.status = "stopped" /\ r.pid = 0 /\ r.id = loaded[a].id
      BY <1>2, EndedRecord
    <2>2. /\ ~Terminal(loaded[a]) /\ verified' = verified
          /\ loaded' = [loaded EXCEPT ![a] = r] /\ mem' = [mem EXCEPT ![a] = r] /\ queued' = TRUE
      BY <1>4 DEF RestoreDead, RestoreReused, Stopped
    <2> HIDE DEF r
    <2> QED
      BY <1>1, <1>2, <2>1, <2>2 DEF Sound
  <1>5. CASE RestoreVerified(a) \/ RestoreUnverified(a)
    <2> DEFINE r == [loaded[a] EXCEPT !.status = "running"]
    <2>1. /\ r \in Record /\ r # None /\ r.status = "running" /\ r.pid = loaded[a].pid
          /\ r.id = loaded[a].id
      BY <1>2, FoundRecord
    <2>2. /\ ~Terminal(loaded[a]) /\ loaded[a].pid # 0
          /\ loaded' = [loaded EXCEPT ![a] = r] /\ mem' = [mem EXCEPT ![a] = r] /\ queued' = TRUE
          /\ verified' = verified \/ (verified' = verified \cup {a} /\ RestoreVerified(a))
      BY <1>5 DEF RestoreVerified, RestoreUnverified, Alive
    <2> HIDE DEF r
    <2> QED
      BY <1>1, <1>2, <2>1, <2>2 DEF Sound
  <1> QED
    BY <1>3, <1>4, <1>5

\* Restore keeps Base, whatever it finds of an app.
LEMMA RestoreStep ==
    ASSUME Base, NEW a \in App,
           \/ RestoreTerminal(a) \/ RestoreDead(a) \/ RestoreReused(a)
           \/ RestoreVerified(a) \/ RestoreUnverified(a)
    PROVE  Base'
  <1>1. /\ phase = "restore" /\ a \in todo /\ loaded[a] # None /\ mem[a] = None
        /\ todo' = todo \ {a} /\ verified \subseteq verified' /\ verified' \subseteq verified \cup {a}
        /\ UNCHANGED <<proc, births, now, file, phase, manager, armed, recorded, spared, stuck, plain>>
    BY RestoredIs DEF Base, AppRight, PhaseRight
  <1>2. PICK r \in Record :
          /\ r # None /\ Sound(r)
          /\ loaded' = [loaded EXCEPT ![a] = r]
          /\ (mem' = mem /\ queued' = queued) \/ (mem' = [mem EXCEPT ![a] = r] /\ queued' = TRUE)
    BY RestoredIs
  <1>3. queued' \in BOOLEAN
    <2>1. queued \in BOOLEAN
      BY DEF Base, Types
    <2> QED
      BY <1>2, <2>1
  <1>4. loaded' \in [App -> Record \cup {None}] /\ mem' \in [App -> Record \cup {None}]
    BY <1>2 DEF Base, Types
  <1>5. Types'
    BY <1>1, <1>3, <1>4 DEF Base, Types
  <1>6. ASSUME NEW b \in App
        PROVE  AppRight(b)'
    <2>1. CASE b = a
      BY <1>1, <1>2, <1>5, <2>1 DEF Base, Types, AppRight, PhaseRight, Sound, Settled, Serving
    <2>2. CASE b # a
      BY <1>1, <1>2, <1>5, <2>2, Untouched DEF Base, Types
    <2> QED
      BY <2>1, <2>2
  <1> QED
    BY <1>1, <1>5, <1>6 DEF Base, DownInv, Down

\* The records become the ones that Restore has made.
LEMMA ReplaceStep ==
    ASSUME Base, ReplaceState
    PROVE  Base'
  <1> USE DEF osVars, history, spells
  <1>1. Types'
    BY DEF ReplaceState, Base, Types, Apps
  <1>2. ASSUME NEW a \in App
        PROVE  AppRight(a)'
    BY DEF ReplaceState, Base, AppRight, Sound, PhaseRight, RunsRight, Recorded, Settled, Serving, Apps
  <1> QED
    BY <1>1, <1>2 DEF Base, ReplaceState, DownInv, Down

\* A cleanup stops the record of a dead process only.
LEMMA CleanupStep ==
    ASSUME Base, NEW a \in App, Cleanup(a)
    PROVE  Base'
  <1> USE DEF osVars, history, spells
  <1>1. /\ phase = "cleanup" /\ a \in todo /\ todo' = todo \ {a}
        /\ UNCHANGED <<proc, births, now, file, phase, loaded, verified, manager, armed, recorded,
                       spared, stuck, plain>>
        /\ mem[a] = loaded[a] /\ mem[a] # None /\ mem[a] \in Record
    BY DEF Cleanup, Base, Types, AppRight, PhaseRight
  <1>2. PICK r \in Record : /\ r # None /\ Sound(r) /\ (r = mem[a] \/ r.pid = 0)
                            /\ mem' = [mem EXCEPT ![a] = r] /\ queued' \in BOOLEAN
    <2>1. CASE mem[a].pid # 0 /\ ~Alive(mem[a].pid)
      <3> DEFINE r == [mem[a] EXCEPT !.status = "stopped", !.pid = 0]
      <3>1. r \in Record /\ r # None /\ r.status = "stopped" /\ r.pid = 0
        BY <1>1, EndedRecord
      <3>2. mem' = [mem EXCEPT ![a] = r] /\ queued' = TRUE
        BY <2>1 DEF Cleanup, Announced, Set, Stopped
      <3> HIDE DEF r
      <3> QED
        BY <3>1, <3>2 DEF Sound
    <2>2. CASE ~(mem[a].pid # 0 /\ ~Alive(mem[a].pid))
      <3>1. mem' = mem /\ queued' = queued
        BY <2>2 DEF Cleanup
      <3>2. mem' = [mem EXCEPT ![a] = mem[a]] /\ queued' \in BOOLEAN /\ Sound(mem[a])
        BY <3>1 DEF Base, Types, AppRight
      <3> QED
        BY <1>1, <3>2
    <2> QED
      BY <2>1, <2>2
  <1>3. Types'
    BY <1>1, <1>2 DEF Base, Types
  <1>4. ASSUME NEW b \in App
        PROVE  AppRight(b)'
    <2>1. CASE b = a
      BY <1>1, <1>2, <1>3, <2>1 DEF Base, Types, AppRight, PhaseRight, Sound, Settled, Serving
    <2>2. CASE b # a
      BY <1>1, <1>2, <1>3, <2>2, Untouched DEF Base, Types
    <2> QED
      BY <2>1, <2>2
  <1> QED
    BY <1>1, <1>3, <1>4 DEF Base, DownInv, Down

\* The last loop of the boot works on the records as they are after the cleanup.
LEMMA CleanedUpStep ==
    ASSUME Base, CleanedUp
    PROVE  Base'
  <1>1. /\ phase = "cleanup" /\ phase' = "revive" /\ loaded' = mem /\ todo' = Apps(mem)
        /\ UNCHANGED <<proc, births, now, mem, queued, verified, manager, armed, spared, stuck, plain>>
        /\ file' \in {file, mem} /\ recorded' \subseteq Birth
    BY PersistedIs DEF CleanedUp, spells, osVars, Base, Types
  <1>2. Types'
    BY <1>1 DEF Base, Types, Apps
  <1>3. ASSUME NEW a \in App
        PROVE  AppRight(a)'
    BY <1>1 DEF Base, AppRight, Sound, PhaseRight, RunsRight, Recorded, Settled, Serving, Running, Apps
  <1> QED
    BY <1>1, <1>2, <1>3 DEF Base, DownInv, Down

\* When requests are served the boot has done with every app.
LEMMA ServeStep ==
    ASSUME Base, Serve
    PROVE  Base'
  <1>1. /\ phase = "revive" /\ phase' = "serve" /\ todo = {}
        /\ UNCHANGED <<proc, births, now, todo, loaded, mem, queued, verified, manager, armed, spared, stuck, plain>>
        /\ file' = mem /\ recorded' \subseteq Birth
    BY PersistedIs DEF Serve, spells, osVars, Base
  <1>2. Types'
    BY <1>1 DEF Base, Types
  <1>3. ASSUME NEW a \in App
        PROVE  AppRight(a)'
    BY <1>1 DEF Base, AppRight, Sound, PhaseRight, RunsRight, Recorded, Settled, Serving, Running
  <1> QED
    BY <1>1, <1>2, <1>3 DEF Base, DownInv, Down

\* A step that changes one app, which the boot has then done with.
LEMMA OneAppStep ==
    ASSUME Base, NEW a \in App, NEW m \in Manager \cup {None}, NEW r \in Record \cup {None},
           NEW d \in 0..(MaxTime + 1),
           manager' = [manager EXCEPT ![a] = m], mem' = [mem EXCEPT ![a] = r],
           armed' = [armed EXCEPT ![a] = d],
           UNCHANGED <<now, file, phase, loaded, verified, recorded>>,
           todo' \in {todo, todo \ {a}},
           proc' \in [Pid -> Process \cup {None}], births' \in Birth, spared' \subseteq Birth,
           queued' \in BOOLEAN,
           stuck' \in {stuck, stuck \cup {a}, stuck \ {a}},
           plain' \in {plain, plain \cup {a}, plain \ {a}},
           phase = "revive" => a \notin stuck',
           Serving \/ (phase = "revive" /\ a \notin todo'),
           Sound(r), RunsRight(a)'
    PROVE  Base'
  <1>1. Types'
    BY DEF Base, Types
  <1>2. ASSUME NEW b \in App
        PROVE  AppRight(b)'
    <2>1. CASE b = a
      <3>1. Settled(a)'
        BY DEF Settled, Serving
      <3>2. mem'[a] = r /\ Sound(file'[a]) /\ Sound(loaded'[a])
        BY DEF Base, Types, AppRight, Sound
      <3>3. PhaseRight(a)'
        BY <3>1 DEF PhaseRight, Settled, Serving
      <3> QED
        BY <2>1, <3>1, <3>2, <3>3 DEF AppRight, Sound
    <2>2. CASE b # a
      BY <2>2, Untouched DEF Base, Types
    <2> QED
      BY <2>1, <2>2
  <1>3. DownInv'
    BY DEF Base, DownInv, Down, Serving
  <1> QED
    BY <1>1, <1>2, <1>3 DEF Base

\* What the boot still has to revive.
LEMMA RevivingIs ==
    ASSUME Base, NEW a \in App, Reviving(a)
    PROVE  /\ phase = "revive" /\ a \in todo /\ todo' = todo \ {a}
           /\ UNCHANGED <<now, file, phase, loaded, verified, recorded, plain>>
           /\ a \notin stuck
           /\ mem[a] = loaded[a] /\ mem[a] # None /\ mem[a] \in Record /\ Sound(mem[a])
           /\ manager[a] = None /\ armed[a] = 0
           /\ RestoredManager(a) \in Manager /\ RestoredManager(a) # None
           /\ RestoredManager(a).running <=> mem[a].status = "running"
           /\ RestoredManager(a).pid = mem[a].pid
           /\ RestoredManager(a).authority <=> a \in verified
  <1>1. /\ phase = "revive" /\ a \in todo /\ todo' = todo \ {a}
        /\ UNCHANGED <<now, file, phase, loaded, verified, recorded, plain>>
    BY DEF Reviving
  <1>2. /\ mem[a] = loaded[a] /\ mem[a] # None /\ mem[a] \in Record /\ Sound(mem[a])
        /\ manager[a] = None /\ armed[a] = 0 /\ a \notin stuck
    BY <1>1 DEF Base, Types, AppRight, PhaseRight, Settled, Serving
  <1>3. loaded[a].pid \in Pid \cup {0}
    BY <1>2 DEF Record
  <1>4. (loaded[a].status = "running") \in BOOLEAN /\ (a \in verified) \in BOOLEAN
    OBVIOUS
  <1>5. RestoredManager(a) \in Manager
    BY <1>3, <1>4 DEF RestoredManager, Manager
  <1>6. /\ RestoredManager(a).running <=> loaded[a].status = "running"
        /\ RestoredManager(a).pid = loaded[a].pid
        /\ RestoredManager(a).authority <=> a \in verified
    BY DEF RestoredManager
  <1> QED
    BY <1>1, <1>2, <1>5, <1>6, NoneAssumption

\* An app that is adopted as it is.
LEMMA ReviveKeepsStep ==
    ASSUME Base, NEW a \in App, ReviveKeeps(a)
    PROVE  Base'
  <1> DEFINE m == RestoredManager(a)
             d == IF loaded[a].status = "running" THEN loaded[a].expires ELSE 0
  <1>1. /\ Reviving(a) /\ UNCHANGED <<proc, births, mem, queued, spared, stuck>>
        /\ manager' = [manager EXCEPT ![a] = m] /\ armed' = [armed EXCEPT ![a] = d]
    BY DEF ReviveKeeps, Set
  <1>2. mem' = [mem EXCEPT ![a] = mem[a]] /\ d \in 0..(MaxTime + 1)
    BY <1>1, RevivingIs, Bounds DEF Base, Types, Record
  <1>3. manager'[a] = m /\ mem'[a] = mem[a] /\ manager \in [App -> Manager \cup {None}]
    BY <1>1 DEF Base, Types
  <1>4. RunsRight(a)'
    BY <1>1, <1>3, RevivingIs DEF RunsRight, Recorded, Running
  <1> QED
    BY <1>1, <1>2, <1>4, RevivingIs, OneAppStep DEF Base, Types

\* What becomes of an app whose time ran out while the server was down.
LEMMA ReviveExpiresIs ==
    ASSUME Base, NEW a \in App, ReviveExpires(a)
    PROVE  /\ Reviving(a) /\ mem[a].status = "running" /\ Disposed(RestoredManager(a))
           /\ UNCHANGED <<births, armed, stuck>> /\ queued' = TRUE
           /\ \E m \in Manager : ~m.running /\ m # None /\ manager' = [manager EXCEPT ![a] = m]
           /\ \E r \in Record : /\ r.status = "expired" /\ r.pid = 0 /\ r.id = mem[a].id /\ r # None
                                /\ mem' = [mem EXCEPT ![a] = r]
  <1>1. Reviving(a)
    BY DEF ReviveExpires
  <1>2. loaded[a] = mem[a] /\ loaded[a] \in Record /\ RestoredManager(a) \in Manager
    BY <1>1, RevivingIs
  <1> DEFINE r == [loaded[a] EXCEPT !.status = "expired", !.pid = 0]
             m == [RestoredManager(a) EXCEPT !.running = FALSE]
  <1>3. /\ r \in Record /\ r.status = "expired" /\ r.pid = 0 /\ r.id = loaded[a].id
        /\ r # None
    BY <1>2, EndedRecord
  <1>4. m \in Manager /\ ~m.running /\ m # None
    BY <1>2, NoneAssumption DEF Manager
  <1>5. /\ mem[a].status = "running" /\ Disposed(RestoredManager(a)) /\ UNCHANGED <<births, armed, stuck>>
        /\ queued' = TRUE
        /\ manager' = [manager EXCEPT ![a] = m] /\ mem' = [mem EXCEPT ![a] = r]
    BY <1>2 DEF ReviveExpires, Disposed, Announced, Set
  <1> HIDE DEF r, m
  <1> QED
    BY <1>1, <1>2, <1>3, <1>4, <1>5

\* An app that is adopted and expires at once.
LEMMA ReviveExpiresStep ==
    ASSUME Base, NEW a \in App, ReviveExpires(a)
    PROVE  Base'
  <1>1. PICK m \in Manager : ~m.running /\ m # None /\ manager' = [manager EXCEPT ![a] = m]
    BY ReviveExpiresIs
  <1>2. PICK r \in Record : /\ r.status = "expired" /\ r.pid = 0 /\ r # None
                            /\ mem' = [mem EXCEPT ![a] = r]
    BY ReviveExpiresIs
  <1>3. /\ Reviving(a) /\ Disposed(RestoredManager(a)) /\ RestoredManager(a).pid \in Pid \cup {0}
        /\ UNCHANGED <<births, armed, stuck>> /\ queued' \in BOOLEAN
    BY ReviveExpiresIs, RevivingIs DEF Record
  <1>4. proc' \in [Pid -> Process \cup {None}] /\ spared' \subseteq Birth
    BY <1>3, KilledIs DEF Base
  <1>5. armed' = [armed EXCEPT ![a] = armed[a]] /\ armed[a] = 0 /\ Sound(r)
    BY <1>2, <1>3, RevivingIs DEF Base, Types, Sound
  <1>6. RunsRight(a)'
    BY <1>1, <1>2, <1>3, <1>5, RevivingIs DEF RunsRight, Recorded, Running, Base, Types
  <1> QED
    BY <1>1, <1>2, <1>3, <1>4, <1>5, <1>6, RevivingIs, OneAppStep, Bounds DEF Base, Types

\* An app that the boot cannot start has no manager.
LEMMA ReviveFailsStep ==
    ASSUME Base, NEW a \in App, ReviveFails(a)
    PROVE  Base'
  <1>1. /\ Reviving(a) /\ UNCHANGED <<proc, births, mem, queued, armed, spared, stuck>>
        /\ manager' = [manager EXCEPT ![a] = None] /\ loaded[a].status = "stopped"
    BY DEF ReviveFails, Set
  <1>2. /\ mem' = [mem EXCEPT ![a] = mem[a]] /\ armed' = [armed EXCEPT ![a] = armed[a]]
        /\ armed[a] \in 0..(MaxTime + 1)
    BY <1>1 DEF Base, Types
  <1>3. manager'[a] = None /\ mem'[a] = mem[a] /\ armed'[a] = armed[a]
    BY <1>1 DEF Base, Types
  <1>4. RunsRight(a)'
    BY <1>1, <1>3, RevivingIs DEF RunsRight, Recorded, Running
  <1> QED
    BY <1>1, <1>2, <1>4, RevivingIs, OneAppStep DEF Base, Types

\* A start, of whichever kind.
LEMMA StartedStep ==
    ASSUME Base, NEW a \in App, NEW p \in Pid, NEW e \in 0..(MaxTime + 1),
           Started(a, p, e),
           armed' \in [App -> 0..(MaxTime + 1)], \A b \in App \ {a} : armed'[b] = armed[b],
           UNCHANGED <<now, file, phase, loaded, verified, recorded, spared>>,
           armed'[a] \in {0, e}, plain' \in {plain, plain \cup {a}, plain \ {a}},
           todo' \in {todo, todo \ {a}},
           Serving \/ (phase = "revive" /\ a \notin todo')
    PROVE  Base'
  <1>0. Types /\ a \in App /\ p \in Pid /\ e \in 0..(MaxTime + 1) /\ Started(a, p, e)
    BY DEF Base
  <1>1. /\ NewManager(p) \in Manager /\ NewManager(p) # None
        /\ NewManager(p).running /\ NewManager(p).pid = p
        /\ manager' = [manager EXCEPT ![a] = NewManager(p)] /\ stuck' = stuck \ {a}
    BY ONLY <1>0, StartedIs
  <1>2. /\ NewRecord(a, p, e).status = "running" /\ NewRecord(a, p, e).pid = p
        /\ NewRecord(a, p, e).expires = e
        /\ mem' = [mem EXCEPT ![a] = NewRecord(a, p, e)]
    BY DEF Started, Announced, Set, NewRecord
  <1>3. NewRecord(a, p, e) \in Record
    BY ONLY <1>0, StartedIs
  <1>4. /\ proc' \in [Pid -> Process \cup {None}] /\ births' \in Birth /\ queued' \in BOOLEAN
        /\ spared' \subseteq Birth
    <2>1. Spawned(a, p) /\ queued' = TRUE /\ a \in App \cup {Stranger}
      BY DEF Started, Announced
    <2> QED
      BY <1>0, <2>1, SpawnedIs DEF Types
  <1>5. Sound(NewRecord(a, p, e)) /\ RunsRight(a)'
    BY <1>0, <1>1, <1>2, <1>3, Bounds, NoneAssumption DEF Sound, RunsRight, Recorded, Running, Types
  <1>6. armed' = [armed EXCEPT ![a] = armed'[a]] /\ armed'[a] \in 0..(MaxTime + 1)
    BY <1>0 DEF Types
  <1> QED
    BY <1>1, <1>2, <1>3, <1>4, <1>5, <1>6, OneAppStep

\* An app that the boot starts.
LEMMA ReviveStartsStep ==
    ASSUME Base, NEW a \in App, ReviveStarts(a)
    PROVE  Base'
  <1> DEFINE d == IF OutOfTime(loaded[a]) THEN 0 ELSE loaded[a].expires
  <1>1. Reviving(a) /\ spared' = spared /\ armed' = [armed EXCEPT ![a] = d]
    BY DEF ReviveStarts, Set
  <1>2. PICK p \in Pid : Started(a, p, loaded[a].expires)
    BY DEF ReviveStarts
  <1>3. loaded[a].expires \in 0..(MaxTime + 1)
    BY <1>1, RevivingIs DEF Record
  <1>4. d \in 0..(MaxTime + 1)
    BY <1>3, Bounds
  <1>7. d \in {0, loaded[a].expires}
    OBVIOUS
  <1> HIDE DEF d
  <1>5. /\ armed' \in [App -> 0..(MaxTime + 1)] /\ \A b \in App \ {a} : armed'[b] = armed[b]
        /\ armed'[a] \in {0, loaded[a].expires}
    BY <1>1, <1>4, <1>7 DEF Base, Types
  <1>6. /\ phase = "revive" /\ todo' = todo \ {a}
        /\ UNCHANGED <<now, file, phase, loaded, verified, recorded, spared, plain>>
    BY <1>1, RevivingIs
  <1> QED
    BY <1>2, <1>3, <1>5, <1>6, StartedStep

\* An app that is applied.
LEMMA ApplyStep ==
    ASSUME Base, NEW a \in App, Apply(a)
    PROVE  Base'
  <1> DEFINE e == IF a \in Leased THEN now + 1 ELSE 0
             d == IF phase = "serve" THEN e ELSE 0
  <1>1. /\ Serving /\ armed' = [armed EXCEPT ![a] = d]
        /\ UNCHANGED <<now, file, phase, todo, loaded, verified, recorded, spared>>
        /\ plain' = plain \ {a}
    BY DEF Apply, Accepting, Serving, Set, booting
  <1>2. PICK p \in Pid : Started(a, p, e)
    BY DEF Apply
  <1>3. e \in 0..(MaxTime + 1) /\ d \in 0..(MaxTime + 1) /\ d \in {0, e}
    BY Bounds DEF Base, Types
  <1> HIDE DEF e, d
  <1>4. /\ armed' \in [App -> 0..(MaxTime + 1)] /\ \A b \in App \ {a} : armed'[b] = armed[b]
        /\ armed'[a] \in {0, e}
    BY <1>1, <1>3 DEF Base, Types
  <1> QED
    BY <1>1, <1>2, <1>3, <1>4, StartedStep

\* An app that is started or deployed.
KeptTerm(a) == IF mem[a] = None THEN 0 ELSE mem[a].expires
LEMMA StartStep ==
    ASSUME Base, NEW a \in App, Start(a)
    PROVE  Base'
  <1>1. /\ Serving /\ armed' = armed
        /\ UNCHANGED <<now, file, phase, todo, loaded, verified, recorded, spared>>
        /\ plain' = plain \cup {a}
    BY DEF Start, Accepting, Serving, booting
  <1>2. PICK p \in Pid : Started(a, p, KeptTerm(a))
    BY DEF Start, KeptTerm
  <1>3. KeptTerm(a) \in 0..(MaxTime + 1)
    BY Bounds DEF Base, Types, Record, KeptTerm
  <1>4. /\ armed' \in [App -> 0..(MaxTime + 1)] /\ \A b \in App \ {a} : armed'[b] = armed[b]
        /\ armed'[a] \in {0, KeptTerm(a)}
    BY <1>1 DEF Base, Types, AppRight, Settled, RunsRight, KeptTerm
  <1> QED
    BY <1>1, <1>2, <1>3, <1>4, StartedStep

\* An app that is stopped, or whose time is over.
LEMMA EndStep ==
    ASSUME Base, NEW a \in App, NEW s \in {"stopped", "expired", "failed"}, Ending(a, s),
           Serving, phase' = phase, todo' \in {todo, todo \ {a}},
           armed' \in {armed, [armed EXCEPT ![a] = 0]}
    PROVE  Base'
  <1>0. Settled(a) /\ Types /\ RunsRight(a)
    BY DEF Settled, Base, AppRight
  <1>1. PICK m \in Manager : ~m.running /\ manager' = [manager EXCEPT ![a] = m]
    BY <1>0, EndingIs
  <1>2. PICK r \in Record : /\ r.status = s /\ r.pid = 0 /\ r.id = mem[a].id /\ r # None
                            /\ r.expires = mem[a].expires /\ mem' = [mem EXCEPT ![a] = r]
    BY <1>0, EndingIs
  <1>3. /\ UNCHANGED <<births, now, file, loaded, verified, recorded, stuck, plain>>
        /\ queued' \in BOOLEAN
        /\ Disposed(manager[a]) /\ manager[a].pid \in Pid \cup {0} /\ Running(a)
    BY <1>0, EndingIs DEF Manager
  <1>4. proc' \in [Pid -> Process \cup {None}] /\ spared' \subseteq Birth
    BY <1>0, <1>3, KilledIs
  <1>5. /\ armed' = [armed EXCEPT ![a] = armed'[a]] /\ armed'[a] \in 0..(MaxTime + 1)
        /\ armed'[a] \in {0, armed[a]}
    BY <1>0, Bounds DEF Types
  <1>6. Sound(r) /\ RunsRight(a)'
    <2>1. mem'[a] = r /\ manager'[a] = m
      BY <1>0, <1>1, <1>2 DEF Types
    <2> QED
      BY <1>0, <1>1, <1>2, <1>3, <1>5, <2>1 DEF Sound, RunsRight, Recorded, Running
  <1>7. births' \in Birth
    BY <1>0, <1>3 DEF Types
  <1> QED
    BY <1>1, <1>2, <1>3, <1>4, <1>5, <1>6, <1>7, OneAppStep DEF Serving

\* A stop that fails.
LEMMA StopFailsStep ==
    ASSUME Base, NEW a \in App, StopFails(a),
           Serving, phase' = phase, todo' \in {todo, todo \ {a}},
           armed' \in {armed, [armed EXCEPT ![a] = 0]}
    PROVE  Base'
  <1>0. Settled(a) /\ Types /\ RunsRight(a)
    BY DEF Settled, Base, AppRight
  <1>1. PICK m \in Manager : ~m.running /\ manager' = [manager EXCEPT ![a] = m]
    BY <1>0, StopFailsIs
  <1>2. /\ UNCHANGED <<births, now, file, loaded, mem, queued, verified, recorded, plain>>
        /\ stuck' = stuck \cup {a} /\ proc' = proc
        /\ Disposed(manager[a]) /\ manager[a].pid \in Pid \cup {0} /\ Recorded(a)
    BY <1>0, StopFailsIs DEF Manager
  <1>3. spared' \subseteq Birth
    BY <1>0, <1>2, KilledIs
  <1>4. /\ armed' = [armed EXCEPT ![a] = armed'[a]] /\ armed'[a] \in 0..(MaxTime + 1)
        /\ armed'[a] \in {0, armed[a]} /\ mem' = [mem EXCEPT ![a] = mem[a]]
    BY <1>0, <1>2, Bounds DEF Types
  <1>5. Sound(mem[a]) /\ RunsRight(a)'
    <2>1. manager'[a] = m
      BY <1>0, <1>1 DEF Types
    <2> QED
      BY <1>0, <1>1, <1>2, <1>4, <2>1 DEF RunsRight, Recorded, Running, Base, AppRight
  <1> QED
    BY <1>0, <1>1, <1>2, <1>3, <1>4, <1>5, OneAppStep DEF Types, Serving

\* A lease that ends after a stop has failed.
LEMMA UnmanagedStep ==
    ASSUME Base, NEW a \in App, Recorded(a), ExpiresUnmanaged(a),
           Serving, phase' = phase, todo' \in {todo, todo \ {a}},
           armed' \in {armed, [armed EXCEPT ![a] = 0]}
    PROVE  Base'
  <1>0. Settled(a) /\ Types /\ RunsRight(a)
    BY DEF Settled, Base, AppRight
  <1>1. PICK r \in Record : /\ r.status = "expired" /\ r.pid = 0 /\ r.id = mem[a].id /\ r # None
                            /\ r.expires = mem[a].expires /\ mem' = [mem EXCEPT ![a] = r]
    BY <1>0, UnmanagedIs
  <1>2. /\ UNCHANGED <<proc, births, now, file, loaded, verified, manager, recorded, spared, plain>>
        /\ stuck' = stuck \ {a} /\ ~Running(a) /\ queued' \in BOOLEAN
    BY <1>0, UnmanagedIs
  <1>3. /\ armed' = [armed EXCEPT ![a] = armed'[a]] /\ armed'[a] \in 0..(MaxTime + 1)
        /\ armed'[a] \in {0, armed[a]} /\ manager' = [manager EXCEPT ![a] = manager[a]]
    BY <1>0, <1>2, Bounds DEF Types
  <1>4. Sound(r) /\ RunsRight(a)'
    <2>1. mem'[a] = r
      BY <1>0, <1>1 DEF Types
    <2> QED
      BY <1>0, <1>1, <1>2, <1>3, <2>1 DEF Sound, RunsRight, Recorded, Running
  <1> QED
    BY <1>0, <1>1, <1>2, <1>3, <1>4, OneAppStep DEF Types, Serving

\* A step that leaves the app's manager and record as they are.
LEMMA IdleStep ==
    ASSUME Base, NEW a \in App, Serving,
           UNCHANGED <<proc, births, now, file, phase, loaded, mem, queued, verified, manager,
                       recorded, spared, stuck, plain>>,
           todo' \in {todo, todo \ {a}}, armed' \in {armed, [armed EXCEPT ![a] = 0]}
    PROVE  Base'
  <1>1. Types /\ RunsRight(a)
    BY DEF Base, AppRight, Settled
  <1>2. /\ manager' = [manager EXCEPT ![a] = manager[a]] /\ mem' = [mem EXCEPT ![a] = mem[a]]
        /\ armed' = [armed EXCEPT ![a] = armed'[a]]
    BY <1>1 DEF Types
  <1>3. armed'[a] \in 0..(MaxTime + 1) /\ armed'[a] \in {armed[a], 0}
    BY <1>1, Bounds DEF Types
  <1>4. Sound(mem[a]) /\ RunsRight(a)'
    BY <1>1, <1>3 DEF RunsRight, Recorded, Running, Base, AppRight
  <1> QED
    BY <1>1, <1>2, <1>3, <1>4, OneAppStep DEF Types, Serving

\* The steps that end an app, or fail to, keep Base.
LEMMA StopsStep ==
    ASSUME Base, NEW a \in App, Stop(a) \/ TtlFires(a) \/ StopAll(a)
    PROVE  Base'
  <1>1. /\ Serving /\ phase' = phase /\ todo' \in {todo, todo \ {a}}
        /\ armed' \in {armed, [armed EXCEPT ![a] = 0]}
    BY EndCases
  <1>2. CASE \E s \in {"stopped", "expired", "failed"} : Ending(a, s)
    BY <1>1, <1>2, EndStep
  <1>3. CASE StopFails(a)
    BY <1>1, <1>3, StopFailsStep
  <1>4. CASE Recorded(a) /\ ExpiresUnmanaged(a)
    BY <1>1, <1>4, UnmanagedStep
  <1>5. CASE Idle
    BY <1>1, <1>5, IdleStep DEF Idle
  <1> QED
    BY <1>2, <1>3, <1>4, <1>5, EndCases

\* monitor sees the end of a process: the app ends, or gets another process.
LEMMA ExitIsSeenIs ==
    ASSUME Base, NEW a \in App, ExitIsSeen(a)
    PROVE  /\ Serving /\ Running(a) /\ mem[a] # None /\ mem[a] \in Record /\ mem[a].status = "running"
           /\ manager[a].pid = mem[a].pid /\ ~Alive(mem[a].pid)
           /\ UNCHANGED <<now, file, phase, todo, loaded, verified, armed, recorded, spared, plain>>
           /\ \/ /\ \E m \in Manager : ~m.running /\ manager' = [manager EXCEPT ![a] = m]
                 /\ \E r \in Record : /\ r.status \in {"stopped", "failed"} /\ r.pid = 0
                                      /\ r.id = mem[a].id /\ r # None /\ r.expires = mem[a].expires
                                      /\ mem' = [mem EXCEPT ![a] = r]
                 /\ queued' = TRUE /\ UNCHANGED <<proc, births, stuck>>
              \/ a \in AutoRestart /\ \E p \in Pid : Started(a, p, mem[a].expires)
  <1>1. /\ Serving /\ Running(a) /\ ~Alive(manager[a].pid)
        /\ UNCHANGED <<now, file, phase, todo, loaded, verified, armed, recorded, spared, plain>>
    BY DEF ExitIsSeen, booting
  <1>2. /\ mem[a] # None /\ mem[a] \in Record /\ mem[a].status = "running"
        /\ manager[a].pid = mem[a].pid /\ manager[a] \in Manager
    BY <1>1 DEF Base, Types, AppRight, RunsRight, Recorded, Settled, Running
  <1>3. CASE /\ Halts(a)
             /\ \E end \in {"failed"} \cup (IF a \in AutoRestart THEN {} ELSE {"stopped"}) :
                    RecordEnds(a, end)
             /\ UNCHANGED <<proc, births, stuck>>
    <2>1. PICK end \in {"failed", "stopped"} : RecordEnds(a, end)
      BY <1>3
    <2> DEFINE r == [mem[a] EXCEPT !.status = end, !.pid = 0]
               m == [manager[a] EXCEPT !.running = FALSE]
    <2>2. m \in Manager /\ ~m.running /\ manager' = [manager EXCEPT ![a] = m]
      BY <1>2, <1>3 DEF Manager, Halts, Set
    <2>3. /\ r \in Record /\ r.status = end /\ r.pid = 0 /\ r.id = mem[a].id /\ r # None
          /\ r.expires = mem[a].expires
      <3>1. end \in {"running", "stopped", "expired", "failed"}
        OBVIOUS
      <3> QED
        BY <1>2, <3>1, EndedRecord
    <2>4. mem' = [mem EXCEPT ![a] = r] /\ queued' = TRUE /\ UNCHANGED <<proc, births, stuck>>
      BY <1>3, <2>1 DEF RecordEnds, Announced, Set
    <2> HIDE DEF r, m
    <2> QED
      BY <1>1, <1>2, <2>2, <2>3, <2>4
  <1>4. CASE a \in AutoRestart /\ \E p \in Pid : Started(a, p, mem[a].expires)
    BY <1>1, <1>2, <1>4
  <1> QED
    BY <1>3, <1>4 DEF ExitIsSeen

\* An end that is seen keeps Base, with or without a restart.
LEMMA ExitIsSeenStep ==
    ASSUME Base, NEW a \in App, ExitIsSeen(a)
    PROVE  Base'
  <1>1. /\ Serving /\ mem[a] \in Record /\ mem[a] # None
        /\ UNCHANGED <<now, file, phase, todo, loaded, verified, armed, recorded, spared, plain>>
        /\ Running(a)
    BY ExitIsSeenIs
  <1>2. Types /\ RunsRight(a) /\ (Serving => Settled(a))
    BY <1>1 DEF Base, AppRight, Settled
  <1>3. CASE /\ \E m \in Manager : ~m.running /\ manager' = [manager EXCEPT ![a] = m]
             /\ \E r \in Record : /\ r.status \in {"stopped", "failed"} /\ r.pid = 0
                                  /\ r.id = mem[a].id /\ r # None /\ r.expires = mem[a].expires
                                  /\ mem' = [mem EXCEPT ![a] = r]
             /\ queued' = TRUE /\ UNCHANGED <<proc, births, stuck>>
    <2>1. PICK m \in Manager : ~m.running /\ manager' = [manager EXCEPT ![a] = m]
      BY <1>3
    <2>2. PICK r \in Record : /\ r.status \in {"stopped", "failed"} /\ r.pid = 0
                              /\ r.id = mem[a].id /\ r # None /\ r.expires = mem[a].expires
                              /\ mem' = [mem EXCEPT ![a] = r]
      BY <1>3
    <2>3. Sound(r) /\ RunsRight(a)'
      <3>1. manager'[a] = m /\ mem'[a] = r
        BY <1>2, <2>1, <2>2 DEF Types
      <3> QED
        BY <1>1, <1>2, <1>3, <2>1, <2>2, <3>1 DEF Sound, RunsRight, Recorded, Running
    <2>4. armed' = [armed EXCEPT ![a] = armed[a]] /\ armed[a] \in 0..(MaxTime + 1)
      BY <1>1, <1>2 DEF Types
    <2> QED
      BY <1>1, <1>2, <1>3, <2>1, <2>2, <2>3, <2>4, OneAppStep DEF Types, Serving
  <1>4. CASE \E p \in Pid : Started(a, p, mem[a].expires)
    <2>1. PICK p \in Pid : Started(a, p, mem[a].expires)
      BY <1>4
    <2>2. mem[a].expires \in 0..(MaxTime + 1)
      BY <1>1 DEF Record
    <2>3. /\ armed' \in [App -> 0..(MaxTime + 1)] /\ \A b \in App \ {a} : armed'[b] = armed[b]
          /\ armed'[a] \in {0, mem[a].expires}
      BY <1>1, <1>2 DEF Types, RunsRight
    <2> QED
      BY <1>1, <2>1, <2>2, <2>3, StartedStep
  <1> QED
    BY <1>3, <1>4, ExitIsSeenIs

\* A shutdown takes the deadlines away, and leaves the records as they are.
LEMMA ShutdownStep ==
    ASSUME Base, Shutdown
    PROVE  Base'
  <1>1. /\ phase = "serve" /\ phase' = "stopping" /\ armed' = [a \in App |-> 0]
        /\ todo' = {a \in App : manager[a] # None}
        /\ UNCHANGED <<proc, births, now, file, loaded, mem, queued, verified, manager, recorded,
                       spared, stuck, plain>>
    BY DEF Shutdown, osVars, history, spells
  <1>2. Types'
    BY <1>1, Bounds DEF Base, Types
  <1>3. ASSUME NEW a \in App
        PROVE  AppRight(a)'
    BY <1>1 DEF Base, AppRight, Sound, PhaseRight, RunsRight, Recorded, Settled, Serving, Running
  <1> QED
    BY <1>1, <1>2, <1>3 DEF Base, DownInv, Down

\* A server that knows nothing, at its end and before its first boot.
LEMMA Empty ==
    /\ NoFile \in [App -> Record \cup {None}]
    /\ [a \in App |-> None] \in [App -> Manager \cup {None}]
    /\ [a \in App |-> 0] \in [App -> 0..(MaxTime + 1)]
    /\ 0 \in Birth /\ 0 \in 0..MaxTime
    /\ [p \in Pid |-> None] \in [Pid -> Process \cup {None}]
  BY Bounds DEF NoFile, Birth

\* The server ends, with what it had saved.
LEMMA EndedStep ==
    ASSUME Base, Ended, phase' \in {"off", "crashed"}, file' \in {file, mem}, recorded' \subseteq Birth
    PROVE  Base'
  <1>1. /\ loaded' = NoFile /\ mem' = NoFile /\ queued' = FALSE /\ todo' = {} /\ verified' = {}
        /\ manager' = [a \in App |-> None] /\ armed' = [a \in App |-> 0]
        /\ UNCHANGED <<proc, births, now, spared, stuck, plain>>
    BY DEF Ended, osVars, spells
  <1>2. Types'
    BY <1>1, Empty DEF Base, Types
  <1>3. ASSUME NEW a \in App
        PROVE  AppRight(a)'
    BY <1>1, Bounds DEF Base, AppRight, Sound, PhaseRight, RunsRight, Recorded, Settled, Serving, Running, NoFile
  <1> QED
    BY <1>1, <1>2, <1>3 DEF Base, DownInv, Down

\* Base holds before the first boot.
LEMMA BaseInit ==
    Init => Base
  <1> SUFFICES ASSUME Init PROVE Base
    OBVIOUS
  <1>1. Types
    BY Empty DEF Init, Types
  <1>2. ASSUME NEW a \in App
        PROVE  AppRight(a)
    BY Bounds DEF Init, AppRight, Sound, PhaseRight, RunsRight, Recorded, Settled, Serving, Running, NoFile
  <1> QED
    BY <1>1, <1>2 DEF Base, Init, DownInv, Down

\* Every step keeps it.
LEMMA BaseStep ==
    ASSUME Base, [Next]_vars
    PROVE  Base'
  <1>1. CASE ProcessExits \/ PidIsReused \/ HostRestarts \/ TimePasses
    BY <1>1, OsStep
  <1>2. CASE Batch
    BY <1>2, BatchStep
  <1>3. CASE Load
    BY <1>3, LoadStep
  <1>4. CASE ReplaceState
    BY <1>4, ReplaceStep
  <1>5. CASE CleanedUp
    BY <1>5, CleanedUpStep
  <1>6. CASE Serve
    BY <1>6, ServeStep
  <1>7. CASE \E a \in App : RestoreTerminal(a) \/ RestoreDead(a) \/ RestoreReused(a)
                            \/ RestoreVerified(a) \/ RestoreUnverified(a)
    BY <1>7, RestoreStep
  <1>8. CASE \E a \in App : Cleanup(a)
    BY <1>8, CleanupStep
  <1>9. CASE \E a \in App : ReviveKeeps(a)
    BY <1>9, ReviveKeepsStep
  <1>10. CASE \E a \in App : ReviveExpires(a)
    BY <1>10, ReviveExpiresStep
  <1>11. CASE \E a \in App : ReviveStarts(a)
    BY <1>11, ReviveStartsStep
  <1>12. CASE \E a \in App : ReviveFails(a)
    BY <1>12, ReviveFailsStep
  <1>13. CASE \E a \in App : Start(a)
    BY <1>13, StartStep
  <1>14. CASE \E a \in App : Stop(a) \/ TtlFires(a) \/ StopAll(a)
    BY <1>14, StopsStep
  <1>15. CASE \E a \in App : Apply(a)
    BY <1>15, ApplyStep
  <1>16. CASE \E a \in App : ExitIsSeen(a)
    BY <1>16, ExitIsSeenStep
  <1>18. CASE Shutdown
    BY <1>18, ShutdownStep
  <1>19. CASE ShutDown
    BY <1>19, EndedStep, PersistedIs DEF ShutDown, Base
  <1>20. CASE Crash
    BY <1>20, EndedStep DEF Crash, Base, Types
  <1>21. CASE UNCHANGED vars
    BY <1>21, Untouched DEF vars, osVars, booting, history, spells, Base, Types, DownInv, Down
  <1> QED
    BY <1>1, <1>2, <1>3, <1>4, <1>5, <1>6, <1>7, <1>8, <1>9, <1>10, <1>11, <1>12, <1>13, <1>14,
       <1>15, <1>16, <1>18, <1>19, <1>20, <1>21, NextCases

\* What is known of the phases and of the managers is always so.
LEMMA BaseAlways == Spec => []Base
  BY BaseInit, BaseStep, PTL DEF Spec

\* Over crashes, boots and shutdowns every variable keeps to its type, a manager
\* that runs has a process, and a record has a PID just when it says it runs.
THEOREM TypeCorrect == Spec => []TypeOK
  BY BaseAlways, BaseTypes, PTL

----------------------------------------------------------------------------
(* Final records *)

\* While the server boots, no other step is possible.
LEMMA BootCases ==
    ASSUME [Next]_vars, phase' \in {"restore", "cleanup", "revive"}
    PROVE  \/ ProcessExits \/ PidIsReused \/ HostRestarts \/ TimePasses \/ UNCHANGED vars
           \/ Batch \/ Load \/ ReplaceState \/ CleanedUp
           \/ \E a \in App : RestoreTerminal(a) \/ RestoreDead(a) \/ RestoreReused(a)
                             \/ RestoreVerified(a) \/ RestoreUnverified(a)
           \/ \E a \in App : Cleanup(a)
           \/ \E a \in App : ReviveKeeps(a)
           \/ \E a \in App : ReviveExpires(a)
           \/ \E a \in App : ReviveStarts(a)
           \/ \E a \in App : ReviveFails(a)
  <1> USE DEF booting
  <1>1. ~(\E a \in App : Apply(a) \/ Start(a))
    BY DEF Apply, Start, Accepting
  <1>2. ~(\E a \in App : Stop(a) \/ TtlFires(a) \/ StopAll(a))
    BY DEF Stop, TtlFires, StopAll
  <1>3. ~(\E a \in App : ExitIsSeen(a))
    BY DEF ExitIsSeen, Serving
  <1>4. ~Serve /\ ~Shutdown /\ ~ShutDown /\ ~Crash
    BY DEF Serve, Shutdown, ShutDown, Crash
  <1> QED
    BY <1>1, <1>2, <1>3, <1>4, NextCases

\* What a cleanup makes of a record: nothing, or a stopped one.
LEMMA CleanupIs ==
    ASSUME Base, NEW a \in App, Cleanup(a)
    PROVE  /\ phase = "cleanup" /\ a \in todo /\ todo' = todo \ {a}
           /\ UNCHANGED <<proc, births, now, file, phase, loaded, verified, manager, armed, recorded,
                          spared, stuck, plain>>
           /\ mem[a] = loaded[a] /\ mem[a] # None /\ mem[a] \in Record /\ Sound(mem[a])
           /\ \/ mem' = mem /\ (mem[a].pid = 0 \/ Alive(mem[a].pid))
              \/ /\ mem[a].pid # 0 /\ ~Alive(mem[a].pid) /\ mem[a].status = "running"
                 /\ \E r \in Record : /\ r # None /\ r.status = "stopped" /\ r.pid = 0
                                      /\ r.id = mem[a].id /\ mem' = [mem EXCEPT ![a] = r]
  <1>1. /\ phase = "cleanup" /\ a \in todo /\ todo' = todo \ {a}
        /\ UNCHANGED <<proc, births, now, file, phase, loaded, verified, manager, armed, recorded,
                       spared, stuck, plain>>
        /\ mem[a] = loaded[a] /\ mem[a] # None /\ mem[a] \in Record /\ Sound(mem[a])
    BY DEF Cleanup, Base, Types, AppRight, PhaseRight, osVars, history, spells
  <1>2. CASE mem[a].pid # 0 /\ ~Alive(mem[a].pid)
    <2> DEFINE r == [mem[a] EXCEPT !.status = "stopped", !.pid = 0]
    <2>1. r \in Record /\ r # None /\ r.status = "stopped" /\ r.pid = 0 /\ r.id = mem[a].id
      BY <1>1, EndedRecord
    <2>2. mem' = [mem EXCEPT ![a] = r]
      BY <1>2 DEF Cleanup, Announced, Set, Stopped
    <2>3. mem[a].status = "running"
      BY <1>1, <1>2 DEF Sound
    <2> HIDE DEF r
    <2> QED
      BY <1>1, <1>2, <2>1, <2>2, <2>3
  <1>3. CASE ~(mem[a].pid # 0 /\ ~Alive(mem[a].pid))
    BY <1>1, <1>3 DEF Cleanup
  <1> QED
    BY <1>2, <1>3

\* No step of a boot makes anything else of a final record.
LEMMA FinalStep ==
    ASSUME Base, FinalInv, [Next]_vars
    PROVE  FinalInv'
  <1>1. CASE phase' \notin {"restore", "cleanup", "revive"}
    BY <1>1 DEF FinalInv
  <1>2. CASE phase' \in {"restore", "cleanup", "revive"}
    <2>1. CASE ProcessExits \/ PidIsReused \/ HostRestarts \/ TimePasses \/ UNCHANGED vars
      <3>1. UNCHANGED <<file, phase, loaded, mem>>
        BY <2>1 DEF ProcessExits, PidIsReused, HostRestarts, TimePasses, vars, booting
      <3> QED
        BY <3>1 DEF FinalInv, Final, Terminal
    <2>2. CASE Batch
      <3>1. UNCHANGED <<phase, loaded, mem>> /\ file' = mem
        BY <2>2, PersistedIs DEF Batch, booting, Base
      <3>2. \A a \in App : phase = "restore" => mem[a] \in {None, loaded[a]}
        BY DEF Base, AppRight, PhaseRight
      <3> QED
        BY <3>1, <3>2 DEF FinalInv, Final, Terminal
    <2>3. CASE Load
      BY <2>3 DEF Load, FinalInv, Final, Terminal
    <2>4. CASE ReplaceState
      BY <2>4 DEF ReplaceState, FinalInv, Final, Terminal
    <2>5. CASE CleanedUp
      <3>1. file' \in {file, mem} /\ mem' = mem /\ phase = "cleanup" /\ phase' = "revive"
        BY <2>5, PersistedIs DEF CleanedUp, Base
      <3> QED
        BY <3>1 DEF FinalInv, Final, Terminal
    <2>6. ASSUME NEW a \in App,
                 RestoreTerminal(a) \/ RestoreDead(a) \/ RestoreReused(a)
                 \/ RestoreVerified(a) \/ RestoreUnverified(a)
          PROVE  FinalInv'
      <3>1. phase = "restore" /\ UNCHANGED <<file, phase>> /\ loaded \in [App -> Record \cup {None}]
        BY <2>6, RestoredIs DEF Base, Types
      <3>2. PICK r \in Record :
              /\ r # None /\ loaded' = [loaded EXCEPT ![a] = r]
              /\ r.status = loaded[a].status \/ (r.status \in {"running", "stopped"} /\ ~Terminal(loaded[a]))
        BY <2>6, RestoredIs
      <3> QED
        BY <3>1, <3>2 DEF FinalInv, Final, Terminal
    <2>7. ASSUME NEW a \in App, Cleanup(a)
          PROVE  FinalInv'
      <3>1. /\ phase = "cleanup" /\ UNCHANGED <<file, phase>>
            /\ \A b \in App : mem'[b] = mem[b] \/ (b = a /\ mem[b].status = "running")
        BY <2>7, CleanupIs DEF Base, Types
      <3> QED
        BY <3>1 DEF FinalInv, Final, Terminal
    <2>8. ASSUME NEW a \in App, ReviveKeeps(a) \/ ReviveFails(a)
          PROVE  FinalInv'
      <3>1. UNCHANGED <<file, phase, loaded, mem>>
        BY <2>8 DEF ReviveKeeps, ReviveFails, Reviving
      <3> QED
        BY <3>1 DEF FinalInv, Final, Terminal
    <2>9. ASSUME NEW a \in App, ReviveExpires(a)
          PROVE  FinalInv'
      <3>1. phase = "revive" /\ UNCHANGED <<file, phase>> /\ mem[a].status = "running"
        BY <2>9, ReviveExpiresIs, RevivingIs
      <3>2. \A b \in App \ {a} : mem'[b] = mem[b]
        BY <2>9, ReviveExpiresIs DEF Base, Types
      <3>3. Final(mem'[a])
        BY <2>9, ReviveExpiresIs DEF Base, Types, Final, Terminal
      <3> QED
        BY <3>1, <3>2, <3>3 DEF FinalInv, Final, Terminal
    <2>10. ASSUME NEW a \in App, ReviveStarts(a)
           PROVE  FinalInv'
      <3>1. phase = "revive" /\ UNCHANGED <<file, phase>> /\ mem[a].status = "stopped"
        BY <2>10, RevivingIs DEF ReviveStarts
      <3>2. \A b \in App \ {a} : mem'[b] = mem[b]
        BY <2>10 DEF ReviveStarts, Started, Announced, Set, Base, Types
      <3> QED
        BY <3>1, <3>2 DEF FinalInv, Final, Terminal
    <2> QED
      BY <1>2, <2>1, <2>2, <2>3, <2>4, <2>5, <2>6, <2>7, <2>8, <2>9, <2>10, BootCases
  <1> QED
    BY <1>1, <1>2

\* An expired app, and one whose start has failed, is not started by a boot, even
\* if the server crashed in the middle of the boot before: FinalInv says what
\* becomes of such a record on its way from the file into memory.
THEOREM FinalStaysFinal == Spec => []FinalIsFinal
  <1>1. Init => FinalInv
    BY DEF Init, FinalInv
  <1>2. ASSUME Base, FinalInv
        PROVE  FinalIsFinal
    <2>1. ASSUME NEW a \in Apps(file), phase = "revive", file[a].status \in {"expired", "failed"}
          PROVE  ~Running(a)
      <3>1. a \in App /\ AppRight(a) /\ Final(mem[a])
        BY <1>2, <2>1 DEF Apps, Base, FinalInv, Final, Terminal
      <3> QED
        BY <2>1, <3>1 DEF AppRight, PhaseRight, RunsRight, Recorded, Running, Final, Terminal
    <2> QED
      BY <1>2, <2>1, BaseTypes DEF FinalIsFinal
  <1> QED
    BY <1>1, <1>2, BaseAlways, BaseStep, FinalStep, PTL DEF Spec

----------------------------------------------------------------------------
(* Leases *)

\* An app with the record and the deadline it had keeps its lease; a later clock
\* does not matter.
LEMMA LeaseKeeps ==
    ASSUME Types, NEW a \in App, LeaseRight(a), mem'[a] = mem[a], armed'[a] = armed[a],
           now' \in {now, now + 1}, a \in plain => a \in plain', a \in stuck => a \in stuck'
    PROVE  LeaseRight(a)'
  <1>1. CASE mem[a] = None
    BY <1>1 DEF LeaseRight, Recorded
  <1>2. CASE mem[a] # None
    <2>1. mem[a] \in Record /\ now \in Nat
      BY <1>2, Bounds DEF Types
    <2>2. mem[a].expires \in Nat
      BY <2>1, Bounds DEF Record
    <2> QED
      BY <2>1, <2>2 DEF LeaseRight, Recorded, OutOfTime
  <1> QED
    BY <1>1, <1>2

\* An app that does not run has no lease to keep.
LEMMA LeaseEnded ==
    ASSUME NEW a \in App, mem'[a].status # "running"
    PROVE  LeaseRight(a)'
  BY DEF LeaseRight, Recorded

\* A start touches the record of one app, which has the deadline it is given.
LEMMA StartedLease ==
    ASSUME Types, NEW a \in App, NEW p \in Pid, NEW e, Started(a, p, e)
    PROVE  /\ mem'[a].status = "running" /\ mem'[a].pid = p /\ mem'[a].expires = e
           /\ \A b \in App \ {a} : mem'[b] = mem[b]
           /\ stuck' = stuck \ {a}
  <1>1. mem' = [mem EXCEPT ![a] = NewRecord(a, p, e)] /\ stuck' = stuck \ {a}
    BY DEF Started, Announced, Set, NewRecord
  <1>2. mem'[a] = NewRecord(a, p, e) /\ \A b \in App \ {a} : mem'[b] = mem[b]
    BY <1>1 DEF Types
  <1> QED
    BY <1>1, <1>2 DEF NewRecord

\* A stop and the end of a lease change one record, which does not run any more, or
\* leave it and its deadline as they are, unless no manager runs the app.
LEMMA EndsLease ==
    ASSUME Base, NEW a \in App, Stop(a) \/ TtlFires(a) \/ StopAll(a)
    PROVE  /\ now' = now /\ plain' = plain
           /\ \A b \in App \ {a} :
                mem'[b] = mem[b] /\ armed'[b] = armed[b] /\ (b \in stuck => b \in stuck')
           /\ \/ mem'[a] # None /\ mem'[a].status # "running"
              \/ /\ mem'[a] = mem[a]
                 /\ \/ armed'[a] = armed[a] /\ (a \in stuck => a \in stuck')
                    \/ ~Recorded(a) \/ a \in stuck'
  <1>1. /\ Settled(a) /\ Types /\ armed' \in {armed, [armed EXCEPT ![a] = 0]}
    BY EndCases DEF Settled, Base
  <1>7. \A b \in App \ {a} : armed'[b] = armed[b]
    BY <1>1 DEF Types
  <1>2. ASSUME NEW r \in Record, r # None, r.status # "running", mem' = [mem EXCEPT ![a] = r]
        PROVE  /\ mem'[a] # None /\ mem'[a].status # "running"
               /\ \A b \in App \ {a} : mem'[b] = mem[b]
    BY <1>1, <1>2 DEF Types
  <1>3. ASSUME NEW s \in {"stopped", "expired", "failed"}, Ending(a, s)
        PROVE  /\ now' = now /\ plain' = plain /\ stuck' = stuck
               /\ mem'[a] # None /\ mem'[a].status # "running"
               /\ \A b \in App \ {a} : mem'[b] = mem[b]
    <2>1. now' = now /\ plain' = plain /\ stuck' = stuck
      BY <1>1, <1>3, EndingIs
    <2>2. PICK r \in Record : /\ r.status = s /\ r.pid = 0 /\ r.id = mem[a].id /\ r # None
                              /\ r.expires = mem[a].expires /\ mem' = [mem EXCEPT ![a] = r]
      BY <1>1, <1>3, EndingIs
    <2> QED
      BY <2>1, <2>2, <1>2
  <1>4. CASE StopFails(a)
    <2>1. now' = now /\ plain' = plain /\ mem' = mem /\ stuck' = stuck \cup {a}
      BY <1>1, <1>4, StopFailsIs
    <2> QED
      BY <1>7, <2>1
  <1>5. CASE Recorded(a) /\ ExpiresUnmanaged(a)
    <2>1. now' = now /\ plain' = plain /\ stuck' = stuck \ {a}
      BY <1>1, <1>5, UnmanagedIs
    <2>2. PICK r \in Record : /\ r.status = "expired" /\ r.pid = 0 /\ r.id = mem[a].id /\ r # None
                              /\ r.expires = mem[a].expires /\ mem' = [mem EXCEPT ![a] = r]
      BY <1>1, <1>5, UnmanagedIs
    <2> QED
      BY <1>1, <1>2, <1>7, <2>1, <2>2 DEF Types
  <1>6. CASE Idle /\ (armed' = armed \/ ~Recorded(a) \/ ~Running(a))
    <2>1. now' = now /\ plain' = plain /\ mem' = mem /\ stuck' = stuck
      BY <1>6 DEF Idle
    <2>2. ~Running(a) => ~Recorded(a) \/ a \in stuck
      BY <1>1 DEF Base, AppRight, RunsRight
    <2> QED
      BY <1>6, <1>7, <2>1, <2>2
  <1> QED
    BY <1>3, <1>4, <1>5, <1>6, <1>7, EndCases

\* What may be known of the leases while the server boots.
LEMMA LeaseBootStep ==
    ASSUME Base, LeaseInv, [Next]_vars, phase' = "revive", NEW b \in App, Settled(b)'
    PROVE  LeaseRight(b)'
  <1>0. Types /\ b \notin todo'
    BY DEF Base, Settled, Serving
  <1>1. CASE ProcessExits \/ PidIsReused \/ HostRestarts \/ TimePasses \/ UNCHANGED vars
    <2>1. UNCHANGED <<phase, todo, mem, armed, plain, stuck>> /\ now' \in {now, now + 1}
      BY <1>1 DEF ProcessExits, PidIsReused, HostRestarts, TimePasses, vars, booting, osVars, history, spells
    <2>2. LeaseRight(b)
      BY <2>1, <1>0 DEF LeaseInv, Settled
    <2> QED
      BY <1>0, <2>1, <2>2, LeaseKeeps
  <1>2. CASE Batch
    <2>1. UNCHANGED <<phase, todo, mem, armed, now, plain, stuck>>
      BY <1>2 DEF Batch, booting, osVars, spells
    <2>2. LeaseRight(b)
      BY <2>1, <1>0 DEF LeaseInv, Settled
    <2> QED
      BY <1>0, <2>1, <2>2, LeaseKeeps
  <1>3. CASE Load \/ ReplaceState
    BY <1>3 DEF Load, ReplaceState
  <1>4. CASE CleanedUp
    BY <1>0, <1>4 DEF CleanedUp, Apps, LeaseRight, Recorded
  <1>5. ASSUME NEW a \in App,
               RestoreTerminal(a) \/ RestoreDead(a) \/ RestoreReused(a)
               \/ RestoreVerified(a) \/ RestoreUnverified(a)
        PROVE  FALSE
    BY <1>5, RestoredIs
  <1>6. ASSUME NEW a \in App, Cleanup(a)
        PROVE  FALSE
    BY <1>6, CleanupIs
  <1>7. ASSUME NEW a \in App, b # a, mem'[b] = mem[b], armed'[b] = armed[b], Reviving(a),
               b \in stuck => b \in stuck'
        PROVE  LeaseRight(b)'
    <2>1. phase = "revive" /\ todo' = todo \ {a} /\ now' = now /\ plain' = plain
      BY <1>7, RevivingIs
    <2>2. LeaseRight(b)
      BY <1>0, <1>7, <2>1 DEF LeaseInv, Settled
    <2> QED
      BY <1>0, <1>7, <2>1, <2>2, LeaseKeeps
  <1>8. ASSUME NEW a \in App, ReviveKeeps(a)
        PROVE  LeaseRight(b)'
    <2>1. Reviving(a) /\ mem' = mem /\ stuck' = stuck
          /\ armed' = [armed EXCEPT ![a] = IF loaded[a].status = "running" THEN loaded[a].expires ELSE 0]
      BY <1>8 DEF ReviveKeeps, Set
    <2>2. CASE b = a
      BY <1>0, <2>1, <2>2, RevivingIs DEF Types, LeaseRight, Recorded
    <2>3. CASE b # a
      BY <1>0, <2>1, <2>3, <1>7 DEF Types
    <2> QED
      BY <2>2, <2>3
  <1>9. ASSUME NEW a \in App, ReviveExpires(a)
        PROVE  LeaseRight(b)'
    <2>1. Reviving(a) /\ armed' = armed /\ stuck' = stuck
      BY <1>9 DEF ReviveExpires
    <2>2. PICK r \in Record : /\ r.status = "expired" /\ r.pid = 0 /\ r.id = mem[a].id /\ r # None
                              /\ mem' = [mem EXCEPT ![a] = r]
      BY <1>9, ReviveExpiresIs
    <2>3. CASE b = a
      BY <1>0, <2>2, <2>3, LeaseEnded DEF Types
    <2>4. CASE b # a
      BY <1>0, <2>1, <2>2, <2>4, <1>7 DEF Types
    <2> QED
      BY <2>3, <2>4
  <1>10. ASSUME NEW a \in App, ReviveStarts(a)
         PROVE  LeaseRight(b)'
    <2>1. /\ Reviving(a) /\ a \in AutoRestart
          /\ armed' = [armed EXCEPT ![a] = IF OutOfTime(loaded[a]) THEN 0 ELSE loaded[a].expires]
      BY <1>10 DEF ReviveStarts, Set
    <2>2. PICK p \in Pid : Started(a, p, loaded[a].expires)
      BY <1>10 DEF ReviveStarts
    <2>3. /\ mem'[a].expires = loaded[a].expires /\ stuck' = stuck \ {a}
          /\ \A c \in App \ {a} : mem'[c] = mem[c]
      BY <1>0, <2>2, StartedLease
    <2>4. CASE b = a
      <3>1. now' = now
        BY <2>1, RevivingIs
      <3> QED
        BY <1>0, <2>1, <2>3, <2>4, <3>1 DEF Types, LeaseRight, Recorded, OutOfTime
    <2>5. CASE b # a
      BY <1>0, <2>1, <2>3, <2>5, <1>7 DEF Types
    <2> QED
      BY <2>4, <2>5
  <1>11. ASSUME NEW a \in App, ReviveFails(a)
         PROVE  LeaseRight(b)'
    <2>1. /\ Reviving(a) /\ mem' = mem /\ armed' = armed /\ stuck' = stuck
          /\ loaded[a].status = "stopped"
      BY <1>11 DEF ReviveFails
    <2>2. CASE b = a
      BY <2>1, <2>2, RevivingIs, LeaseEnded
    <2>3. CASE b # a
      BY <2>1, <2>3, <1>7
    <2> QED
      BY <2>2, <2>3
  <1> QED
    BY <1>1, <1>2, <1>3, <1>4, <1>5, <1>6, <1>8, <1>9, <1>10, <1>11, BootCases

\* While requests are served, no step of a boot is possible but the last.
LEMMA ServeCases ==
    ASSUME Base, [Next]_vars, phase' = "serve"
    PROVE  \/ ProcessExits \/ PidIsReused \/ HostRestarts \/ TimePasses \/ UNCHANGED vars
           \/ Batch \/ Serve
           \/ \E a \in App : Apply(a)
           \/ \E a \in App : Start(a)
           \/ \E a \in App : Stop(a) \/ TtlFires(a) \/ StopAll(a)
           \/ \E a \in App : ExitIsSeen(a)
  <1>1. ~Load /\ ~ReplaceState /\ ~CleanedUp /\ ~Shutdown /\ ~ShutDown /\ ~Crash
    BY DEF Load, ReplaceState, CleanedUp, Shutdown, ShutDown, Crash
  <1>2. ~(\E a \in App : RestoreTerminal(a) \/ RestoreDead(a) \/ RestoreReused(a)
                         \/ RestoreVerified(a) \/ RestoreUnverified(a))
    BY RestoredIs
  <1>3. ~(\E a \in App : Cleanup(a))
    BY CleanupIs
  <1>4. ~(\E a \in App : ReviveKeeps(a) \/ ReviveExpires(a) \/ ReviveStarts(a) \/ ReviveFails(a))
    BY DEF ReviveKeeps, ReviveExpires, ReviveStarts, ReviveFails, Reviving
  <1> QED
    BY <1>1, <1>2, <1>3, <1>4, NextCases

\* What may be known of the leases while requests are served.
LEMMA LeaseServeStep ==
    ASSUME Base, LeaseInv, [Next]_vars, phase' = "serve", NEW b \in App
    PROVE  LeaseRight(b)'
  <1>0. Types
    BY DEF Base
  <1>1. CASE ProcessExits \/ PidIsReused \/ HostRestarts \/ TimePasses \/ UNCHANGED vars
    <2>1. UNCHANGED <<phase, todo, mem, armed, plain, stuck>> /\ now' \in {now, now + 1}
      BY <1>1 DEF ProcessExits, PidIsReused, HostRestarts, TimePasses, vars, booting, osVars, history, spells
    <2>2. LeaseRight(b)
      BY <2>1 DEF LeaseInv, Settled, Serving
    <2> QED
      BY <1>0, <2>1, <2>2, LeaseKeeps
  <1>2. CASE Batch \/ Serve
    <2>1. UNCHANGED <<todo, mem, armed, now, plain, stuck>> /\ (phase' = phase \/ (phase = "revive" /\ todo = {}))
      BY <1>2 DEF Batch, Serve, booting, osVars, spells
    <2>2. LeaseRight(b)
      BY <2>1 DEF LeaseInv, Settled, Serving
    <2> QED
      BY <1>0, <2>1, <2>2, LeaseKeeps
  <1>3. ASSUME NEW a \in App, b # a, mem'[b] = mem[b], armed'[b] = armed[b], phase = "serve",
               now' = now, b \in plain => b \in plain', b \in stuck => b \in stuck'
        PROVE  LeaseRight(b)'
    BY <1>0, <1>3, LeaseKeeps DEF LeaseInv, Settled, Serving
  <1>4. ASSUME NEW a \in App, Apply(a)
        PROVE  LeaseRight(b)'
    <2> DEFINE e == IF a \in Leased THEN now + 1 ELSE 0
    <2>1. /\ phase = "serve" /\ now' = now /\ armed' = [armed EXCEPT ![a] = e]
          /\ b # a => (b \in plain => b \in plain')
      BY <1>4 DEF Apply, Set, booting
    <2>2. PICK p \in Pid : Started(a, p, e)
      BY <1>4 DEF Apply
    <2> HIDE DEF e
    <2>3. /\ mem'[a].expires = e /\ stuck' = stuck \ {a}
          /\ \A c \in App \ {a} : mem'[c] = mem[c]
      BY <1>0, <2>2, StartedLease
    <2>4. CASE b = a
      BY <1>0, <2>1, <2>3, <2>4 DEF Types, LeaseRight
    <2>5. CASE b # a
      BY <1>0, <1>3, <2>1, <2>3, <2>5 DEF Types
    <2> QED
      BY <2>4, <2>5
  <1>5. ASSUME NEW a \in App, Start(a)
        PROVE  LeaseRight(b)'
    <2>1. /\ phase = "serve" /\ now' = now /\ armed' = armed /\ plain' = plain \cup {a}
      BY <1>5 DEF Start, booting
    <2>2. PICK p \in Pid : Started(a, p, KeptTerm(a))
      BY <1>5 DEF Start, KeptTerm
    <2>3. /\ mem'[a].expires = KeptTerm(a) /\ stuck' = stuck \ {a}
          /\ \A c \in App \ {a} : mem'[c] = mem[c]
      BY <1>0, <2>2, StartedLease
    <2>4. armed[a] # 0 => armed[a] = KeptTerm(a)
      BY <2>1 DEF Base, AppRight, Settled, Serving, RunsRight, KeptTerm
    <2>5. CASE b = a
      BY <2>1, <2>3, <2>4, <2>5 DEF LeaseRight
    <2>6. CASE b # a
      BY <1>3, <2>1, <2>3, <2>6
    <2> QED
      BY <2>5, <2>6
  <1>6. ASSUME NEW a \in App, Stop(a) \/ TtlFires(a) \/ StopAll(a)
        PROVE  LeaseRight(b)'
    <2>1. phase = "serve" /\ LeaseRight(b)
      BY <1>6, EndCases DEF LeaseInv, Settled, Serving
    <2>2. /\ now' = now /\ plain' = plain
          /\ \A c \in App \ {a} :
                mem'[c] = mem[c] /\ armed'[c] = armed[c] /\ (c \in stuck => c \in stuck')
      BY <1>6, EndsLease
    <2>3. CASE \/ b # a
               \/ mem'[a] = mem[a] /\ armed'[a] = armed[a] /\ (a \in stuck => a \in stuck')
      BY <1>0, <2>1, <2>2, <2>3, LeaseKeeps
    <2>4. CASE b = a /\ mem'[a] # None /\ mem'[a].status # "running"
      BY <2>4, LeaseEnded
    <2>5. CASE b = a /\ mem'[a] = mem[a] /\ (~Recorded(a) \/ a \in stuck')
      BY <2>5 DEF LeaseRight, Recorded
    <2> QED
      BY <1>6, <2>3, <2>4, <2>5, EndsLease
  <1>7. ASSUME NEW a \in App, ExitIsSeen(a)
        PROVE  LeaseRight(b)'
    <2>1. /\ phase = "serve" /\ armed' = armed /\ now' = now /\ plain' = plain /\ mem[a] \in Record
          /\ mem[a] # None /\ mem[a].status = "running" /\ Running(a)
      BY <1>7, ExitIsSeenIs
    <2>4. a \notin stuck
      BY <2>1 DEF Base, AppRight, RunsRight, Settled, Serving
    <2>2. CASE \E r \in Record : /\ r.status \in {"stopped", "failed"} /\ r.pid = 0
                                 /\ r.id = mem[a].id /\ r # None /\ r.expires = mem[a].expires
                                 /\ mem' = [mem EXCEPT ![a] = r]
      <3>1. PICK r \in Record : r.status \in {"stopped", "failed"} /\ mem' = [mem EXCEPT ![a] = r]
        BY <2>2
      <3>2. CASE b = a
        BY <1>0, <3>1, <3>2, LeaseEnded DEF Types
      <3>4. b # a => (b \in stuck => b \in stuck')
        BY <1>7 DEF ExitIsSeen, Started
      <3>3. CASE b # a
        BY <1>0, <1>3, <2>1, <3>1, <3>3, <3>4 DEF Types
      <3> QED
        BY <3>2, <3>3
    <2>3. CASE \E p \in Pid : Started(a, p, mem[a].expires)
      <3>1. /\ mem'[a].expires = mem[a].expires /\ stuck' = stuck \ {a}
            /\ \A c \in App \ {a} : mem'[c] = mem[c]
        BY <1>0, <2>3, StartedLease
      <3>2. LeaseRight(a)
        BY <2>1 DEF LeaseInv, Settled, Serving
      <3>3. CASE b = a
        BY <2>1, <2>4, <3>1, <3>2, <3>3 DEF LeaseRight, Recorded, OutOfTime
      <3>4. CASE b # a
        BY <1>3, <2>1, <3>1, <3>4
      <3> QED
        BY <3>3, <3>4
    <2> QED
      BY <1>7, <2>2, <2>3, ExitIsSeenIs
  <1> QED
    BY <1>1, <1>2, <1>4, <1>5, <1>6, <1>7, ServeCases

\* An app that runs keeps the deadline of its record, whatever steps the server
\* crashed at and however often: the boot sets it from the record, an apply gives
\* both the same, and a start or a restart by monitor changes neither; whatever is
\* armed is the record's.
THEOREM LeaseIsAlwaysKept == Spec => []LeaseIsKept
  <1>1. Init => LeaseInv
    BY DEF Init, LeaseInv, Settled, Serving
  <1>2. ASSUME Base, LeaseInv, [Next]_vars
        PROVE  LeaseInv'
    <2>1. ASSUME NEW b \in App, Settled(b)', phase' # "stopping"
          PROVE  LeaseRight(b)'
      <3>1. phase' = "serve" \/ phase' = "revive"
        BY <2>1 DEF Settled, Serving
      <3> QED
        BY <1>2, <2>1, <3>1, LeaseBootStep, LeaseServeStep
    <2> QED
      BY <2>1 DEF LeaseInv
  <1>3. Base /\ LeaseInv => LeaseIsKept
    BY DEF Base, AppRight, RunsRight, LeaseInv, LeaseIsKept, LeaseRight, Settled, Serving
  <1> QED
    BY <1>1, <1>2, <1>3, BaseAlways, BaseStep, PTL DEF Spec

----------------------------------------------------------------------------
(* Births *)

\* The parts of a step that concern processes: some may end; or one is spawned.
Ends    == births' = births /\ \A p \in Pid : proc'[p] \in {proc[p], None}
SpawnsFor(a) == \E p \in Pid : Spawned(a, p)

\* Births that the file has from now on are those of processes there are.
Records == \A b \in recorded' : b \in recorded \/ \E p \in Pid : proc[p] # None /\ proc[p].birth = b

\* The deadlines that a start may be given.
Terms(a) == {loaded[a].expires, IF a \in Leased THEN now + 1 ELSE 0, KeptTerm(a)}
LEMMA StartsAre ==
    ASSUME NEW a \in App, ReviveStarts(a) \/ Apply(a) \/ Start(a)
    PROVE  \E p \in Pid, e \in Terms(a) : Started(a, p, e)
  BY DEF ReviveStarts, Apply, Start, Terms, KeptTerm

\* A kill spawns no process, and neither does a stop.
LEMMA KilledEnds ==
    ASSUME Types, NEW m, Disposed(m), m.pid \in Pid \cup {0}, births' = births
    PROVE  Ends
  BY KilledIs DEF Ends

\* A save adds the births of processes there are.
LEMMA PersistedRecords ==
    ASSUME Types, Persisted(mem)
    PROVE  Records
  <1>1. ASSUME NEW a \in Apps(mem), Known(a, mem[a])
        PROVE  mem[a].pid \in Pid /\ proc[mem[a].pid] # None
    BY <1>1 DEF Known, Alive, Types, Apps, Record
  <1> QED
    BY <1>1 DEF Persisted, Records

\* What a step does to the processes and to the births the file has had.
LEMMA ProcStep ==
    ASSUME Base, [Next]_vars
    PROVE  /\ Records
           /\ Ends \/ (recorded' = recorded /\ \E a \in App \cup {Stranger} : SpawnsFor(a))
  <1>0. Types
    BY DEF Base
  <1>1. ASSUME UNCHANGED <<proc, births>>
        PROVE  Ends
    BY <1>1 DEF Ends
  <1>2. ASSUME recorded' = recorded
        PROVE  Records
    BY <1>2 DEF Records
  <1>3. ASSUME NEW a \in App, NEW p \in Pid, NEW e, Started(a, p, e)
        PROVE  \E b \in App \cup {Stranger} : SpawnsFor(b)
    BY <1>3 DEF Started, SpawnsFor
  <1>4. CASE ProcessExits \/ HostRestarts \/ TimePasses \/ UNCHANGED vars
    <2>1. recorded' = recorded
      BY <1>4 DEF ProcessExits, HostRestarts, TimePasses, vars, history, spells
    <2>2. Ends
      BY <1>0, <1>4 DEF ProcessExits, HostRestarts, TimePasses, vars, osVars, Ends, Types
    <2> QED
      BY <1>2, <2>1, <2>2
  <1>5. CASE PidIsReused
    BY <1>2, <1>5 DEF PidIsReused, SpawnsFor, history, spells
  <1>6. CASE Batch \/ CleanedUp \/ Serve \/ ShutDown
    <2>1. UNCHANGED <<proc, births>>
      BY <1>6 DEF Batch, CleanedUp, Serve, ShutDown, Ended, osVars
    <2>2. Persisted(mem) \/ recorded' = recorded
      BY <1>6 DEF Batch, CleanedUp, Serve, ShutDown
    <2> QED
      BY <1>0, <1>1, <1>2, <2>1, <2>2, PersistedRecords
  <1>7. CASE Load \/ ReplaceState \/ Shutdown \/ Crash
    <2>1. UNCHANGED <<proc, births, recorded>>
      BY <1>7 DEF Load, ReplaceState, Shutdown, Crash, Ended, osVars, history, spells
    <2> QED
      BY <1>1, <1>2, <2>1
  <1>8. ASSUME NEW a \in App,
               \/ RestoreTerminal(a) \/ RestoreDead(a) \/ RestoreReused(a)
               \/ RestoreVerified(a) \/ RestoreUnverified(a)
        PROVE  UNCHANGED <<proc, births, recorded>>
    BY <1>8 DEF RestoreTerminal, RestoreDead, RestoreReused, RestoreVerified, RestoreUnverified,
                Restored, osVars, history, spells
  <1>9. ASSUME NEW a \in App, Cleanup(a)
        PROVE  UNCHANGED <<proc, births, recorded>>
    BY <1>9, CleanupIs
  <1>10. ASSUME NEW a \in App, ReviveKeeps(a) \/ ReviveFails(a)
         PROVE  UNCHANGED <<proc, births, recorded>>
    BY <1>10 DEF ReviveKeeps, ReviveFails, Reviving
  <1>11. ASSUME NEW a \in App, ReviveExpires(a)
         PROVE  Ends /\ recorded' = recorded
    <2>1. Disposed(RestoredManager(a)) /\ births' = births /\ recorded' = recorded
      BY <1>11 DEF ReviveExpires, Disposed, Reviving
    <2>2. RestoredManager(a).pid \in Pid \cup {0}
      BY <1>11, RevivingIs DEF ReviveExpires, Record
    <2> QED
      BY <1>0, <2>1, <2>2, KilledEnds
  <1>12. ASSUME NEW a \in App, ReviveStarts(a) \/ Apply(a) \/ Start(a)
         PROVE  recorded' = recorded /\ \E b \in App \cup {Stranger} : SpawnsFor(b)
    <2>1. recorded' = recorded
      BY <1>12 DEF ReviveStarts, Apply, Start, Reviving
    <2>2. \E p \in Pid, e \in Terms(a) : Started(a, p, e)
      BY <1>12, StartsAre
    <2> QED
      BY <1>3, <2>1, <2>2
  <1>13. ASSUME NEW a \in App, Stop(a) \/ TtlFires(a) \/ StopAll(a)
         PROVE  Ends /\ recorded' = recorded
    <2>1. Settled(a)
      BY <1>13, EndCases DEF Settled
    <2>2. ASSUME NEW s \in {"stopped", "expired", "failed"}, Ending(a, s)
          PROVE  Ends /\ recorded' = recorded
      <3>1. /\ births' = births /\ recorded' = recorded
            /\ Disposed(manager[a]) /\ manager[a].pid \in Pid \cup {0}
        BY <2>1, <2>2, EndingIs DEF Manager
      <3> QED
        BY <1>0, <3>1, KilledEnds
    <2>3. CASE StopFails(a)
      BY <1>1, <2>1, <2>3, StopFailsIs
    <2>4. CASE Recorded(a) /\ ExpiresUnmanaged(a)
      BY <1>1, <2>1, <2>4, UnmanagedIs
    <2>5. CASE Idle
      BY <1>1, <2>5 DEF Idle
    <2> QED
      BY <1>13, <2>2, <2>3, <2>4, <2>5, EndCases
  <1>15. ASSUME NEW a \in App, ExitIsSeen(a)
         PROVE  recorded' = recorded /\ (Ends \/ \E b \in App \cup {Stranger} : SpawnsFor(b))
    BY <1>1, <1>3, <1>15, ExitIsSeenIs
  <1> QED
    BY <1>1, <1>2, <1>4, <1>5, <1>6, <1>7, <1>8, <1>9, <1>10, <1>11, <1>12, <1>13, <1>15, NextCases

\* No two processes are ever born at once, and the file knows of no birth that
\* has not been.
LEMMA BirthStep ==
    ASSUME Base, BirthInv, [Next]_vars
    PROVE  BirthInv'
  <1>0. Types /\ births \in Nat
    BY Bounds DEF Base, Types, Birth
  <1>1. CASE Ends
    BY <1>0, <1>1, ProcStep DEF Ends, Records, BirthInv
  <1>2. CASE recorded' = recorded /\ \E a \in App \cup {Stranger} : SpawnsFor(a)
    <2>1. PICK a \in App \cup {Stranger}, p \in Pid : Spawned(a, p)
      BY <1>2 DEF SpawnsFor
    <2>2. /\ proc'[p].birth = births + 1 /\ births' = births + 1
          /\ \A q \in Pid : q # p => proc'[q] = proc[q]
      BY <1>0, <2>1, SpawnedIs
    <2>3. \A q \in Pid : proc'[q] # None => proc'[q].birth \in 1..births'
      BY <1>0, <2>2 DEF BirthInv
    <2>4. \A q \in Pid \ {p} : proc'[q] # None => proc'[q].birth # births + 1
      BY <1>0, <2>2 DEF BirthInv
    <2>5. \A q, s \in Pid :
            proc'[q] # None /\ proc'[s] # None /\ proc'[q].birth = proc'[s].birth => q = s
      BY <1>0, <2>2, <2>4 DEF BirthInv
    <2>6. \A b \in recorded' : b <= births'
      BY <1>0, <1>2, <2>2 DEF BirthInv, Types, Birth
    <2> QED
      BY <2>3, <2>5, <2>6 DEF BirthInv
  <1> QED
    BY <1>1, <1>2, ProcStep

----------------------------------------------------------------------------
(* Identities *)

\* A record with the identity of another, or with the one of a process spawned
\* for its app.
SameId(r, s) == s # None /\ r.id = s.id
FreshId(b, r) == SpawnsFor(b) /\ r.id \in {0, births + 1}

\* A start gives one record a fresh identity.
LEMMA StartedId ==
    ASSUME Types, NEW a \in App, NEW p \in Pid, NEW e, Started(a, p, e)
    PROVE  FreshId(a, mem'[a]) /\ \A b \in App \ {a} : mem'[b] = mem[b]
  <1>1. mem' = [mem EXCEPT ![a] = NewRecord(a, p, e)] /\ Spawned(a, p)
    BY DEF Started, Announced, Set, NewRecord
  <1>2. mem'[a] = NewRecord(a, p, e) /\ \A b \in App \ {a} : mem'[b] = mem[b]
    BY <1>1 DEF Types
  <1>3. NewRecord(a, p, e).id \in {0, births + 1}
    BY DEF NewRecord
  <1> QED
    BY <1>1, <1>2, <1>3 DEF FreshId, SpawnsFor

\* An app that ends keeps its identity.
LEMMA EndsId ==
    ASSUME Base, NEW a \in App, Stop(a) \/ TtlFires(a) \/ StopAll(a)
    PROVE  /\ \A b \in App \ {a} : mem'[b] = mem[b]
           /\ mem'[a] = mem[a] \/ SameId(mem'[a], mem[a])
  <1>0. Settled(a) /\ Types
    BY EndCases DEF Settled, Base
  <1>1. ASSUME NEW r \in Record, r.id = mem[a].id, mem' = [mem EXCEPT ![a] = r], mem[a] # None
        PROVE  /\ \A b \in App \ {a} : mem'[b] = mem[b]
               /\ mem'[a] = mem[a] \/ SameId(mem'[a], mem[a])
    BY <1>0, <1>1 DEF Types, SameId
  <1>2. ASSUME NEW s \in {"stopped", "expired", "failed"}, Ending(a, s)
        PROVE  /\ \A b \in App \ {a} : mem'[b] = mem[b]
               /\ mem'[a] = mem[a] \/ SameId(mem'[a], mem[a])
    <2>1. PICK r \in Record : /\ r.status = s /\ r.pid = 0 /\ r.id = mem[a].id /\ r # None
                              /\ r.expires = mem[a].expires /\ mem' = [mem EXCEPT ![a] = r]
      BY <1>0, <1>2, EndingIs
    <2>2. mem[a] # None
      BY <1>0, <1>2, EndingIs, NoneAssumption
    <2> QED
      BY <1>1, <2>1, <2>2
  <1>3. CASE StopFails(a)
    BY <1>0, <1>3, StopFailsIs
  <1>4. CASE Recorded(a) /\ ExpiresUnmanaged(a)
    <2>1. PICK r \in Record : /\ r.status = "expired" /\ r.pid = 0 /\ r.id = mem[a].id /\ r # None
                              /\ r.expires = mem[a].expires /\ mem' = [mem EXCEPT ![a] = r]
      BY <1>0, <1>4, UnmanagedIs
    <2>2. mem[a] # None
      BY <1>4 DEF Recorded
    <2> QED
      BY <1>1, <2>1, <2>2
  <1>5. CASE Idle
    BY <1>5 DEF Idle
  <1> QED
    BY <1>2, <1>3, <1>4, <1>5, EndCases

\* What a step does to the records of one app.
LEMMA FileStep ==
    ASSUME Base, [Next]_vars, NEW b \in App
    PROVE  file'[b] \in {file[b], mem[b]}
  <1>1. \A a \in App : RestoreTerminal(a) \/ RestoreDead(a) \/ RestoreReused(a)
                       \/ RestoreVerified(a) \/ RestoreUnverified(a) => file' = file
    BY RestoredIs
  <1>2. \A a \in App : Cleanup(a) \/ ReviveKeeps(a) \/ ReviveExpires(a) \/ ReviveStarts(a)
                       \/ ReviveFails(a) => file' = file
    BY DEF Cleanup, ReviveKeeps, ReviveExpires, ReviveStarts, ReviveFails, Reviving
  <1>3. \A a \in App : Apply(a) \/ Start(a) \/ Stop(a) \/ TtlFires(a) \/ ExitIsSeen(a) \/ StopAll(a)
                       => file' = file
    BY DEF Apply, Start, Stop, TtlFires, ExitIsSeen, StopAll, StopFails, Expires, CleanupFails,
           ExpiresUnmanaged, EndsAs
  <1>4. ProcessExits \/ PidIsReused \/ HostRestarts \/ TimePasses \/ UNCHANGED vars
        \/ Load \/ ReplaceState \/ Shutdown \/ Crash => file' = file
    BY DEF ProcessExits, PidIsReused, HostRestarts, TimePasses, vars, Load, ReplaceState, Shutdown, Crash
  <1>5. Batch \/ CleanedUp \/ Serve \/ ShutDown => file' \in {file, mem}
    BY DEF Batch, CleanedUp, Serve, ShutDown, Persisted
  <1> QED
    BY <1>1, <1>2, <1>3, <1>4, <1>5, NextCases

\* Where the identity of a loaded record is from.
LEMMA LoadedStep ==
    ASSUME Base, [Next]_vars, NEW b \in App
    PROVE  \/ loaded'[b] \in {None, file[b], loaded[b], mem[b]}
           \/ SameId(loaded'[b], loaded[b])
  <1>1. ASSUME NEW a \in App,
               RestoreTerminal(a) \/ RestoreDead(a) \/ RestoreReused(a)
               \/ RestoreVerified(a) \/ RestoreUnverified(a)
        PROVE  loaded'[b] = loaded[b] \/ SameId(loaded'[b], loaded[b])
    <2>1. loaded[a] # None /\ loaded \in [App -> Record \cup {None}]
      BY <1>1, RestoredIs DEF Base, Types
    <2>2. PICK r \in Record : r # None /\ r.id = loaded[a].id /\ loaded' = [loaded EXCEPT ![a] = r]
      BY <1>1, RestoredIs
    <2> QED
      BY <2>1, <2>2 DEF SameId
  <1>2. \A a \in App : Cleanup(a) \/ ReviveKeeps(a) \/ ReviveExpires(a) \/ ReviveStarts(a)
                       \/ ReviveFails(a) => loaded' = loaded
    BY DEF Cleanup, ReviveKeeps, ReviveExpires, ReviveStarts, ReviveFails, Reviving
  <1>3. \A a \in App : Apply(a) \/ Start(a) \/ Stop(a) \/ TtlFires(a) \/ ExitIsSeen(a) \/ StopAll(a)
                       => loaded' = loaded
    BY DEF Apply, Start, Stop, TtlFires, ExitIsSeen, StopAll, StopFails, Expires, CleanupFails,
           ExpiresUnmanaged, EndsAs, booting
  <1>4. ProcessExits \/ PidIsReused \/ HostRestarts \/ TimePasses \/ UNCHANGED vars
        \/ Batch \/ ReplaceState \/ Serve \/ Shutdown => loaded' = loaded
    BY DEF ProcessExits, PidIsReused, HostRestarts, TimePasses, vars, Batch, ReplaceState, Serve, Shutdown,
           booting
  <1>5. Load \/ CleanedUp => loaded' \in {file, mem}
    BY DEF Load, CleanedUp
  <1>6. ShutDown \/ Crash => loaded'[b] = None
    BY DEF ShutDown, Crash, Ended, NoFile
  <1> QED
    BY <1>1, <1>2, <1>3, <1>4, <1>5, <1>6, NextCases

\* Where the identity of a record in memory is from.
LEMMA MemStep ==
    ASSUME Base, [Next]_vars, NEW b \in App
    PROVE  \/ mem'[b] \in {None, loaded[b], mem[b]}
           \/ SameId(mem'[b], loaded[b]) \/ SameId(mem'[b], mem[b]) \/ FreshId(b, mem'[b])
  <1>0. Types
    BY DEF Base
  <1>1. ASSUME NEW a \in App,
               RestoreTerminal(a) \/ RestoreDead(a) \/ RestoreReused(a)
               \/ RestoreVerified(a) \/ RestoreUnverified(a)
        PROVE  mem'[b] = mem[b] \/ SameId(mem'[b], loaded[b])
    <2>1. loaded[a] # None
      BY <1>1, RestoredIs
    <2>2. PICK r \in Record : r.id = loaded[a].id /\ (mem' = mem \/ mem' = [mem EXCEPT ![a] = r])
      BY <1>1, RestoredIs
    <2> QED
      BY <1>0, <2>1, <2>2 DEF SameId, Types
  <1>2. ASSUME NEW a \in App, Cleanup(a)
        PROVE  mem'[b] = mem[b] \/ SameId(mem'[b], mem[b])
    <2>1. mem[a] # None
      BY <1>2, CleanupIs
    <2>2. mem' = mem \/ \E r \in Record : r.id = mem[a].id /\ mem' = [mem EXCEPT ![a] = r]
      BY <1>2, CleanupIs
    <2> QED
      BY <1>0, <2>1, <2>2 DEF SameId, Types
  <1>3. ASSUME NEW a \in App, ReviveExpires(a)
        PROVE  mem'[b] = mem[b] \/ SameId(mem'[b], mem[b])
    <2>1. mem[a] # None
      BY <1>3, RevivingIs DEF ReviveExpires
    <2>2. PICK r \in Record : /\ r.status = "expired" /\ r.pid = 0 /\ r.id = mem[a].id /\ r # None
                              /\ mem' = [mem EXCEPT ![a] = r]
      BY <1>3, ReviveExpiresIs
    <2> QED
      BY <1>0, <2>1, <2>2 DEF SameId, Types
  <1>4. ASSUME NEW a \in App, ReviveStarts(a) \/ Apply(a) \/ Start(a)
        PROVE  mem'[b] = mem[b] \/ FreshId(b, mem'[b])
    <2>1. PICK p \in Pid, e \in Terms(a) : Started(a, p, e)
      BY <1>4, StartsAre
    <2> QED
      BY <1>0, <2>1, StartedId
  <1>5. ASSUME NEW a \in App, Stop(a) \/ TtlFires(a) \/ StopAll(a)
        PROVE  mem'[b] = mem[b] \/ SameId(mem'[b], mem[b])
    BY <1>5, EndsId
  <1>6. ASSUME NEW a \in App, ExitIsSeen(a)
        PROVE  mem'[b] = mem[b] \/ SameId(mem'[b], mem[b]) \/ FreshId(b, mem'[b])
    <2>1. mem[a] # None
      BY <1>6, ExitIsSeenIs
    <2>2. CASE \E r \in Record : /\ r.status \in {"stopped", "failed"} /\ r.pid = 0
                                 /\ r.id = mem[a].id /\ r # None /\ r.expires = mem[a].expires
                                 /\ mem' = [mem EXCEPT ![a] = r]
      BY <1>0, <2>1, <2>2 DEF SameId, Types
    <2>3. CASE \E p \in Pid : Started(a, p, mem[a].expires)
      BY <1>0, <2>3, StartedId
    <2> QED
      BY <1>6, <2>2, <2>3, ExitIsSeenIs
  <1>7. \A a \in App : ReviveKeeps(a) \/ ReviveFails(a) => mem' = mem
    BY DEF ReviveKeeps, ReviveFails
  <1>8. ProcessExits \/ PidIsReused \/ HostRestarts \/ TimePasses \/ UNCHANGED vars
        \/ Batch \/ CleanedUp \/ Serve \/ Shutdown => mem' = mem
    BY DEF ProcessExits, PidIsReused, HostRestarts, TimePasses, vars, Batch, CleanedUp, Serve, Shutdown
  <1>9. Load \/ ShutDown \/ Crash => mem'[b] = None
    BY DEF Load, ShutDown, Crash, Ended, NoFile
  <1>10. ReplaceState => mem' = loaded
    BY DEF ReplaceState
  <1> QED
    BY <1>1, <1>2, <1>3, <1>4, <1>5, <1>6, <1>7, <1>8, <1>9, <1>10, NextCases

\* The same of a record after the step.
OwnedNext(a, r) ==
    r # None => /\ r.id <= births'
                /\ \A p \in Pid : proc'[p] # None /\ proc'[p].birth = r.id => proc'[p].app = a

\* A record that is of no other app's process stays so: births do not come again.
LEMMA OwnedKeeps ==
    ASSUME Base, BirthInv, [Next]_vars, NEW a \in App, NEW r \in Record \cup {None}, Owned(a, r)
    PROVE  OwnedNext(a, r)
  <1>0. Types /\ births \in Nat
    BY Bounds DEF Base, Types, Birth
  <1>1. CASE r = None
    BY <1>1 DEF OwnedNext
  <1>2. CASE r # None
    <2>1. r.id \in Nat
      BY <1>2, Bounds DEF Record, Birth
    <2>2. CASE Ends
      BY <1>2, <2>2 DEF Ends, Owned, OwnedNext
    <2>3. CASE \E b \in App \cup {Stranger} : SpawnsFor(b)
      <3>1. PICK b \in App \cup {Stranger}, p \in Pid : Spawned(b, p)
        BY <2>3 DEF SpawnsFor
      <3>2. /\ proc'[p].birth = births + 1 /\ births' = births + 1
            /\ \A q \in Pid : q # p => proc'[q] = proc[q]
        BY <1>0, <3>1, SpawnedIs
      <3> QED
        BY <1>0, <1>2, <2>1, <3>2 DEF Owned, OwnedNext
    <2> QED
      BY <2>2, <2>3, ProcStep
  <1> QED
    BY <1>1, <1>2

\* A new identity is the new process's, or none.
LEMMA FreshOwned ==
    ASSUME Base, BirthInv, NEW b \in App, NEW r, FreshId(b, r)
    PROVE  OwnedNext(b, r)
  <1>0. Types /\ births \in Nat
    BY Bounds DEF Base, Types, Birth
  <1>1. PICK p \in Pid : Spawned(b, p)
    BY DEF FreshId, SpawnsFor
  <1>2. /\ proc'[p].birth = births + 1 /\ proc'[p].app = b /\ births' = births + 1
        /\ \A q \in Pid : q # p => proc'[q] = proc[q]
    BY <1>0, <1>1, SpawnedIs
  <1>3. \A q \in Pid \ {p} : proc[q] # None => proc[q].birth \in 1..births
    BY DEF BirthInv
  <1>4. r.id \in {0, births + 1}
    BY DEF FreshId
  <1> QED
    BY <1>0, <1>2, <1>3, <1>4 DEF OwnedNext

\* No record ever has the identity of another app's process.
LEMMA IdStep ==
    ASSUME Base, BirthInv, IdInv, [Next]_vars
    PROVE  IdInv'
  <1>1. ASSUME NEW b \in App
        PROVE  OwnedNext(b, file'[b]) /\ OwnedNext(b, loaded'[b]) /\ OwnedNext(b, mem'[b])
    <2>1. \A r \in {None, file[b], loaded[b], mem[b]} : OwnedNext(b, r)
      <3>1. \A r \in {None, file[b], loaded[b], mem[b]} : Owned(b, r) /\ r \in Record \cup {None}
        BY DEF IdInv, Owned, Base, Types
      <3> QED
        BY <3>1, OwnedKeeps
    <2>2. \A r : SameId(r, loaded[b]) \/ SameId(r, mem[b]) => OwnedNext(b, r)
      BY <2>1 DEF SameId, OwnedNext
    <2>3. \A r : FreshId(b, r) => OwnedNext(b, r)
      BY FreshOwned
    <2>4. OwnedNext(b, file'[b])
      BY <2>1, FileStep
    <2>5. OwnedNext(b, loaded'[b])
      BY <2>1, <2>2, LoadedStep
    <2>6. OwnedNext(b, mem'[b])
      BY <2>1, <2>2, <2>3, MemStep
    <2> QED
      BY <2>4, <2>5, <2>6
  <1> QED
    BY <1>1 DEF OwnedNext, IdInv, Owned

----------------------------------------------------------------------------
(* The authority to kill *)

\* While the server remembers a PID, no process of another app gets it.
EarnedNext(a, p) == p # 0 /\ proc'[p] # None => proc'[p].app = a

\* A PID that was the app's own stays so, or is nobody's.
LEMMA EarnedKeeps ==
    ASSUME Base, ~PidsComeRound, [Next]_vars, NEW a \in App, NEW p \in Pid \cup {0},
           p = 0 \/ Remembered(p), Earned(a, p)
    PROVE  EarnedNext(a, p)
  <1>1. CASE p = 0
    BY <1>1 DEF EarnedNext
  <1>2. CASE p # 0 /\ Ends
    BY <1>2 DEF Ends, Earned, EarnedNext, Alive
  <1>3. CASE p # 0 /\ \E b \in App \cup {Stranger} : SpawnsFor(b)
    <2>1. PICK b \in App \cup {Stranger}, q \in Pid : Spawned(b, q)
      BY <1>3 DEF SpawnsFor
    <2>2. ~Remembered(q) /\ \A s \in Pid : s # q => proc'[s] = proc[s]
      BY <2>1, SpawnedIs DEF Base
    <2> QED
      BY <1>3, <2>2 DEF Earned, EarnedNext, Alive
  <1> QED
    BY <1>1, <1>2, <1>3, ProcStep

\* What a step does to the manager of one app.
LEMMA ManagerStep ==
    ASSUME Base, [Next]_vars, NEW b \in App
    PROVE  \/ manager'[b] \in {None, manager[b]} \/ ~manager'[b].running
           \/ ReviveKeeps(b)
           \/ \E p \in Pid : Spawned(b, p) /\ manager'[b].pid = p
  <1>0. Types
    BY DEF Base
  <1>1. ASSUME NEW a \in App, NEW p \in Pid, NEW e, Started(a, p, e)
        PROVE  manager'[b] = manager[b] \/ \E q \in Pid : Spawned(b, q) /\ manager'[b].pid = q
    <2>1. manager' = [manager EXCEPT ![a] = NewManager(p)] /\ Spawned(a, p) /\ NewManager(p).pid = p
      BY <1>1 DEF Started, Set, NewManager
    <2> QED
      BY <1>0, <2>1 DEF Types
  <1>2. ASSUME NEW a \in App, ReviveStarts(a) \/ Apply(a) \/ Start(a)
        PROVE  manager'[b] = manager[b] \/ \E q \in Pid : Spawned(b, q) /\ manager'[b].pid = q
    <2>1. PICK p \in Pid, e \in Terms(a) : Started(a, p, e)
      BY <1>2, StartsAre
    <2> QED
      BY <1>1, <2>1
  <1>3. ASSUME NEW a \in App, ReviveExpires(a)
        PROVE  manager'[b] = manager[b] \/ ~manager'[b].running
    <2>1. PICK m \in Manager : ~m.running /\ m # None /\ manager' = [manager EXCEPT ![a] = m]
      BY <1>3, ReviveExpiresIs
    <2> QED
      BY <1>0, <2>1 DEF Types
  <1>4. ASSUME NEW a \in App, Stop(a) \/ TtlFires(a) \/ StopAll(a)
        PROVE  manager'[b] = manager[b] \/ ~manager'[b].running
    <2>0. Settled(a)
      BY <1>4, EndCases DEF Settled
    <2>1. CASE \E m \in Manager : ~m.running /\ manager' = [manager EXCEPT ![a] = m]
      BY <1>0, <2>1 DEF Types
    <2>2. CASE manager' = manager
      BY <2>2
    <2>3. \A s \in {"stopped", "expired", "failed"} : Ending(a, s) =>
            \E m \in Manager : ~m.running /\ manager' = [manager EXCEPT ![a] = m]
      BY <2>0, EndingIs
    <2>4. StopFails(a) => \E m \in Manager : ~m.running /\ manager' = [manager EXCEPT ![a] = m]
      BY <2>0, StopFailsIs
    <2>5. Recorded(a) /\ ExpiresUnmanaged(a) => manager' = manager
      BY <2>0, UnmanagedIs
    <2>6. Idle => manager' = manager
      BY DEF Idle
    <2> QED
      BY <1>4, <2>1, <2>2, <2>3, <2>4, <2>5, <2>6, EndCases
  <1>5. ASSUME NEW a \in App, ExitIsSeen(a)
        PROVE  \/ manager'[b] = manager[b] \/ ~manager'[b].running
               \/ \E q \in Pid : Spawned(b, q) /\ manager'[b].pid = q
    <2>1. CASE \E m \in Manager : ~m.running /\ manager' = [manager EXCEPT ![a] = m]
      BY <1>0, <2>1 DEF Types
    <2>2. CASE \E p \in Pid : Started(a, p, mem[a].expires)
      BY <1>1, <2>2
    <2> QED
      BY <1>5, <2>1, <2>2, ExitIsSeenIs
  <1>6. ASSUME NEW a \in App, ReviveKeeps(a) \/ ReviveFails(a)
        PROVE  manager'[b] \in {None, manager[b]} \/ ReviveKeeps(b)
    BY <1>0, <1>6 DEF ReviveKeeps, ReviveFails, Set, Types
  <1>7. \A a \in App : RestoreTerminal(a) \/ RestoreDead(a) \/ RestoreReused(a)
                       \/ RestoreVerified(a) \/ RestoreUnverified(a) => manager' = manager
    BY RestoredIs
  <1>8. \A a \in App : Cleanup(a) => manager' = manager
    BY CleanupIs
  <1>9. ProcessExits \/ PidIsReused \/ HostRestarts \/ TimePasses \/ UNCHANGED vars \/ Load
        \/ Batch \/ ReplaceState \/ CleanedUp \/ Serve \/ Shutdown => manager' = manager
    BY DEF ProcessExits, PidIsReused, HostRestarts, TimePasses, vars, Batch, ReplaceState, CleanedUp, Serve,
           Shutdown, Load
  <1>10. ShutDown \/ Crash => manager'[b] = None
    BY DEF ShutDown, Crash, Ended
  <1> QED
    BY <1>2, <1>3, <1>4, <1>5, <1>6, <1>7, <1>8, <1>9, <1>10, NextCases

\* Of an app that is verified, and to which the boot has still to come, the loaded
\* record keeps its PID, or loses it; and an app is verified only when the process
\* of its PID is the one of its record.
LEMMA VerifiedStep ==
    ASSUME Base, [Next]_vars, NEW b \in App, b \in verified', ~Settled(b)', Base'
    PROVE  \/ RestoreVerified(b)
           \/ /\ b \in verified /\ ~Settled(b)
              /\ loaded[b] # None => loaded'[b] # None /\ loaded'[b].pid \in {loaded[b].pid, 0}
  <1>0. Types /\ phase' \in {"restore", "cleanup", "revive"} /\ (phase' = "revive" => b \in todo')
    BY DEF Settled, Serving, Base, DownInv, Down, Types
  <1>1. CASE ProcessExits \/ PidIsReused \/ HostRestarts \/ TimePasses \/ UNCHANGED vars \/ Batch
    <2>1. UNCHANGED <<phase, todo, loaded, verified>>
      BY <1>1 DEF ProcessExits, PidIsReused, HostRestarts, TimePasses, vars, booting, Batch
    <2> QED
      BY <2>1 DEF Settled, Serving
  <1>2. CASE Load
    BY <1>2 DEF Load, Base, DownInv
  <1>3. CASE ReplaceState
    BY <1>3 DEF ReplaceState, Settled, Serving
  <1>4. CASE CleanedUp
    <2>1. phase = "cleanup" /\ loaded' = mem /\ verified' = verified
      BY <1>4 DEF CleanedUp
    <2>2. loaded[b] # None => mem[b] # None /\ (mem[b] = loaded[b] \/ mem[b].pid = 0)
      BY <2>1 DEF Base, AppRight, PhaseRight
    <2> QED
      BY <2>1, <2>2 DEF Settled, Serving
  <1>5. ASSUME NEW a \in App,
               RestoreTerminal(a) \/ RestoreDead(a) \/ RestoreReused(a)
               \/ RestoreVerified(a) \/ RestoreUnverified(a),
               ~RestoreVerified(b)
        PROVE  /\ b \in verified /\ ~Settled(b)
               /\ loaded[b] # None => loaded'[b] # None /\ loaded'[b].pid \in {loaded[b].pid, 0}
    <2>1. /\ phase = "restore"
          /\ verified' = verified \/ (verified' = verified \cup {a} /\ RestoreVerified(a))
      BY <1>5, RestoredIs
    <2>2. PICK r \in Record : /\ r # None /\ loaded' = [loaded EXCEPT ![a] = r]
                              /\ r.pid = loaded[a].pid \/ r.pid = 0
      BY <1>5, RestoredIs
    <2> QED
      BY <1>0, <1>5, <2>1, <2>2 DEF Settled, Serving, Types
  <1>6. ASSUME NEW a \in App, Cleanup(a)
        PROVE  UNCHANGED <<phase, loaded, verified>> /\ phase = "cleanup"
    BY <1>6, CleanupIs
  <1>7. ASSUME NEW a \in App, ReviveKeeps(a) \/ ReviveExpires(a) \/ ReviveStarts(a) \/ ReviveFails(a)
        PROVE  UNCHANGED <<phase, loaded, verified>> /\ b \in todo
    <2>1. Reviving(a)
      BY <1>7 DEF ReviveKeeps, ReviveExpires, ReviveStarts, ReviveFails
    <2> QED
      BY <1>0, <2>1 DEF Reviving
  <1>8. CASE UNCHANGED <<phase, loaded, verified>> /\ (phase = "cleanup" \/ b \in todo)
    BY <1>0, <1>8 DEF Settled, Serving
  <1> QED
    BY <1>0, <1>1, <1>2, <1>3, <1>4, <1>5, <1>6, <1>7, <1>8, BootCases

\* An adopted app has the authority to kill only if its process was seen to be its
\* own when the server booted.
LEMMA AuthorityStep ==
    ASSUME Base, Base', IdInv, AuthorityInv, ~PidsComeRound, [Next]_vars
    PROVE  AuthorityInv'
  <1>0. Types
    BY DEF Base
  <1>1. ASSUME NEW b \in verified', ~Settled(b)'
        PROVE  loaded'[b] # None /\ EarnedNext(b, loaded'[b].pid)
    <2>0. b \in App
      BY <1>1 DEF Base, Types
    <2>1. CASE RestoreVerified(b)
      <3>1. loaded[b] # None /\ loaded[b] \in Record /\ proc' = proc
        BY <2>0, <2>1, RestoredIs
      <3>2. /\ loaded' = [loaded EXCEPT ![b] = [loaded[b] EXCEPT !.status = "running"]]
            /\ Alive(loaded[b].pid) /\ loaded[b].id = proc[loaded[b].pid].birth
        BY <2>1 DEF RestoreVerified, Restored, Set
      <3>3. [loaded[b] EXCEPT !.status = "running"] # None
            /\ [loaded[b] EXCEPT !.status = "running"].pid = loaded[b].pid
        BY <3>1, FoundRecord
      <3>4. loaded[b].pid \in Pid /\ proc[loaded[b].pid] # None
        BY <3>1, <3>2 DEF Alive, Record
      <3>5. proc[loaded[b].pid].app = b
        BY <2>0, <3>1, <3>2, <3>4 DEF IdInv, Owned
      <3> QED
        BY <1>0, <2>0, <3>1, <3>2, <3>3, <3>5 DEF EarnedNext, Types
    <2>2. CASE /\ b \in verified /\ ~Settled(b)
               /\ loaded[b] # None => loaded'[b] # None /\ loaded'[b].pid \in {loaded[b].pid, 0}
      <3>1. loaded[b] # None /\ Earned(b, loaded[b].pid) /\ loaded[b].pid \in Pid \cup {0}
        BY <1>0, <2>0, <2>2 DEF AuthorityInv, Types, Record
      <3>2. Remembered(loaded[b].pid)
        BY <2>0, <3>1 DEF Remembered
      <3>3. EarnedNext(b, loaded[b].pid)
        BY <2>0, <3>1, <3>2, EarnedKeeps
      <3> QED
        BY <2>2, <3>1, <3>3 DEF EarnedNext
    <2> QED
      BY <1>1, <2>0, <2>1, <2>2, VerifiedStep
  <1>2. ASSUME NEW b \in App, manager'[b] # None, manager'[b].running, manager'[b].authority
        PROVE  EarnedNext(b, manager'[b].pid)
    <2>1. CASE manager'[b] = manager[b]
      <3>1. Running(b) /\ Earned(b, manager[b].pid) /\ manager[b].pid \in Pid \cup {0}
        BY <1>0, <1>2, <2>1 DEF AuthorityInv, Running, Types, Manager
      <3>2. Remembered(manager[b].pid)
        BY <3>1 DEF Remembered, Running
      <3> QED
        BY <2>1, <3>1, <3>2, EarnedKeeps
    <2>2. CASE ReviveKeeps(b)
      <3>1. /\ Reviving(b) /\ manager' = [manager EXCEPT ![b] = RestoredManager(b)]
        BY <2>2 DEF ReviveKeeps, Set
      <3>2. b \in verified /\ manager'[b].pid = loaded[b].pid
        BY <1>0, <1>2, <3>1, RevivingIs DEF Types
      <3>3. /\ loaded[b] # None /\ Earned(b, loaded[b].pid) /\ loaded[b].pid \in Pid \cup {0}
        BY <1>0, <3>1, <3>2, RevivingIs DEF AuthorityInv, Settled, Serving, Record
      <3>4. Remembered(loaded[b].pid)
        BY <3>3 DEF Remembered
      <3> QED
        BY <3>2, <3>3, <3>4, EarnedKeeps
    <2>3. CASE \E p \in Pid : Spawned(b, p) /\ manager'[b].pid = p
      BY <1>0, <2>3, SpawnedIs DEF EarnedNext
    <2> QED
      BY <1>2, <2>1, <2>2, <2>3, ManagerStep
  <1> QED
    BY <1>1, <1>2 DEF AuthorityInv, Running, Earned, EarnedNext, Alive

\* Births and identities are always as BirthInv and IdInv say.
LEMMA IdAlways == Spec => [](Base /\ BirthInv /\ IdInv)
  <1>1. Init => BirthInv /\ IdInv
    BY Bounds DEF Init, BirthInv, IdInv, Owned, NoFile
  <1> QED
    BY <1>1, BaseInit, BaseStep, BirthStep, IdStep, PTL DEF Spec

\* As long as PIDs do not come round while the server runs, a manager may kill its
\* own app's process only, whatever took its PID between a crash and a boot: the
\* identity in a record is never another app's, and what was verified stays so.
THEOREM AuthorityIsAlwaysEarned ==
    ASSUME ~PidsComeRound
    PROVE  Spec => []AuthorityIsEarned
  <1>1. Init => AuthorityInv
    BY DEF Init, AuthorityInv, Running
  <1>2. AuthorityInv => AuthorityIsEarned
    BY DEF AuthorityInv, AuthorityIsEarned, Earned
  <1> QED
    BY <1>1, <1>2, IdAlways, BaseStep, AuthorityStep, PTL DEF Spec

----------------------------------------------------------------------------
(* The processes of the file *)

\* What KeptInv says of a process that lives on.
KeptNext(p) ==
    /\ Names(file'[proc[p].app], p)
    /\ phase' \in {"restore", "cleanup"} => Names(loaded'[proc[p].app], p)
    /\ phase' \in {"cleanup", "revive", "serve", "stopping"} => Names(mem'[proc[p].app], p)

\* What KeptInv says of one process.
LEMMA KeptIs ==
    ASSUME Base, KeptInv, NEW p \in Kept
    PROVE  /\ p \in Pid /\ proc[p] # None /\ proc[p].app \in App /\ Alive(p)
           /\ proc[p].birth \in recorded /\ proc[p].birth \notin spared
           /\ Names(file[proc[p].app], p)
           /\ phase \in {"restore", "cleanup"} => Names(loaded[proc[p].app], p)
           /\ phase \in {"cleanup", "revive", "serve", "stopping"} => Names(mem[proc[p].app], p)
  BY Bounds DEF Base, Types, KeptInv, Kept, Ours, Process, Alive, Serving

\* A save: the processes that the file has from now on are those that memory names.
LEMMA KeptPersist ==
    ASSUME Base, BirthInv, KeptInv, Persisted(mem),
           phase \in {"cleanup", "revive", "serve", "stopping"},
           NEW p \in Ours, proc[p].birth \in recorded' \ spared
    PROVE  Names(mem[proc[p].app], p)
  <1>1. CASE p \in Kept
    BY <1>1, KeptIs
  <1>2. CASE p \notin Kept
    <2>1. proc[p].birth \notin recorded /\ p \in Pid /\ proc[p] # None
      BY <1>2 DEF Kept, Ours
    <2>2. PICK a \in Apps(mem) : Known(a, mem[a]) /\ proc[mem[a].pid].birth = proc[p].birth
      BY <2>1 DEF Persisted
    <2>3. /\ mem[a] \in Record /\ mem[a] # None /\ mem[a].pid \in Pid /\ proc[mem[a].pid] # None
          /\ Sound(mem[a])
      BY <2>2 DEF Known, Alive, Base, Types, AppRight, Apps, Record
    <2>4. mem[a].pid = p
      BY <2>1, <2>2, <2>3 DEF BirthInv
    <2>5. p # 0
      BY <2>1, Bounds
    <2> QED
      BY <2>2, <2>3, <2>4, <2>5 DEF Known, Names, Sound
  <1> QED
    BY <1>1, <1>2

\* Otherwise they are the ones it had.
LEMMA KeptSame ==
    ASSUME Base, BirthInv, [Next]_vars, recorded' = recorded, spared \subseteq spared', NEW p \in Kept'
    PROVE  p \in Kept /\ proc'[p] = proc[p] /\ proc[p].birth \notin spared'
  <1>0. /\ Types /\ births \in Nat
        /\ p \in Pid /\ proc'[p] # None /\ proc'[p].app # Stranger
        /\ proc'[p].birth \in recorded /\ proc'[p].birth \notin spared'
    BY Bounds DEF Base, Types, Birth, Kept, Ours
  <1>1. CASE Ends
    BY <1>0, <1>1 DEF Ends, Kept, Ours
  <1>2. CASE \E a \in App \cup {Stranger} : SpawnsFor(a)
    <2>1. PICK a \in App \cup {Stranger}, q \in Pid : Spawned(a, q)
      BY <1>2 DEF SpawnsFor
    <2>2. proc'[q].birth = births + 1 /\ \A s \in Pid : s # q => proc'[s] = proc[s]
      BY <1>0, <2>1, SpawnedIs
    <2>3. p # q
      BY <1>0, <2>2 DEF BirthInv
    <2> QED
      BY <1>0, <2>2, <2>3 DEF Kept, Ours
  <1> QED
    BY <1>1, <1>2, ProcStep

\* A process that lives on unspared is not the one of a stop.
LEMMA KilledKept ==
    ASSUME Base, KeptInv, NEW p \in Kept, NEW m, Disposed(m), m.pid \in Pid \cup {0},
           proc'[p] = proc[p], proc[p].birth \notin spared'
    PROVE  m.pid # p
  <1>1. Alive(p) /\ proc[p] # None
    BY KeptIs
  <1>2. Alive(m.pid) => proc'[m.pid] = None \/ proc[m.pid].birth \in spared'
    BY KilledIs DEF Base
  <1> QED
    BY <1>1, <1>2

\* The boot's steps.
LEMMA KeptBootStep ==
    ASSUME Base, KeptInv, NEW p \in Kept, proc'[p] = proc[p], proc[p].birth \notin spared',
           NEW a \in App,
           \/ RestoreTerminal(a) \/ RestoreDead(a) \/ RestoreReused(a)
           \/ RestoreVerified(a) \/ RestoreUnverified(a)
           \/ Cleanup(a)
           \/ ReviveKeeps(a) \/ ReviveExpires(a) \/ ReviveStarts(a) \/ ReviveFails(a)
    PROVE  KeptNext(p)
  <1>0. Types /\ proc[p].app \in App /\ Alive(p) /\ Names(file[proc[p].app], p)
    BY KeptIs DEF Base
  <1>1. CASE \/ RestoreTerminal(a) \/ RestoreDead(a) \/ RestoreReused(a)
             \/ RestoreVerified(a) \/ RestoreUnverified(a)
    <2>1. phase = "restore" /\ phase' = phase /\ file' = file /\ loaded[a] \in Record
      BY <1>1, RestoredIs
    <2>2. Names(loaded[proc[p].app], p)
      BY <2>1, KeptIs
    <2>3. CASE proc[p].app = a
      <3>1. /\ loaded[a].status = "running" /\ loaded[a].pid = p
            /\ loaded[a].id \in {0, proc[loaded[a].pid].birth}
        BY <2>2, <2>3 DEF Names
      <3>2. RestoreVerified(a) \/ RestoreUnverified(a)
        BY <1>0, <1>1, <3>1 DEF RestoreTerminal, RestoreDead, RestoreReused, Terminal
      <3>3. loaded' = [loaded EXCEPT ![a] = [loaded[a] EXCEPT !.status = "running"]]
        BY <3>2 DEF RestoreVerified, RestoreUnverified, Restored, Set
      <3>4. Names(loaded'[a], p)
        BY <1>0, <2>1, <2>2, <2>3, <3>3, FoundRecord DEF Names, Types
      <3> QED
        BY <1>0, <2>1, <2>3, <3>4 DEF KeptNext
    <2>4. CASE proc[p].app # a
      <3>1. PICK r \in Record : loaded' = [loaded EXCEPT ![a] = r] /\ r.id = loaded[a].id
        BY <1>1, RestoredIs
      <3>2. loaded'[proc[p].app] = loaded[proc[p].app]
        BY <1>0, <2>4, <3>1 DEF Types
      <3> QED
        BY <1>0, <2>1, <2>2, <3>2 DEF KeptNext
    <2> QED
      BY <2>3, <2>4
  <1>2. CASE Cleanup(a)
    <2>1. phase = "cleanup" /\ UNCHANGED <<file, phase, loaded>>
      BY <1>2, CleanupIs
    <2>2. Names(loaded[proc[p].app], p) /\ Names(mem[proc[p].app], p)
      BY <2>1, KeptIs
    <2>3. mem'[proc[p].app] = mem[proc[p].app]
      <3>1. CASE proc[p].app = a
        <4>1. Alive(mem[a].pid)
          BY <1>0, <2>2, <3>1 DEF Names
        <4> QED
          BY <1>2, <3>1, <4>1, CleanupIs
      <3>2. CASE proc[p].app # a
        <4>1. mem' = mem \/ \E r \in Record : r.id = mem[a].id /\ mem' = [mem EXCEPT ![a] = r]
          BY <1>2, CleanupIs
        <4> QED
          BY <1>0, <3>2, <4>1 DEF Types
      <3> QED
        BY <3>1, <3>2
    <2> QED
      BY <1>0, <2>1, <2>2, <2>3 DEF KeptNext
  <1>3. CASE ReviveKeeps(a) \/ ReviveExpires(a) \/ ReviveStarts(a) \/ ReviveFails(a)
    <2>1. Reviving(a)
      BY <1>3 DEF ReviveKeeps, ReviveExpires, ReviveStarts, ReviveFails
    <2>2. phase = "revive" /\ UNCHANGED <<file, phase>> /\ mem[a] = loaded[a]
      BY <2>1, RevivingIs
    <2>3. Names(mem[proc[p].app], p)
      BY <2>2, KeptIs
    <2>4. mem'[proc[p].app] = mem[proc[p].app]
      <3>1. CASE ReviveKeeps(a) \/ ReviveFails(a)
        BY <3>1 DEF ReviveKeeps, ReviveFails
      <3>2. CASE ReviveExpires(a)
        <4>1. PICK r \in Record : /\ r.status = "expired" /\ r.pid = 0 /\ r.id = mem[a].id /\ r # None
                                  /\ mem' = [mem EXCEPT ![a] = r]
          BY <3>2, ReviveExpiresIs
        <4>2. /\ Disposed(RestoredManager(a)) /\ RestoredManager(a).pid = mem[a].pid
              /\ RestoredManager(a).pid \in Pid \cup {0}
          BY <2>1, <3>2, ReviveExpiresIs, RevivingIs DEF Record
        <4>3. mem[a].pid # p
          BY <4>2, KilledKept
        <4> QED
          BY <1>0, <2>3, <4>1, <4>3 DEF Names, Types
      <3>3. CASE ReviveStarts(a)
        <4>1. /\ loaded[a].status = "stopped"
              /\ \E q \in Pid : Started(a, q, loaded[a].expires)
          BY <3>3 DEF ReviveStarts
        <4>2. proc[p].app # a
          BY <2>2, <2>3, <4>1 DEF Names
        <4> QED
          BY <1>0, <4>1, <4>2, StartedLease
      <3> QED
        BY <1>3, <3>1, <3>2, <3>3
    <2> QED
      BY <1>0, <2>2, <2>3, <2>4 DEF KeptNext
  <1> QED
    BY <1>1, <1>2, <1>3

\* The steps of requests, of timers and of the end.
LEMMA KeptServeStep ==
    ASSUME Base, KeptInv, StuckInv, NEW p \in Kept, proc'[p] = proc[p], proc[p].birth \notin spared',
           NEW a \in App,
           Apply(a) \/ Start(a) \/ Stop(a) \/ TtlFires(a) \/ ExitIsSeen(a) \/ StopAll(a)
    PROVE  KeptNext(p)
  <1>0. Types /\ proc[p].app \in App /\ Alive(p) /\ Names(file[proc[p].app], p)
    BY KeptIs DEF Base
  <1>1. Serving /\ UNCHANGED <<file, phase>>
    <2>1. CASE Apply(a) \/ Start(a) \/ ExitIsSeen(a)
      BY <2>1 DEF Apply, Start, ExitIsSeen, Accepting, Serving, booting
    <2>2. CASE Stop(a) \/ TtlFires(a) \/ StopAll(a)
      <3>1. file' = file
        BY <2>2 DEF Stop, TtlFires, StopAll, StopFails, Expires, CleanupFails, ExpiresUnmanaged, EndsAs
      <3> QED
        BY <2>2, <3>1, EndCases
    <2> QED
      BY <2>1, <2>2
  <1>2. Names(mem[proc[p].app], p)
    BY <1>1, KeptIs DEF Serving
  <1>3. RunsRight(a) /\ Settled(a)
    BY <1>1 DEF Base, AppRight, Settled
  <1>4. a \in stuck => proc[p].app # a
    <2>1. p \in Pid /\ proc[p] # None /\ proc[p].birth \notin spared
      BY KeptIs
    <2> QED
      BY <1>1, <1>2, <2>1 DEF StuckInv, Held, Names, Serving
  <1>5. mem'[proc[p].app] = mem[proc[p].app]
    <2>1. CASE Apply(a) \/ Start(a)
      <3>1. ~Running(a) /\ \E q \in Pid, e \in Terms(a) : Started(a, q, e)
        BY <2>1, StartsAre DEF Apply, Start
      <3>2. proc[p].app # a
        BY <1>2, <1>3, <1>4, <3>1 DEF Names, RunsRight, Recorded
      <3> QED
        BY <1>0, <3>1, <3>2, StartedLease
    <2>2. CASE Stop(a) \/ TtlFires(a) \/ StopAll(a)
      <3>1. ASSUME NEW s \in {"stopped", "expired", "failed"}, Ending(a, s)
            PROVE  proc[p].app # a
        <4>1. /\ Disposed(manager[a]) /\ manager[a].pid = mem[a].pid
              /\ manager[a].pid \in Pid \cup {0}
          BY <1>3, <3>1, EndingIs DEF Manager
        <4>2. mem[a].pid # p
          BY <4>1, KilledKept
        <4> QED
          BY <1>2, <4>2 DEF Names
      <3>2. StopFails(a) => mem' = mem
        BY <1>3, StopFailsIs
      <3>3. Recorded(a) /\ ExpiresUnmanaged(a) => proc[p].app # a
        BY <1>3, <1>4, UnmanagedIs
      <3>4. Idle => mem' = mem
        BY DEF Idle
      <3>5. \A b \in App \ {a} : mem'[b] = mem[b]
        BY <2>2, EndsId
      <3> QED
        BY <1>0, <2>2, <3>1, <3>2, <3>3, <3>4, <3>5, EndCases
    <2>3. CASE ExitIsSeen(a)
      <3>1. ~Alive(mem[a].pid)
        BY <2>3, ExitIsSeenIs
      <3>2. proc[p].app # a
        BY <1>0, <1>2, <3>1 DEF Names
      <3>3. CASE \E r \in Record : /\ r.status \in {"stopped", "failed"} /\ r.pid = 0
                                   /\ r.id = mem[a].id /\ r # None /\ r.expires = mem[a].expires
                                   /\ mem' = [mem EXCEPT ![a] = r]
        BY <1>0, <3>2, <3>3 DEF Types
      <3>4. CASE \E q \in Pid : Started(a, q, mem[a].expires)
        BY <1>0, <3>2, <3>4, StartedLease
      <3> QED
        BY <2>3, <3>3, <3>4, ExitIsSeenIs
    <2> QED
      BY <2>1, <2>2, <2>3
  <1> QED
    BY <1>0, <1>1, <1>2, <1>5 DEF KeptNext, Serving

\* The steps after which the file is what memory was.
LEMMA KeptPersistStep ==
    ASSUME Base, BirthInv, KeptInv, ~SlowReplay, Persisted(mem),
           Batch \/ CleanedUp \/ Serve \/ ShutDown, NEW p \in Kept'
    PROVE  proc'[p] = proc[p] /\ KeptNext(p)
  <1>1. UNCHANGED <<proc, spared>> /\ phase \in {"cleanup", "revive", "serve", "stopping"}
    BY DEF Batch, CleanedUp, Serve, ShutDown, Ended, osVars, spells, Serving
  <1>2. p \in Ours /\ proc[p].birth \in recorded' \ spared
    BY <1>1 DEF Kept, Ours
  <1>3. Names(mem[proc[p].app], p) /\ file' = mem
    BY <1>1, <1>2, KeptPersist DEF Persisted
  <1>4. \/ phase' \in {"revive", "serve", "stopping"} /\ mem' = mem
        \/ phase' = "off"
    BY DEF Batch, CleanedUp, Serve, ShutDown, Serving, booting
  <1> QED
    BY <1>1, <1>3, <1>4 DEF KeptNext

\* The steps of the server that are about no app.
LEMMA KeptServerStep ==
    ASSUME Base, KeptInv, NEW p \in Kept,
           \/ ProcessExits \/ PidIsReused \/ HostRestarts \/ TimePasses \/ UNCHANGED vars
           \/ Load \/ ReplaceState \/ Shutdown \/ Crash
           \/ CleanedUp /\ mem = loaded
    PROVE  KeptNext(p)
  <1>1. CASE ProcessExits \/ PidIsReused \/ HostRestarts \/ TimePasses \/ UNCHANGED vars \/ Shutdown
    <2>1. UNCHANGED <<file, loaded, mem>> /\ (phase' = phase \/ (phase = "serve" /\ phase' = "stopping"))
      BY <1>1 DEF ProcessExits, PidIsReused, HostRestarts, TimePasses, vars, booting, Shutdown
    <2> QED
      BY <2>1, KeptIs DEF KeptNext
  <1>2. CASE Load \/ Crash
    <2>1. file' = file /\ (phase' = "crashed" \/ (phase' = "restore" /\ loaded' = file))
      BY <1>2 DEF Load, Crash
    <2> QED
      BY <2>1, KeptIs DEF KeptNext
  <1>3. CASE ReplaceState
    <2>1. /\ phase = "restore" /\ phase' = "cleanup" /\ mem' = loaded /\ loaded' = loaded
          /\ file' = file
      BY <1>3 DEF ReplaceState
    <2> QED
      BY <2>1, KeptIs DEF KeptNext
  <1>4. CASE CleanedUp /\ mem = loaded
    <2>1. phase = "cleanup" /\ phase' = "revive" /\ mem' = mem /\ file' = file
      BY <1>4 DEF CleanedUp
    <2> QED
      BY <2>1, KeptIs DEF KeptNext
  <1> QED
    BY <1>1, <1>2, <1>3, <1>4

\* A process that a stop could not kill is not forgotten.
LEMMA Sparing ==
    ASSUME Base, [Next]_vars
    PROVE  spared \subseteq spared'
  <1>0. Types
    BY DEF Base
  <1>1. \A a \in App : StopFails(a) \/ EndsAs(a, "stopped") \/ EndsAs(a, "expired") \/ CleanupFails(a)
                       \/ ExpiresUnmanaged(a) => spared \subseteq spared'
    BY DEF StopFails, EndsAs, CleanupFails, ExpiresUnmanaged, KillFails, Killed
  <1>2. \A a \in App : Stop(a) \/ TtlFires(a) \/ StopAll(a) => spared \subseteq spared'
    BY <1>1 DEF Stop, TtlFires, StopAll, Expires, history
  <1>3. \A a \in App : ReviveExpires(a) => spared \subseteq spared'
    BY DEF ReviveExpires, Killed, KillFails
  <1>4. \A a \in App : ReviveKeeps(a) \/ ReviveStarts(a) \/ ReviveFails(a) => spared' = spared
    BY DEF ReviveKeeps, ReviveStarts, ReviveFails
  <1>5. \A a \in App : Apply(a) \/ Start(a) \/ ExitIsSeen(a) => spared' = spared
    BY DEF Apply, Start, ExitIsSeen
  <1>6. \A a \in App : RestoreTerminal(a) \/ RestoreDead(a) \/ RestoreReused(a)
                       \/ RestoreVerified(a) \/ RestoreUnverified(a) => spared' = spared
    BY RestoredIs
  <1>7. \A a \in App : Cleanup(a) => spared' = spared
    BY CleanupIs
  <1>8. ProcessExits \/ PidIsReused \/ HostRestarts \/ TimePasses \/ UNCHANGED vars \/ Load
        \/ Batch \/ ReplaceState \/ CleanedUp \/ Serve \/ Shutdown => spared' = spared
    BY DEF ProcessExits, PidIsReused, HostRestarts, TimePasses, vars, Batch, ReplaceState, CleanedUp, Serve,
           Shutdown, Load, history, spells
  <1>9. ShutDown \/ Crash => spared' = spared
    BY DEF ShutDown, Crash, Ended
  <1> QED
    BY <1>2, <1>3, <1>4, <1>5, <1>6, <1>7, <1>8, <1>9, NextCases

\* The births of the file are new only after a save.
LEMMA NotPersisted ==
    ASSUME Base, [Next]_vars, ~(Batch \/ Serve \/ ShutDown), ~(CleanedUp /\ mem # loaded)
    PROVE  recorded' = recorded
  <1>1. \A a \in App : Apply(a) \/ Start(a) \/ Stop(a) \/ TtlFires(a) \/ ExitIsSeen(a) \/ StopAll(a)
                       => recorded' = recorded
    BY DEF Apply, Start, Stop, TtlFires, ExitIsSeen, StopAll, StopFails, Expires, CleanupFails,
           ExpiresUnmanaged, EndsAs, history
  <1>2. \A a \in App : RestoreTerminal(a) \/ RestoreDead(a) \/ RestoreReused(a)
                       \/ RestoreVerified(a) \/ RestoreUnverified(a) => recorded' = recorded
    BY RestoredIs
  <1>3. \A a \in App : Cleanup(a) => recorded' = recorded
    BY CleanupIs
  <1>4. \A a \in App : ReviveKeeps(a) \/ ReviveExpires(a) \/ ReviveStarts(a) \/ ReviveFails(a)
                       => recorded' = recorded
    BY DEF ReviveKeeps, ReviveExpires, ReviveStarts, ReviveFails, Reviving
  <1>5. ProcessExits \/ PidIsReused \/ HostRestarts \/ TimePasses \/ UNCHANGED vars \/ Load
        \/ ReplaceState \/ CleanedUp \/ Shutdown \/ Crash => recorded' = recorded
    BY DEF ProcessExits, PidIsReused, HostRestarts, TimePasses, vars, ReplaceState, CleanedUp,
           Shutdown, Load, Crash, history, spells
  <1> QED
    BY <1>1, <1>2, <1>3, <1>4, <1>5, NextCases

\* A record that still says running after a stop has failed names a process that
\* is spared: a start gives the app another, and any end takes the PID away.
LEMMA StuckStep ==
    ASSUME Base, StuckInv, [Next]_vars
    PROVE  StuckInv'
  <1> SUFFICES ASSUME NEW a \in stuck', NEW p \in Pid, proc'[p] # None, proc'[p].app = a,
                      Held(a)' # None, Held(a)'.pid = p
               PROVE  proc'[p].birth \in spared'
    BY DEF StuckInv
  <1>0. Types /\ spared \subseteq spared' /\ (a \in stuck => a \in App)
    BY Sparing DEF Base, Types
  <1>1. ASSUME a \in stuck, Held(a)' = Held(a), proc'[p] = proc[p]
        PROVE  proc'[p].birth \in spared'
    BY <1>0, <1>1 DEF StuckInv
  <1>2. ASSUME a \in stuck, Serving, phase' = phase, mem'[a] = mem[a], proc'[p] = proc[p]
        PROVE  proc'[p].birth \in spared'
    BY <1>1, <1>2 DEF Held, Serving
  <1>3. CASE ProcessExits \/ HostRestarts \/ TimePasses \/ UNCHANGED vars
    <2>1. UNCHANGED <<phase, file, mem, stuck>>
      BY <1>3 DEF ProcessExits, HostRestarts, TimePasses, vars, booting, history, spells
    <2>2. proc'[p] = proc[p]
      BY <1>0, <1>3 DEF ProcessExits, HostRestarts, TimePasses, vars, osVars, Types
    <2> QED
      BY <1>1, <2>1, <2>2 DEF Held
  <1>4. CASE PidIsReused
    <2>1. PICK q \in Pid : Spawned(Stranger, q)
      BY <1>4 DEF PidIsReused
    <2>2. UNCHANGED <<phase, file, mem, stuck>>
      BY <1>4 DEF PidIsReused, booting, history, spells
    <2>3. proc'[q].app = Stranger /\ \A r \in Pid : r # q => proc'[r] = proc[r]
      BY <1>0, <2>1, SpawnedIs
    <2>4. p # q
      BY <1>0, <2>2, <2>3, Bounds
    <2> QED
      BY <1>1, <2>2, <2>3, <2>4 DEF Held
  <1>5. CASE Batch
    <2>1. UNCHANGED <<phase, proc, mem, stuck>> /\ phase # "off"
      BY <1>5 DEF Batch, Down, booting, osVars, spells
    <2> QED
      BY <1>1, <2>1 DEF Held
  <1>6. CASE Load
    BY <1>6 DEF Load
  <1>7. CASE phase \in {"restore", "cleanup", "revive"} /\ stuck' \subseteq stuck
    BY <1>0, <1>7 DEF Base, AppRight, PhaseRight
  <1>8. CASE ReplaceState \/ CleanedUp \/ Serve
    BY <1>7, <1>8 DEF ReplaceState, CleanedUp, Serve, history, spells
  <1>9. ASSUME NEW b \in App,
               \/ RestoreTerminal(b) \/ RestoreDead(b) \/ RestoreReused(b)
               \/ RestoreVerified(b) \/ RestoreUnverified(b)
        PROVE  proc'[p].birth \in spared'
    BY <1>7, <1>9, RestoredIs
  <1>10. ASSUME NEW b \in App, Cleanup(b)
         PROVE  proc'[p].birth \in spared'
    BY <1>7, <1>10, CleanupIs
  <1>11. ASSUME NEW b \in App, ReviveKeeps(b) \/ ReviveExpires(b) \/ ReviveStarts(b) \/ ReviveFails(b)
         PROVE  proc'[p].birth \in spared'
    BY <1>7, <1>11 DEF ReviveKeeps, ReviveExpires, ReviveStarts, ReviveFails, Reviving, Started
  <1>12. ASSUME NEW b \in App, NEW q \in Pid, NEW e, Started(b, q, e), Serving, phase' = phase
         PROVE  proc'[p].birth \in spared'
    <2>1. Spawned(b, q) /\ stuck' = stuck \ {b} /\ b \in App \cup {Stranger}
      BY <1>12 DEF Started
    <2>2. proc'[q].app = b /\ \A r \in Pid : r # q => proc'[r] = proc[r]
      BY <1>0, <2>1, SpawnedIs
    <2>3. a # b /\ a \in stuck /\ p # q
      BY <2>1, <2>2
    <2>4. mem'[a] = mem[a]
      BY <1>0, <1>12, <2>3, StartedLease
    <2> QED
      BY <1>2, <1>12, <2>2, <2>3, <2>4
  <1>13. ASSUME NEW b \in App, Apply(b) \/ Start(b)
         PROVE  proc'[p].birth \in spared'
    <2>1. Serving /\ phase' = phase
      BY <1>13 DEF Apply, Start, Accepting, Serving, booting
    <2> QED
      BY <1>12, <1>13, <2>1, StartsAre
  <1>14. ASSUME NEW b \in App, ExitIsSeen(b)
         PROVE  proc'[p].birth \in spared'
    <2>1. Serving /\ phase' = phase /\ Running(b)
      BY <1>14, ExitIsSeenIs
    <2>2. b \notin stuck
      BY <2>1 DEF Base, AppRight, Settled, RunsRight
    <2>3. CASE /\ \E r \in Record : /\ r.status \in {"stopped", "failed"} /\ r.pid = 0
                                    /\ r.id = mem[b].id /\ r # None /\ r.expires = mem[b].expires
                                    /\ mem' = [mem EXCEPT ![b] = r]
               /\ UNCHANGED <<proc, births, stuck>>
      <3>1. a # b /\ mem'[a] = mem[a]
        BY <1>0, <2>2, <2>3 DEF Types
      <3> QED
        BY <1>2, <2>1, <2>3, <3>1
    <2>4. CASE \E q \in Pid : Started(b, q, mem[b].expires)
      BY <1>12, <2>1, <2>4
    <2> QED
      BY <1>14, <2>3, <2>4, ExitIsSeenIs
  <1>15. ASSUME NEW b \in App, Stop(b) \/ TtlFires(b) \/ StopAll(b)
         PROVE  proc'[p].birth \in spared'
    <2>1. Serving /\ phase' = phase /\ Settled(b) /\ RunsRight(b)
      BY <1>15, EndCases DEF Settled, Base, AppRight
    <2>2. \A c \in App \ {b} : mem'[c] = mem[c]
      BY <1>15, EndsId
    <2>3. ASSUME NEW s \in {"stopped", "expired", "failed"}, Ending(b, s)
          PROVE  proc'[p].birth \in spared'
      <3>1. /\ Running(b) /\ stuck' = stuck
            /\ Disposed(manager[b]) /\ manager[b].pid \in Pid \cup {0}
        BY <2>1, <2>3, EndingIs DEF Manager
      <3>2. proc'[p] = proc[p]
        BY <1>0, <3>1, KilledIs
      <3>3. a # b
        BY <2>1, <3>1 DEF RunsRight
      <3> QED
        BY <1>0, <1>2, <2>1, <2>2, <3>1, <3>2, <3>3
    <2>4. CASE StopFails(b)
      <3>1. /\ stuck' = stuck \cup {b} /\ proc' = proc /\ mem' = mem
            /\ Disposed(manager[b]) /\ manager[b].pid = mem[b].pid
            /\ manager[b].pid \in Pid \cup {0}
        BY <2>1, <2>4, StopFailsIs DEF Manager
      <3>2. CASE a = b
        <4>1. manager[b].pid = p
          BY <2>1, <3>1, <3>2 DEF Held, Serving
        <4>2. Alive(p) => proc'[p] = None \/ proc[p].birth \in spared'
          BY <1>0, <3>1, <4>1, KilledIs
        <4> QED
          BY <3>1, <4>2, Bounds DEF Alive
      <3>3. CASE a # b
        BY <1>2, <2>1, <3>1, <3>3
      <3> QED
        BY <3>2, <3>3
    <2>5. CASE Recorded(b) /\ ExpiresUnmanaged(b)
      <3>1. stuck' = stuck \ {b} /\ proc' = proc
        BY <2>1, <2>5, UnmanagedIs
      <3> QED
        BY <1>0, <1>2, <2>1, <2>2, <3>1
    <2>6. CASE Idle
      BY <1>2, <2>1, <2>6 DEF Idle
    <2> QED
      BY <1>15, <2>3, <2>4, <2>5, <2>6, EndCases
  <1>16. CASE Shutdown
    BY <1>1, <1>16 DEF Shutdown, Held, osVars, history, spells
  <1>17. CASE ShutDown
    BY <1>1, <1>17 DEF ShutDown, Persisted, Ended, Held, osVars, spells
  <1>18. CASE Crash
    BY <1>0, <1>18 DEF Crash, Ended, Held, NoFile, spells
  <1> QED
    BY <1>3, <1>4, <1>5, <1>6, <1>8, <1>9, <1>10, <1>11, <1>13, <1>14, <1>15, <1>16, <1>17, <1>18,
       NextCases

\* Every step hands each process of the file on.
LEMMA KeptStep ==
    ASSUME Base, BirthInv, StuckInv, KeptInv, ~SlowReplay, [Next]_vars
    PROVE  KeptInv'
  <1>1. ASSUME NEW p \in Kept'
        PROVE  proc'[p] = proc[p] /\ KeptNext(p)
    <2>1. CASE Batch \/ Serve \/ ShutDown \/ (CleanedUp /\ mem # loaded)
      <3>1. Persisted(mem)
        BY <2>1 DEF Batch, Serve, ShutDown, CleanedUp
      <3> QED
        BY <2>1, <3>1, <1>1, KeptPersistStep
    <2>2. CASE ~(Batch \/ Serve \/ ShutDown) /\ ~(CleanedUp /\ mem # loaded)
      <3>1. recorded' = recorded /\ spared \subseteq spared'
        BY <2>2, NotPersisted, Sparing
      <3>2. p \in Kept /\ proc'[p] = proc[p] /\ proc[p].birth \notin spared'
        BY <3>1, <1>1, KeptSame
      <3>3. ASSUME NEW a \in App,
                   \/ RestoreTerminal(a) \/ RestoreDead(a) \/ RestoreReused(a)
                   \/ RestoreVerified(a) \/ RestoreUnverified(a)
                   \/ Cleanup(a)
                   \/ ReviveKeeps(a) \/ ReviveExpires(a) \/ ReviveStarts(a) \/ ReviveFails(a)
            PROVE  KeptNext(p)
        BY <3>2, <3>3, KeptBootStep
      <3>4. ASSUME NEW a \in App, Apply(a) \/ Start(a) \/ Stop(a) \/ TtlFires(a) \/ ExitIsSeen(a) \/ StopAll(a)
            PROVE  KeptNext(p)
        BY <3>2, <3>4, KeptServeStep
      <3>5. CASE \/ ProcessExits \/ PidIsReused \/ HostRestarts \/ TimePasses \/ UNCHANGED vars
                 \/ Load \/ ReplaceState \/ Shutdown \/ Crash
                 \/ CleanedUp /\ mem = loaded
        BY <3>2, <3>5, KeptServerStep
      <3> QED
        BY <2>2, <3>2, <3>3, <3>4, <3>5, NextCases
    <2> QED
      BY <2>1, <2>2
  <1> QED
    BY <1>1 DEF KeptInv, KeptNext, Names, Serving

\* What is known of births, of identities and of the processes of the file is
\* always so, if the replay of a boot is over before a batch is saved.
LEMMA KeptAlways ==
    ASSUME ~SlowReplay
    PROVE  Spec => [](Base /\ BirthInv /\ StuckInv /\ KeptInv)
  <1>1. Init => BirthInv /\ StuckInv /\ KeptInv
    BY Bounds DEF Init, BirthInv, StuckInv, KeptInv, Kept, Ours
  <1> QED
    BY <1>1, BaseInit, BaseStep, BirthStep, StuckStep, KeptStep, PTL DEF Spec

\* No process of ours that the file ever had is left behind by a crash at any step
\* of serving, booting or shutting down: along the boot the file, what Restore has
\* loaded and the records in memory name it, one after another, and then its
\* app's manager runs it.  A record that says running although no manager runs is
\* left by a stop that failed, and what it names is spared.  The batch must not run
\* before the replay is over.
THEOREM NobodyIsLeftBehind ==
    ASSUME ~SlowReplay
    PROVE  Spec => []NoProcessIsLeftBehind
  <1>1. ASSUME Base, StuckInv, KeptInv
        PROVE  NoProcessIsLeftBehind
    <2>1. ASSUME phase = "serve", NEW p \in Ours, proc[p].birth \in recorded \ spared
          PROVE  Running(proc[p].app) /\ manager[proc[p].app].pid = p
      <3>1. p \in Kept
        BY <2>1 DEF Kept
      <3>2. Names(mem[proc[p].app], p) /\ proc[p].app \in App
        BY <1>1, <2>1, <3>1, KeptIs
      <3>3. RunsRight(proc[p].app)
        BY <1>1, <2>1, <3>2 DEF Base, AppRight, Settled, Serving
      <3>4. proc[p].app \notin stuck
        BY <1>1, <2>1, <3>2 DEF StuckInv, Held, Names, Ours
      <3> QED
        BY <3>2, <3>3, <3>4 DEF Names, RunsRight, Recorded
    <2> QED
      BY <2>1 DEF NoProcessIsLeftBehind
  <1> QED
    BY <1>1, KeptAlways, PTL

----------------------------------------------------------------------------
(* Shutdown *)

\* Behind the loop of StopAll nothing runs, and nothing starts.
LEMMA StopStepKeeps ==
    ASSUME Base, Base', StopInv, ~LateRequests, [Next]_vars
    PROVE  StopInv'
  <1>0. Types
    BY DEF Base
  <1>1. ASSUME phase' = "stopping", NEW b \in App \ todo'
        PROVE  ~(manager'[b] # None /\ manager'[b].running)
    <2>1. CASE Shutdown
      BY <1>1, <2>1 DEF Shutdown
    <2>2. ASSUME phase = "stopping", todo' = todo, manager' = manager
          PROVE  ~(manager'[b] # None /\ manager'[b].running)
      BY <1>1, <2>2 DEF StopInv, Running
    <2>3. CASE ProcessExits \/ PidIsReused \/ HostRestarts \/ TimePasses \/ UNCHANGED vars \/ Batch
      <3>1. UNCHANGED <<phase, todo, manager>>
        BY <2>3 DEF ProcessExits, PidIsReused, HostRestarts, TimePasses, vars, Batch, booting
      <3> QED
        BY <1>1, <2>2, <3>1
    <2>4. ASSUME NEW a \in App, StopAll(a)
          PROVE  ~(manager'[b] # None /\ manager'[b].running)
      <3>1. todo' = todo \ {a} /\ phase = "stopping"
        BY <2>4 DEF StopAll
      <3>2. CASE EndsAs(a, "stopped") \/ StopFails(a)
        <4>1. manager' = [manager EXCEPT ![a] = [manager[a] EXCEPT !.running = FALSE]]
              /\ manager[a] \in Manager
          BY <1>0, <3>2 DEF EndsAs, StopFails, Halts, Set, Running, Types
        <4>2. ~manager'[a].running
          BY <1>0, <4>1 DEF Types, Manager
        <4>3. b # a => manager'[b] = manager[b]
          BY <1>0, <4>1 DEF Types
        <4> QED
          BY <1>1, <3>1, <4>2, <4>3 DEF StopInv, Running
      <3>3. CASE ~Running(a) /\ manager' = manager
        BY <1>1, <3>1, <3>3 DEF StopInv, Running
      <3> QED
        BY <2>4, <3>2, <3>3 DEF StopAll
    <2>5. ASSUME NEW a \in App, ExitIsSeen(a)
          PROVE  ~(manager'[b] # None /\ manager'[b].running)
      <3>1. Running(a) /\ phase = "stopping" /\ todo' = todo
        BY <1>1, <2>5, ExitIsSeenIs
      <3>2. b # a /\ ~Running(b)
        BY <1>1, <3>1 DEF StopInv
      <3>3. \/ \E m \in Manager : ~m.running /\ manager' = [manager EXCEPT ![a] = m]
            \/ \E p \in Pid : Started(a, p, mem[a].expires)
        BY <2>5, ExitIsSeenIs
      <3>4. manager'[b] = manager[b]
        BY <1>0, <1>1, <3>2, <3>3 DEF Started, Set, Types
      <3> QED
        BY <3>2, <3>4 DEF Running
    <2>6. ASSUME NEW a \in App, Apply(a) \/ Start(a) \/ Stop(a) \/ TtlFires(a)
          PROVE  FALSE
      BY <1>1, <2>6 DEF Apply, Start, Stop, TtlFires, Accepting, booting
    <2>7. ASSUME NEW a \in App,
                 \/ RestoreTerminal(a) \/ RestoreDead(a) \/ RestoreReused(a)
                 \/ RestoreVerified(a) \/ RestoreUnverified(a)
          PROVE  FALSE
      BY <1>1, <2>7, RestoredIs
    <2>8. ASSUME NEW a \in App, Cleanup(a)
          PROVE  FALSE
      BY <1>1, <2>8, CleanupIs
    <2>9. ASSUME NEW a \in App, ReviveKeeps(a) \/ ReviveExpires(a) \/ ReviveStarts(a) \/ ReviveFails(a)
          PROVE  FALSE
      BY <1>1, <2>9 DEF ReviveKeeps, ReviveExpires, ReviveStarts, ReviveFails, Reviving
    <2>10. ~Load /\ ~ReplaceState /\ ~CleanedUp /\ ~Serve /\ ~ShutDown /\ ~Crash
      BY <1>1 DEF Load, ReplaceState, CleanedUp, Serve, ShutDown, Crash
    <2> QED
      BY <2>1, <2>3, <2>4, <2>5, <2>6, <2>7, <2>8, <2>9, <2>10, NextCases
  <1>2. ASSUME phase' = "off", NEW b \in App, file'[b] # None, file'[b].status = "running"
        PROVE  b \in stuck'
    <2>1. CASE ShutDown
      <3>1. file' = mem /\ phase = "stopping" /\ todo = {} /\ stuck' = stuck
        BY <2>1 DEF ShutDown, Persisted, Ended, spells
      <3>2. ~Running(b) /\ RunsRight(b)
        BY <3>1 DEF StopInv, Base, AppRight, Settled, Serving
      <3> QED
        BY <1>2, <3>1, <3>2 DEF RunsRight, Recorded
    <2>2. CASE ProcessExits \/ PidIsReused \/ HostRestarts \/ TimePasses \/ UNCHANGED vars
      <3>1. UNCHANGED <<phase, file, stuck>>
        BY <2>2 DEF ProcessExits, PidIsReused, HostRestarts, TimePasses, vars, booting, history, spells
      <3> QED
        BY <1>2, <3>1 DEF StopInv
    <2>3. ~Batch /\ ~Load /\ ~ReplaceState /\ ~CleanedUp /\ ~Serve /\ ~Shutdown /\ ~Crash
      BY <1>2 DEF Batch, Load, ReplaceState, CleanedUp, Serve, Shutdown, Crash, booting, Down
    <2>4. ASSUME NEW a \in App, Apply(a) \/ Start(a) \/ Stop(a) \/ TtlFires(a) \/ StopAll(a)
          PROVE  FALSE
      BY <1>2, <2>4 DEF Apply, Start, Stop, TtlFires, StopAll, Accepting, booting
    <2>5. ASSUME NEW a \in App, ExitIsSeen(a)
          PROVE  FALSE
      BY <1>2, <2>5, ExitIsSeenIs DEF Serving
    <2>6. ASSUME NEW a \in App,
                 \/ RestoreTerminal(a) \/ RestoreDead(a) \/ RestoreReused(a)
                 \/ RestoreVerified(a) \/ RestoreUnverified(a)
          PROVE  FALSE
      BY <1>2, <2>6, RestoredIs
    <2>7. ASSUME NEW a \in App, Cleanup(a)
          PROVE  FALSE
      BY <1>2, <2>7, CleanupIs
    <2>8. ASSUME NEW a \in App, ReviveKeeps(a) \/ ReviveExpires(a) \/ ReviveStarts(a) \/ ReviveFails(a)
          PROVE  FALSE
      BY <1>2, <2>8 DEF ReviveKeeps, ReviveExpires, ReviveStarts, ReviveFails, Reviving
    <2> QED
      BY <2>1, <2>2, <2>3, <2>4, <2>5, <2>6, <2>7, <2>8, NextCases
  <1> QED
    BY <1>1, <1>2 DEF StopInv, Running

\* A shutdown that no request overtakes leaves no process alive that the file ever
\* had, but for those that a stop may not kill or could not, and a file that says
\* that nothing runs, but for what a stop has failed to end.
THEOREM ShutdownAlwaysStopsAll ==
    ASSUME ~SlowReplay, ~LateRequests
    PROVE  Spec => []ShutdownStopsAll
  <1>1. Init => StopInv
    BY DEF Init, StopInv, NoFile
  <1>2. ASSUME Base, StuckInv, KeptInv, StopInv
        PROVE  ShutdownStopsAll
    <2>1. ASSUME phase = "off", NEW p \in Ours, proc[p].birth \in recorded, proc[p].birth \notin spared
          PROVE  FALSE
      <3>1. p \in Kept
        BY <2>1 DEF Kept
      <3>2. Names(file[proc[p].app], p) /\ proc[p].app \in App
        BY <1>2, <3>1, KeptIs
      <3>3. proc[p].app \in stuck
        BY <1>2, <2>1, <3>2 DEF Names, StopInv
      <3> QED
        BY <1>2, <2>1, <3>2, <3>3 DEF StuckInv, Held, Names, Ours
    <2> QED
      BY <1>2, <2>1 DEF ShutdownStopsAll, StopInv, Apps
  <1> QED
    BY <1>1, <1>2, KeptAlways, BaseStep, StopStepKeeps, PTL DEF Spec
=============================================================================
