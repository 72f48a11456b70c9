------------------------------ MODULE LogFiles ------------------------------
(***************************************************************************)
(* The logs of the process apps: one Logger for each time an app starts,   *)
(* its lines in memory and in files of the directory all apps share.       *)
(*                                                                         *)
(* A Logger is named after the app's type and executable, its file after   *)
(* that and the second it was made in.  Loggers have a mutex each, so a    *)
(* call of one is a step; a line read from the process is logged later,    *)
(* and the logger may have been stopped by then.                           *)
(*                                                                         *)
(* A line is its app and its number; sizes are counted in lines.           *)
(***************************************************************************)
EXTENDS Integers, Sequences, FiniteSets, Functions, TLC

CONSTANTS
    App,
    Name,          \* what a Logger may be called
    Naming,        \* what the apps may be called together
    Begins,        \* <<m, n>>: the name n begins with m and a dash
    None,
    MaxLines,      \* maxLogLines, in memory
    MaxSize,       \* of a file: RotationConfig.MaxSize
    MaxFiles,      \* RotationConfig.MaxFiles
    CheckEvery,    \* rotationCheckEvery
    Failure,       \* which of "create", "temp", "rename" and "remove" may fail, by
                   \* what the apps are called
    SameSecond,    \* whether an app may be started again within a second
    MaxLogged,     \* bound of the model: lines logged
    Quota,         \* bound of the model: lines each app logs, likewise; one that logs
                   \* none is never started
    MaxTime        \* bound of the model: the clock, in seconds

ASSUME ConstantsAssumption ==
    /\ {MaxLines, MaxSize, CheckEvery} \subseteq Nat \ {0}
    /\ {MaxFiles, MaxLogged, MaxTime} \subseteq Nat
    /\ SameSecond \in BOOLEAN
    /\ Begins \subseteq Name \X Name
    /\ Naming \subseteq [App -> Name]
    /\ Failure \in [Naming -> SUBSET {"create", "temp", "rename", "remove"}]
    /\ Quota \in [Naming -> [App -> 0..MaxLogged]]

VARIABLES
    name,     \* what the Logger of an app is called
    now,      \* the clock
    disk,     \* the directory, and every file there has been
    log,      \* Manager.logger
    up,       \* apps whose process is alive
    capture,  \* what CaptureOutput does: nothing, wait for a line, or log one
    known,    \* AppState.LogPath
    logged,   \* history: lines an app has logged
    saved     \* history: those of them that were written to a file, but for what
              \* a rotation that could not rename its file has overwritten

vars == <<name, now, disk, log, up, capture, known, logged, saved>>

Line == App \X (1..MaxLogged)
\* <name>-<second>.log, <name>-<second>.rotated.<second>[.<n>].log, and
\* <name>-<random>.log, which has the second 0.
Path == Name \X (0..MaxTime) \X (0..MaxTime) \X (0..MaxLogged)
Hole == <<>>  \* what is read where nothing has been written

Logger == [file : Nat, path : Path \cup {None}, lines : Seq(Line), writes : Nat,
           size : Nat, done : BOOLEAN]
Closed == 0
NewLogger == [file |-> Closed, path |-> None, lines |-> <<>>, writes |-> 0,
              size |-> 0, done |-> FALSE]

TypeOK ==
    /\ name \in [App -> Name] /\ now \in 1..MaxTime
    /\ disk.data \in Seq(Seq(Line \cup {Hole}))
    /\ DOMAIN disk.files \subseteq Path
    /\ Range(disk.files) \subseteq 1..Len(disk.data)
    /\ \A i \in Range(disk.files) : \E k \in DOMAIN disk.age : disk.age[k] = i
    /\ log \in [App -> Logger \cup {None}]
    /\ up \subseteq App
    /\ capture \in [App -> {"off", "waiting", "line"}]
    /\ known \in [App -> Path \cup {None}]
    /\ logged \in [App -> 0..MaxLogged]
    /\ saved \in [App -> SUBSET (1..MaxLogged)]
    /\ \A a \in App : log[a] # None =>
        /\ Len(log[a].lines) <= MaxLines
        /\ log[a].file # Closed => ~log[a].done /\ log[a].file <= Len(disk.data)

Init ==
    /\ name \in Naming
    /\ now = 1
    /\ disk = [files |-> <<>>, data |-> <<>>, age |-> <<>>]
    /\ log = [a \in App |-> None]
    /\ up = {}
    /\ capture = [a \in App |-> "off"]
    /\ known = [a \in App |-> None]
    /\ logged = [a \in App |-> 0]
    /\ saved = [a \in App |-> {}]

----------------------------------------------------------------------------
(* The directory: a path leads to a file, files have an age *)

MayFail(call) == call \in Failure[name]
Exists(d, p) == p \in DOMAIN d.files
Touched(age, i) == Append(SelectSeq(age, LAMBDA j : j # i), i)
Removed(d, paths) ==
    [d EXCEPT !.files = Restrict(d.files, DOMAIN d.files \ paths)]

\* os.Create: a file that exists is emptied.
Created(d, p) ==
    LET i == IF Exists(d, p) THEN d.files[p] ELSE Len(d.data) + 1
    IN [files |-> (p :> i) @@ d.files,
        data  |-> IF Exists(d, p) THEN [d.data EXCEPT ![i] = <<>>] ELSE Append(d.data, <<>>),
        age   |-> Touched(d.age, i)]

Renamed(d, from, to) ==
    [Removed(d, {from}) EXCEPT !.files = (to :> d.files[from]) @@ @]

\* A file is written at the place its writer has come to, not at its end.
Written(d, i, at, line) ==
    [d EXCEPT !.data[i] = [k \in 1..(IF Len(@) > at THEN Len(@) ELSE at + 1) |->
                             IF k = at + 1 THEN line ELSE IF k <= Len(@) THEN @[k] ELSE Hole],
              !.age = Touched(@, i)]

----------------------------------------------------------------------------
(* Rotation *)

LivePath(a) == <<name[a], now, 0, 0>>
TempPath(a, d) ==
    <<name[a], 0, 0, CHOOSE k \in 1..MaxLogged : ~Exists(d, <<name[a], 0, 0, k>>)>>
RotatedPath(p, d) ==
    LET Nth(k) == <<p[1], p[2], now, k>>
    IN Nth(CHOOSE k \in 0..MaxLogged : ~Exists(d, Nth(k)) /\ \A j \in 0..(k - 1) : Exists(d, Nth(j)))

\* What cleanupOldFiles takes for the app's: any file whose name begins like them.
Own(a, d) == {p \in DOMAIN d.files : p[1] = name[a] \/ <<name[a], p[1]>> \in Begins}
Place(d, p) == CHOOSE k \in DOMAIN d.age : d.age[k] = d.files[p]
Older(d, p, q) == Place(d, p) < Place(d, q)

\* Fault: the files are sorted the wrong way round.
Newest(a, d) ==
    LET own == Own(a, d) IN
    IF MaxFiles = 0 \/ Cardinality(own) <= MaxFiles THEN {}
    ELSE {p \in own : Cardinality({q \in own : Older(d, q, p)}) >= MaxFiles}

\* All but the newest MaxFiles.
Oldest(a, d) ==
    LET own == Own(a, d) IN
    IF MaxFiles = 0 \/ Cardinality(own) <= MaxFiles THEN {}
    ELSE {p \in own : Cardinality({q \in own : Older(d, p, q)}) >= MaxFiles}

\* cleanupOldFiles, which goes on if a file cannot be removed.
Cleaned(a, d) ==
    LET oldest == Oldest(a, d)
    IN {Removed(d, oldest \ left) : left \in IF MayFail("remove") THEN SUBSET oldest ELSE {{}}}

\* The file it has had gets another name, or keeps the one it has.
SetAside(a, l, d) ==
    IF ~Exists(d, l.path) THEN {[disk |-> d, failed |-> FALSE]}
    ELSE {[disk |-> Renamed(d, l.path, RotatedPath(l.path, d)), failed |-> FALSE]}
         \cup (IF MayFail("rename") THEN {[disk |-> d, failed |-> TRUE]} ELSE {})

\* What the logger and the directory may be once a new file was made, or was not.
\* The new file is the old one, emptied, if that was not set aside and is as
\* young as the second.
Reopened(a, l, set) ==
    LET At(p) ==
            LET made == Created(set.disk, p)
            IN {[logger |-> [l EXCEPT !.file = made.files[p], !.path = LivePath(a), !.size = 0],
                 disk   |-> d,
                 failed |-> set.failed] : d \in Cleaned(a, made)}
    IN At(LivePath(a))
       \cup (IF MayFail("create") THEN At(TempPath(a, set.disk)) ELSE {})
       \cup (IF MayFail("create") /\ MayFail("temp")
             THEN {set @@ [logger |-> [l EXCEPT !.file = Closed]]} ELSE {})

\* Fault: the size is looked at now and then only.
DueNowAndThen(l) == l.writes % CheckEvery = 0 /\ l.size > MaxSize

\* Looked at now and then, or at once if the file is too large by now.
Due(l) == (l.writes % CheckEvery = 0 \/ l.size > MaxSize) /\ l.size > MaxSize

\* checkAndRotate
Rotated(a, l) ==
    IF Due(l) THEN UNION {Reopened(a, l, set) : set \in SetAside(a, l, disk)}
    ELSE {[logger |-> l, disk |-> disk, failed |-> FALSE]}

----------------------------------------------------------------------------
(* The Logger *)

\* Fault: what has become too long is cut at the end.
KeepsOldest(lines) == SubSeq(lines, 1, IF Len(lines) > MaxLines THEN MaxLines ELSE Len(lines))

LastOf(lines) ==
    SubSeq(lines, IF Len(lines) > MaxLines THEN Len(lines) - MaxLines + 1 ELSE 1, Len(lines))

\* The lines of the file the Logger has had, if it could not be renamed and is
\* the one it has now.
Overwritten(a, l, r) ==
    {n \in 1..MaxLogged : r.failed /\ r.logger.file = l.file /\ <<a, n>> \in Range(disk.data[l.file])}

WriteLog(a) ==
    LET line == <<a, logged[a] + 1>>
        l == [log[a] EXCEPT !.lines = LastOf(Append(@, line))]
    IN /\ logged[a] < Quota[name][a]
       /\ logged' = [logged EXCEPT ![a] = @ + 1]
       /\ IF l.file = Closed
          THEN log' = [log EXCEPT ![a] = l] /\ UNCHANGED <<disk, saved>>
          ELSE \E r \in Rotated(a, [l EXCEPT !.writes = @ + 1]) :
                IF r.logger.file = Closed
                THEN log' = [log EXCEPT ![a] = r.logger] /\ disk' = r.disk /\ UNCHANGED saved
                ELSE /\ log' = [log EXCEPT ![a] = [r.logger EXCEPT !.size = @ + 1]]
                     /\ disk' = Written(r.disk, r.logger.file, r.logger.size, line)
                     /\ saved' = [saved EXCEPT ![a] = (@ \ Overwritten(a, l, r)) \cup {line[2]}]

\* The Logger of the last start was stopped, or there was none.
Idle(a) ==
    /\ Quota[name][a] > 0
    /\ a \notin up
    /\ log[a] # None => log[a].done \/ (log[a].file = Closed /\ log[a].writes = 0)

\* StartWithConfig makes a Logger and starts it, and then the process.
Start(a) ==
    /\ Idle(a)
    /\ SameSecond \/ ~Exists(disk, LivePath(a))
    /\ disk' = Created(disk, LivePath(a))
    /\ log' = [log EXCEPT ![a] = [NewLogger EXCEPT !.file = disk'.files[LivePath(a)],
                                                   !.path = LivePath(a)]]
    /\ up' = up \cup {a}
    /\ capture' = [capture EXCEPT ![a] = "waiting"]
    /\ known' = [known EXCEPT ![a] = LivePath(a)]
    /\ UNCHANGED <<name, now, logged, saved>>

StartFails(a) ==
    /\ MayFail("create")
    /\ Idle(a)
    /\ log' = [log EXCEPT ![a] = NewLogger]
    /\ UNCHANGED <<name, now, disk, up, capture, known, logged, saved>>

\* What the Manager has to say, until it stops the Logger.
SystemLine(a) ==
    /\ log[a] # None /\ log[a].path # None /\ ~log[a].done
    /\ WriteLog(a)
    /\ UNCHANGED <<name, now, up, capture, known>>

\* CaptureOutput waits in Scan, whether or not the Logger has been stopped.
Scan(a) ==
    /\ capture[a] = "waiting"
    /\ capture' = [capture EXCEPT ![a] = IF a \in up THEN "line" ELSE "off"]
    /\ UNCHANGED <<name, now, disk, log, up, known, logged, saved>>

Capture(a) ==
    /\ capture[a] = "line"
    /\ WriteLog(a)
    /\ capture' = [capture EXCEPT ![a] = IF log[a].done THEN "off" ELSE "waiting"]
    /\ UNCHANGED <<name, now, up, known>>

ProcessEnds(a) ==
    /\ a \in up
    /\ up' = up \ {a}
    /\ UNCHANGED <<name, now, disk, log, capture, known, logged, saved>>

\* Logger.Stop, from Manager.Stop, monitor or waitProcess.
Stop(a) ==
    /\ a \notin up
    /\ log[a] # None /\ ~log[a].done
    /\ log' = [log EXCEPT ![a].done = TRUE, ![a].file = Closed]
    /\ UNCHANGED <<name, now, disk, up, capture, known, logged, saved>>

\* The server ends and boots: SetLogPath gives an app's new Logger the path of
\* the record.
Restore ==
    /\ log' = [a \in App |-> IF known[a] = None THEN None ELSE [NewLogger EXCEPT !.path = known[a]]]
    /\ capture' = [a \in App |-> "off"]
    /\ up' = {}
    /\ UNCHANGED <<name, now, disk, known, logged, saved>>

Tick ==
    /\ now < MaxTime
    /\ now' = now + 1
    /\ UNCHANGED <<name, disk, log, up, capture, known, logged, saved>>

Next ==
    \/ \E a \in App : \/ Start(a) \/ StartFails(a) \/ SystemLine(a) \/ Scan(a) \/ Capture(a)
                      \/ ProcessEnds(a) \/ Stop(a)
    \/ Restore \/ Tick

Spec == Init /\ [][Next]_vars

\* All there is to see: GetLogs, without a limit.
GetLogs(a) ==
    IF log[a] = None THEN <<>>
    ELSE IF log[a].lines = <<>> /\ log[a].path # None
    THEN IF Exists(disk, log[a].path) THEN disk.data[disk.files[log[a].path]] ELSE <<>>
    ELSE log[a].lines

----------------------------------------------------------------------------
(* Properties *)

\* No other app's files have a name the app's could have, or be taken for.
Alone(a) ==
    \A b \in App \ {a} : name[b] # name[a] /\ <<name[b], name[a]>> \notin Begins

FilesOf(a) == {disk.data[i] : i \in Range(disk.files)}
LinesOf(a, paths) ==
    {l[2] : l \in {k \in UNION {Range(disk.data[disk.files[p]]) : p \in paths} : k # Hole /\ k[1] = a}}
OnDisk(a) == LinesOf(a, DOMAIN disk.files)
Kept(a) == LinesOf(a, DOMAIN disk.files \ Oldest(a, disk))

\* Over rotations, restarts and calls that fail, the lines an app has had written
\* to files are lost from the oldest on: none is newer than a line in the newest
\* MaxFiles files, and none is lost while there are fewer files.  The exception are
\* lines that a rotation has overwritten, having failed to rename its file within
\* the second that was made in.
OldestGoFirst ==
    \A a \in App : Alone(a) => LET kept == Kept(a) lost == saved[a] \ OnDisk(a) IN
        /\ \A m \in lost, n \in kept : m < n
        /\ lost # {} => Cardinality(Own(a, disk)) >= MaxFiles /\ MaxFiles > 0

\* The types, with what is kept in memory; and a file takes one line more than its
\* size, however rarely the size is looked at.
FileIsBounded ==
    /\ TypeOK
    /\ \A a \in App : Alone(a) => \A f \in FilesOf(a) :
        (\E l \in Range(f) : l # Hole /\ l[1] = a) => Len(f) <= MaxSize + 1

\* What is shown of an app are consecutive lines, of this app only; the last
\* ones as long as its Logger is in use, be they from memory or, after a restart
\* of the server, from the file.
ShownIsConsecutive ==
    \A a \in App : Alone(a) => LET g == GetLogs(a) IN
        /\ \A k \in DOMAIN g : g[k] = <<a, g[1][2] + k - 1>>
        /\ log[a] # None /\ log[a].lines # <<>> => g[Len(g)] = <<a, logged[a]>>

\* Apps have logs of their own ("独立日志").  Two apps with the same executable
\* share the names of their files.
LogsAreApart ==
    \A a \in App : log[a] # None /\ log[a].file # Closed =>
        \A l \in Range(disk.data[log[a].file]) : l # Hole /\ l[1] = a

\* After a restart of the server the lines written to files are found again.
\* The record has the path the Logger began with, which a rotation renames.
RestoredAreFound ==
    \A a \in App :
        log[a] # None /\ log[a].path # None /\ log[a].lines = <<>> /\ OnDisk(a) # {} =>
            GetLogs(a) # <<>> \/ log[a].file # Closed
=============================================================================
